--------------------------- MODULE ServicesProofs ---------------------------
(***************************************************************************)
(* Proofs about auditors, uploads, scores, pictures and pages; and, with   *)
(* AccountsAnswersProofs, that every service keeps its types.              *)
(***************************************************************************)
EXTENDS AccountsAnswersProofs, SequencesExt, SequenceTheorems

(***************************************************************************)
(* Assignments: the auditors and their assignments (AuditorProfileService, *)
(* AuditService).                                                          *)
(***************************************************************************)
\* Finite sets are those of the library.
LEMMA AssigningCounts ==
    \A S : /\ Assigning!Cardinality(S) = Cardinality(S)
           /\ Assigning!IsFiniteSet(S) <=> IsFiniteSet(S)
  BY DEF Assigning!Cardinality, Cardinality, Assigning!IsFiniteSet, IsFiniteSet

\* The contract numbers its requests one after the other.
AssigningAskedInOrder == Assigning!Newest \in 0 .. ChainRequests /\
    \A n \in 1 .. ChainRequests : asked[n] # {} <=> n <= Assigning!Newest

\* A seeded row stays as it is, and of a user nobody registers twice at once there
\* is one row at most, none while one is on its way.
AssigningSeedsStay == \A p \in AuditorProfiles : Seeds[p] # Null => profile[p] = Seeds[p]

AssigningRegistersAlone ==
    \A j, k \in Calls :
        call[j].op = "register" /\ call[k].op = "register" /\ call[j].user = call[k].user /\ j # k =>
            call[j].user \in overlapped

AssigningRegistersFirst ==
    \A k \in Calls : \A u \in Auditors \ overlapped :
        call[k].op = "register" /\ call[k].user = u => Assigning!ProfilesOf(u) = {}

AssigningOneRow == \A u \in Auditors \ overlapped : \A p, q \in Assigning!ProfilesOf(u) : p = q

\* Every seeded auditor the request names has a row for it.
AssigningCovered(n) ==
    \A p \in AuditorProfiles : Seeds[p] # Null /\ Seeds[p].wallet \in asked[n] => <<n, p>> \in assignment

\* What the cursor has passed is covered, and so is what comes before a run, or in
\* it once its rows are saved.
AssigningRunsCover ==
    /\ passed <= Assigning!Newest
    /\ \A n \in 1 .. passed : AssigningCovered(n)
    /\ \A k \in Calls : call[k].op \in {"handle", "store"} =>
          /\ call[k].from <= call[k].to /\ call[k].to <= Assigning!Newest
          /\ \A n \in 1 .. ChainRequests :
                n < call[k].from \/ (call[k].op = "store" /\ n <= call[k].to) => AssigningCovered(n)

AssigningNamedOnly == \A item \in assignment : profile[item[2]] # Null /\
    profile[item[2]].wallet \in asked[item[1]]

AssigningIInv ==
    /\ Assigning!TypeOK
    /\ AssigningAskedInOrder
    /\ AssigningSeedsStay
    /\ AssigningRegistersAlone
    /\ AssigningRegistersFirst
    /\ AssigningOneRow
    /\ AssigningRunsCover
    /\ AssigningNamedOnly
-----------------------------------------------------------------------------
\* The initial states satisfy the invariant.
LEMMA AssigningInitial ==
    ASSUME Assigning!NullAssumption, Assigning!RequestAssumption, Assigning!SeedAssumption
    PROVE  Assigning!Init => AssigningIInv
<1> SUFFICES ASSUME Assigning!Init PROVE AssigningIInv
  OBVIOUS
<1>1. Assigning!TypeOK
  <2>1. [user : Auditors, wallet : Wallets, lower : {FALSE}] \subseteq Assigning!Profile
    BY DEF Assigning!Profile
  <2>2. profile \in [AuditorProfiles -> Assigning!Profile \cup {Null}]
    BY <2>1 DEF Assigning!Init, Assigning!SeedAssumption
  <2> QED BY <2>2 DEF Assigning!Init, Assigning!TypeOK, Assigning!RequestAssumption,
      Assigning!CallRecords, Assigning!NoCall, Assigning!Idle
<1>2. AssigningAskedInOrder
  <2>1. {n \in 1 .. ChainRequests : asked[n] # {}} = {}
    BY DEF Assigning!Init
  <2>2. Assigning!Newest = 0
    BY AssigningCounts, <2>1, FS_EmptySet DEF Assigning!Newest
  <2> QED BY <2>2 DEF Assigning!Init, AssigningAskedInOrder, Assigning!RequestAssumption
<1>3. AssigningSeedsStay /\ AssigningRegistersAlone /\ AssigningRegistersFirst
  BY DEF Assigning!Init, AssigningSeedsStay, AssigningRegistersAlone, AssigningRegistersFirst,
    Assigning!Idle
<1>4. AssigningOneRow
  BY DEF Assigning!Init, AssigningOneRow, Assigning!ProfilesOf, Assigning!Rows,
    Assigning!SeedAssumption
<1>5. AssigningRunsCover /\ AssigningNamedOnly
  BY <1>2 DEF Assigning!Init, AssigningRunsCover, AssigningNamedOnly, Assigning!Idle,
    AssigningAskedInOrder
<1> QED BY <1>1, <1>2, <1>3, <1>4, <1>5 DEF AssigningIInv

\* What the fields of a call in flight are, by its op.
LEMMA AssigningCallShapes ==
    ASSUME Assigning!TypeOK, NEW k \in Calls
    PROVE  /\ call[k].op \in {"none", "register", "handle", "store"}
           /\ call[k].op = "none" => call[k] = Assigning!Idle
           /\ call[k].op = "register" => /\ call[k] \in Assigning!RegisterCall
                                         /\ call[k].user \in Auditors
                                         /\ call[k].wallet \in Wallets
           /\ call[k].op \in {"handle", "store"} => /\ call[k] \in Assigning!RunCall
                                                    /\ call[k].from \in 1 .. ChainRequests
                                                    /\ call[k].to \in 1 .. ChainRequests
  BY DEF Assigning!TypeOK, Assigning!CallRecords, Assigning!NoCall, Assigning!RegisterCall,
    Assigning!RunCall, Assigning!Idle

\* The record of a handler that is not at work.
LEMMA AssigningIdleShape == Assigning!Idle.op = "none" /\ Assigning!Idle \in Assigning!NoCall
  BY DEF Assigning!Idle, Assigning!NoCall

\* A request is the next one, and the contract has not spoken of it before.
LEMMA AssigningNewestStep ==
    ASSUME Assigning!RequestAssumption, Assigning!TypeOK, AssigningAskedInOrder,
           NEW n \in 1 .. ChainRequests, NEW auditors \in (SUBSET Wallets) \ {{}}, Assigning!Request(n, auditors)
    PROVE  Assigning!Newest' = Assigning!Newest + 1 /\ asked[n] = {} /\ n = Assigning!Newest'
<1> DEFINE S == {m \in 1 .. ChainRequests : asked[m] # {}}
<1>1. n = Assigning!Newest + 1 /\ asked[n] = {} /\ Assigning!Newest \in Nat
  BY DEF Assigning!Request, AssigningAskedInOrder, Assigning!RequestAssumption
<1>2. {m \in 1 .. ChainRequests : asked'[m] # {}} = S \cup {n} /\ n \notin S
  BY <1>1 DEF Assigning!Request, Assigning!TypeOK
<1>3. Assigning!IsFiniteSet(S)
  <2>1. Assigning!IsFiniteSet(1 .. ChainRequests)
    BY AssigningCounts, FS_Interval DEF Assigning!RequestAssumption
  <2> QED BY AssigningCounts, <2>1, FS_Subset
<1>4. Assigning!Cardinality(S \cup {n}) = Assigning!Cardinality(S) + 1
  BY AssigningCounts, <1>2, <1>3, FS_AddElement
<1>5. Assigning!Newest = Assigning!Cardinality(S) /\ Assigning!Newest' = Assigning!Cardinality(S \cup {n})
  BY <1>2 DEF Assigning!Newest
<1> QED BY <1>1, <1>4, <1>5

\* Every step keeps the types.
LEMMA AssigningTypeStep ==
    ASSUME Assigning!NullAssumption, Assigning!RequestAssumption, Assigning!SeedAssumption,
           AssigningIInv, [Assigning!Next]_(Assigning!vars)
    PROVE  Assigning!TypeOK'
<1> USE DEF AssigningIInv, Assigning!TypeOK, Assigning!CallRecords
<1>1. ASSUME NEW k \in Calls, NEW u \in Auditors, NEW w \in Wallets, NEW lower \in BOOLEAN,
             Assigning!CheckAuditor(k, u, w, lower)
      PROVE  Assigning!TypeOK'
  <2>1. [op |-> "register", user |-> u, wallet |-> w] \in Assigning!RegisterCall
    BY DEF Assigning!RegisterCall
  <2> QED BY <1>1, <2>1 DEF Assigning!CheckAuditor, Assigning!Start, Assigning!jobVars
<1>2. ASSUME NEW k \in Calls, NEW p \in AuditorProfiles, Assigning!InsertAuditor(k, p)
      PROVE  Assigning!TypeOK'
  <2>1. [user |-> call[k].user, wallet |-> call[k].wallet, lower |-> TRUE] \in Assigning!Profile
    BY <1>2, AssigningCallShapes DEF Assigning!InsertAuditor, Assigning!Profile
  <2> QED BY <1>2, <2>1, AssigningIdleShape DEF Assigning!InsertAuditor, Assigning!End,
      Assigning!jobVars
<1>3. ASSUME NEW k \in Calls, Assigning!Fire(k) PROVE Assigning!TypeOK'
  <2>1. passed + 1 \in 1 .. ChainRequests /\ Assigning!Newest \in 1 .. ChainRequests
    BY <1>3 DEF Assigning!Fire, AssigningAskedInOrder, Assigning!RequestAssumption
  <2>2. [op |-> "handle", from |-> passed + 1, to |-> Assigning!Newest] \in Assigning!RunCall
    BY <2>1 DEF Assigning!RunCall
  <2> QED BY <1>3, <2>2 DEF Assigning!Fire, Assigning!Start, Assigning!jobVars
<1>4. ASSUME NEW k \in Calls, Assigning!SaveAssignments(k) PROVE Assigning!TypeOK'
  <2>1. [call[k] EXCEPT !.op = "store"] \in Assigning!RunCall
    BY <1>4, AssigningCallShapes DEF Assigning!SaveAssignments, Assigning!RunCall
  <2>2. Assigning!Batch(k) \subseteq (1 .. ChainRequests) \X AuditorProfiles
    BY <1>4, AssigningCallShapes DEF Assigning!SaveAssignments, Assigning!Batch,
      Assigning!ProfilesOfWallets, Assigning!Rows, Assigning!RequestAssumption
  <2> QED BY <1>4, <2>1, <2>2 DEF Assigning!SaveAssignments, Assigning!Continue
<1>5. ASSUME NEW k \in Calls, Assigning!StoreCursor(k) PROVE Assigning!TypeOK'
  <2>1. call[k].to \in 0 .. ChainRequests
    BY <1>5, AssigningCallShapes DEF Assigning!StoreCursor
  <2> QED BY <1>5, <2>1, AssigningIdleShape DEF Assigning!StoreCursor, Assigning!End
<1>6. ASSUME NEW k \in Calls, Assigning!Abandon(k) PROVE Assigning!TypeOK'
  BY <1>6, AssigningIdleShape DEF Assigning!Abandon, Assigning!End, Assigning!jobVars
<1>7. ASSUME NEW n \in 1 .. ChainRequests, NEW auditors \in (SUBSET Wallets) \ {{}},
             Assigning!Request(n, auditors)
      PROVE  Assigning!TypeOK'
  BY <1>7 DEF Assigning!Request
<1>8. ASSUME NEW u \in Auditors, NEW r \in assignment, Assigning!SetVerified(u, r)
      PROVE  Assigning!TypeOK'
  BY <1>8 DEF Assigning!SetVerified
<1>9. CASE UNCHANGED Assigning!vars
  BY <1>9 DEF Assigning!vars
<1> HIDE DEF Assigning!TypeOK
<1> QED BY <1>1, <1>2, <1>3, <1>4, <1>5, <1>6, <1>7, <1>8, <1>9 DEF Assigning!Next
-----------------------------------------------------------------------------
\* The profiles.
AssigningRegistered == AssigningSeedsStay /\ AssigningRegistersAlone /\ AssigningRegistersFirst /\
    AssigningOneRow

\* Profiles stay as they are when none is written and nobody begins to register.
LEMMA AssigningRegisteredKeeps ==
    ASSUME AssigningIInv, UNCHANGED <<profile, overlapped>>,
           \A k \in Calls : call'[k] = call[k] \/ call'[k].op # "register"
    PROVE  AssigningRegistered'
  BY DEF AssigningIInv, AssigningRegistered, AssigningSeedsStay, AssigningRegistersAlone,
    AssigningRegistersFirst, AssigningOneRow, Assigning!ProfilesOf, Assigning!Rows

\* A registration begins.
LEMMA AssigningRegisteredCheck ==
    ASSUME AssigningIInv, NEW k \in Calls, NEW u \in Auditors, NEW w, NEW lower,
           Assigning!CheckAuditor(k, u, w, lower)
    PROVE  AssigningRegistered'
<1> USE DEF AssigningIInv
<1>1. /\ call'[k] = [op |-> "register", user |-> u, wallet |-> w]
      /\ \A j \in Calls \ {k} : call'[j] = call[j]
      /\ Assigning!ProfilesOf(u) = {} /\ UNCHANGED profile /\ overlapped \subseteq overlapped'
      /\ \A j \in Calls : call[j].op = "register" /\ call[j].user = u => u \in overlapped'
  BY DEF Assigning!CheckAuditor, Assigning!NoSuchProfile, Assigning!Start, Assigning!Registering,
    Assigning!TypeOK
<1>2. \A v \in Auditors : Assigning!ProfilesOf(v)' = Assigning!ProfilesOf(v)
  BY <1>1 DEF Assigning!ProfilesOf, Assigning!Rows
<1>3. AssigningSeedsStay' /\ AssigningOneRow'
  BY <1>1, <1>2 DEF AssigningSeedsStay, AssigningOneRow
<1>4. AssigningRegistersAlone'
  BY <1>1 DEF AssigningRegistersAlone
<1>5. AssigningRegistersFirst'
  BY <1>1, <1>2 DEF AssigningRegistersFirst
<1> QED BY <1>3, <1>4, <1>5 DEF AssigningRegistered

\* It ends: the profile of a user who had none, or who is among the exceptions.
LEMMA AssigningRegisteredInsert ==
    ASSUME Assigning!NullAssumption, Assigning!SeedAssumption, AssigningIInv, NEW k \in Calls,
           NEW p \in AuditorProfiles, Assigning!InsertAuditor(k, p)
    PROVE  AssigningRegistered'
<1> USE DEF AssigningIInv
<1>0. PICK u \in Auditors : u = call[k].user
  BY AssigningCallShapes DEF Assigning!InsertAuditor
<1>9. [user |-> call[k].user, wallet |-> call[k].wallet, lower |-> TRUE] \in Assigning!Profile
  BY AssigningCallShapes DEF Assigning!InsertAuditor, Assigning!Profile
<1>1. /\ call[k].op = "register" /\ profile[p] = Null
      /\ profile'[p] # Null /\ profile'[p].user = u
      /\ \A q \in AuditorProfiles \ {p} : profile'[q] = profile[q]
      /\ call'[k].op = "none" /\ \A j \in Calls \ {k} : call'[j] = call[j]
      /\ UNCHANGED overlapped
  BY <1>0, <1>9, AssigningIdleShape DEF Assigning!InsertAuditor, Assigning!End, Assigning!TypeOK,
    Assigning!NullAssumption
<1>2. /\ \A v \in Auditors \ {u} : Assigning!ProfilesOf(v)' = Assigning!ProfilesOf(v)
      /\ Assigning!ProfilesOf(u)' = Assigning!ProfilesOf(u) \cup {p}
  BY <1>1 DEF Assigning!ProfilesOf, Assigning!Rows
<1>3. AssigningSeedsStay'
  BY <1>1 DEF AssigningSeedsStay, Assigning!SeedAssumption
<1>4. AssigningRegistersAlone'
  BY <1>1 DEF AssigningRegistersAlone
<1>5. AssigningRegistersFirst'
  BY <1>0, <1>1, <1>2 DEF AssigningRegistersAlone, AssigningRegistersFirst
<1>6. AssigningOneRow'
  BY <1>0, <1>1, <1>2 DEF AssigningRegistersFirst, AssigningOneRow
<1> QED BY <1>3, <1>4, <1>5, <1>6 DEF AssigningRegistered
-----------------------------------------------------------------------------
\* The requests and the runs.
AssigningJudged == AssigningAskedInOrder /\ AssigningRunsCover /\ AssigningNamedOnly

\* Nothing is asked, no row is taken back, and a run goes on as it was or ends.
LEMMA AssigningJudgedKeeps ==
    ASSUME Assigning!RequestAssumption, AssigningIInv, UNCHANGED <<asked, passed>>,
           assignment \subseteq assignment',
           \A p \in AuditorProfiles : profile[p] # Null => profile'[p] = profile[p],
           \A r \in assignment' \ assignment :
               profile'[r[2]] # Null /\ profile'[r[2]].wallet \in asked[r[1]],
           \A k \in Calls :
               \/ call'[k] = call[k]
               \/ call'[k].op \in {"none", "register"}
               \/ /\ call[k].op \in {"handle", "store"}
                  /\ call'[k].from = call[k].from /\ call'[k].to = call[k].to
                  /\ \A n \in call[k].from .. call[k].to : AssigningCovered(n)'
               \/ /\ passed < Assigning!Newest
                  /\ call'[k].from = passed + 1 /\ call'[k].to = Assigning!Newest /\ call'[k].op = "handle"
    PROVE  AssigningJudged'
<1> USE DEF AssigningIInv
<1>1. Assigning!Newest' = Assigning!Newest /\ AssigningAskedInOrder'
  BY DEF Assigning!Newest, AssigningAskedInOrder
<1>2. \A n \in 1 .. ChainRequests : AssigningCovered(n) => AssigningCovered(n)'
  BY DEF AssigningCovered
<1>3. AssigningNamedOnly'
  BY DEF AssigningNamedOnly, Assigning!TypeOK
<1>4. passed \in Nat /\ passed <= ChainRequests /\ passed <= Assigning!Newest /\ Assigning!Newest \in Nat
  BY DEF Assigning!TypeOK, AssigningAskedInOrder, AssigningRunsCover
<1>5. ASSUME NEW k \in Calls, call'[k].op \in {"handle", "store"}
      PROVE  /\ call'[k].from <= call'[k].to /\ call'[k].to <= Assigning!Newest
             /\ \A n \in 1 .. ChainRequests :
                n < call'[k].from \/ (call'[k].op = "store" /\ n <= call'[k].to) => AssigningCovered(n)'
  <2>1. CASE call'[k] = call[k]
    BY <1>2, <1>5, <2>1 DEF AssigningRunsCover
  <2>2. CASE /\ call[k].op \in {"handle", "store"}
             /\ call'[k].from = call[k].from /\ call'[k].to = call[k].to
             /\ \A n \in call[k].from .. call[k].to : AssigningCovered(n)'
    <3>1. call[k].from \in 1 .. ChainRequests /\ call[k].to \in 1 .. ChainRequests
      BY <2>2, AssigningCallShapes
    <3>2. \A n \in 1 .. ChainRequests : n < call[k].from => AssigningCovered(n)'
      BY <1>2, <2>2 DEF AssigningRunsCover
    <3>3. \A n \in 1 .. ChainRequests : n <= call[k].to => AssigningCovered(n)'
      BY <2>2, <3>1, <3>2
    <3> QED BY <2>2, <3>2, <3>3 DEF AssigningRunsCover
  <2>3. CASE passed < Assigning!Newest /\ call'[k].from = passed + 1 /\
               call'[k].to = Assigning!Newest /\ call'[k].op = "handle"
    BY <1>2, <1>4, <2>3 DEF AssigningRunsCover
  <2> QED BY <1>5, <2>1, <2>2, <2>3
<1>6. \A n \in 1 .. passed : AssigningCovered(n)'
  <2>1. \A n \in 1 .. passed : n \in 1 .. ChainRequests /\ AssigningCovered(n)
    BY <1>4 DEF AssigningRunsCover, Assigning!RequestAssumption
  <2> QED BY <1>2, <2>1
<1>7. AssigningRunsCover'
  BY <1>1, <1>4, <1>5, <1>6 DEF AssigningRunsCover
<1> QED BY <1>1, <1>3, <1>7 DEF AssigningJudged

\* A profile comes: its auditor is assigned from now on.
LEMMA AssigningJudgedInsert ==
    ASSUME Assigning!RequestAssumption, AssigningIInv, NEW k \in Calls, NEW p \in AuditorProfiles,
           Assigning!InsertAuditor(k, p)
    PROVE  AssigningJudged'
<1>1. /\ \A q \in AuditorProfiles : profile[q] # Null => profile'[q] = profile[q]
      /\ \A j \in Calls : call'[j] = call[j] \/ call'[j].op = "none"
      /\ UNCHANGED <<asked, passed, assignment>>
  BY AssigningIdleShape DEF Assigning!InsertAuditor, Assigning!End, Assigning!jobVars,
    AssigningIInv, Assigning!TypeOK
<1> QED BY <1>1, AssigningJudgedKeeps

\* The job fires and reads its cursor.
LEMMA AssigningJudgedFire ==
    ASSUME Assigning!RequestAssumption, AssigningIInv, NEW k \in Calls, Assigning!Fire(k)
    PROVE  AssigningJudged'
<1>1. /\ call'[k] = [op |-> "handle", from |-> passed + 1, to |-> Assigning!Newest]
      /\ \A j \in Calls \ {k} : call'[j] = call[j]
      /\ UNCHANGED <<asked, passed, assignment, profile>> /\ passed < Assigning!Newest
  BY DEF Assigning!Fire, Assigning!Start, Assigning!jobVars, AssigningIInv, Assigning!TypeOK
<1> QED BY <1>1, AssigningJudgedKeeps

\* The auditors of a request get their assignments.
LEMMA AssigningJudgedSave ==
    ASSUME Assigning!RequestAssumption, Assigning!SeedAssumption, Assigning!NullAssumption,
           AssigningIInv, NEW k \in Calls, Assigning!SaveAssignments(k)
    PROVE  AssigningJudged'
<1> USE DEF AssigningIInv
<1>1. /\ call[k].op = "handle"
      /\ call'[k] = [call[k] EXCEPT !.op = "store"]
      /\ \A j \in Calls \ {k} : call'[j] = call[j]
      /\ assignment' = assignment \cup Assigning!Batch(k)
      /\ UNCHANGED <<profile, asked, passed>>
  BY DEF Assigning!SaveAssignments, Assigning!Continue, Assigning!TypeOK
<1>2. call[k] \in Assigning!RunCall /\ call[k].from \in 1 .. ChainRequests /\
        call[k].to \in 1 .. ChainRequests
  BY <1>1, AssigningCallShapes
<1>3. call'[k].from = call[k].from /\ call'[k].to = call[k].to /\ call'[k].op = "store"
  BY <1>1, <1>2 DEF Assigning!RunCall
<1>4. \A n \in call[k].from .. call[k].to : \A p \in Assigning!ProfilesOfWallets(asked[n]) : <<n, p>> \in Assigning!Batch(k)
  BY DEF Assigning!Batch
<1>5. \A n \in call[k].from .. call[k].to : AssigningCovered(n)'
  <2> SUFFICES ASSUME NEW n \in call[k].from .. call[k].to, NEW p \in AuditorProfiles,
                      Seeds[p] # Null, Seeds[p].wallet \in asked[n]
               PROVE  <<n, p>> \in assignment'
    BY <1>1 DEF AssigningCovered
  <2>1. profile[p] = Seeds[p] /\ ~Seeds[p].lower
    BY DEF AssigningSeedsStay, Assigning!SeedAssumption
  <2>2. p \in Assigning!ProfilesOfWallets(asked[n])
    BY <2>1 DEF Assigning!ProfilesOfWallets, Assigning!Rows
  <2> QED BY <1>1, <1>4, <2>2
<1>6. \A r \in Assigning!Batch(k) : profile[r[2]] # Null /\ profile[r[2]].wallet \in asked[r[1]]
  BY DEF Assigning!Batch, Assigning!ProfilesOfWallets, Assigning!Rows
<1> QED BY <1>1, <1>3, <1>5, <1>6, AssigningJudgedKeeps

\* The cursor is stored: the requests before it are covered.
LEMMA AssigningJudgedStore ==
    ASSUME Assigning!RequestAssumption, AssigningIInv, NEW k \in Calls, Assigning!StoreCursor(k)
    PROVE  AssigningJudged'
<1> USE DEF AssigningIInv
<1>1. /\ passed' = call[k].to /\ call[k].op = "store" /\ call[k].to \in 1 .. ChainRequests
      /\ \A j \in Calls : call'[j] = call[j] \/ call'[j].op = "none"
      /\ UNCHANGED <<profile, asked, assignment>>
  BY AssigningCallShapes, AssigningIdleShape DEF Assigning!StoreCursor, Assigning!End,
    Assigning!TypeOK
<1>2. Assigning!Newest' = Assigning!Newest /\ AssigningAskedInOrder' /\ AssigningNamedOnly'
  BY <1>1 DEF Assigning!Newest, AssigningAskedInOrder, AssigningNamedOnly
<1>3. \A n \in 1 .. ChainRequests : AssigningCovered(n)' <=> AssigningCovered(n)
  BY <1>1 DEF AssigningCovered
<1>4. passed' <= Assigning!Newest /\ \A n \in 1 .. passed' : n \in 1 .. ChainRequests /\ AssigningCovered(n)
  <2>1. \A n \in 1 .. passed' : n \in 1 .. ChainRequests /\ n <= call[k].to
    BY <1>1 DEF Assigning!RequestAssumption
  <2> QED BY <1>1, <2>1 DEF AssigningRunsCover
<1>5. \A n \in 1 .. passed' : AssigningCovered(n)'
  BY <1>1, <1>3, <1>4 DEF Assigning!RequestAssumption
<1>6. AssigningRunsCover'
  BY <1>1, <1>2, <1>3, <1>4, <1>5 DEF AssigningRunsCover
<1> QED BY <1>2, <1>6 DEF AssigningJudged

\* A request comes on the chain.
LEMMA AssigningJudgedRequest ==
    ASSUME Assigning!RequestAssumption, AssigningIInv, NEW n \in 1 .. ChainRequests,
           NEW auditors \in (SUBSET Wallets) \ {{}},
           Assigning!Request(n, auditors)
    PROVE  AssigningJudged'
<1> USE DEF AssigningIInv
<1>1. Assigning!Newest' = Assigning!Newest + 1 /\ asked[n] = {} /\ n = Assigning!Newest'
  BY AssigningNewestStep
<1>2. /\ asked'[n] # {} /\ \A m \in 1 .. ChainRequests : m # n => asked'[m] = asked[m]
      /\ UNCHANGED <<profile, passed, assignment, call>>
  BY DEF Assigning!Request, Assigning!TypeOK
<1>3. AssigningAskedInOrder'
  BY <1>1, <1>2 DEF AssigningAskedInOrder, Assigning!RequestAssumption
<1>4. \A m \in 1 .. ChainRequests : m <= Assigning!Newest => m # n
  BY <1>1 DEF AssigningAskedInOrder
<1>5. \A m \in 1 .. ChainRequests : m <= Assigning!Newest /\ AssigningCovered(m) => AssigningCovered(m)'
  BY <1>2, <1>4 DEF AssigningCovered
<1>6. AssigningNamedOnly'
  BY <1>1, <1>2 DEF AssigningNamedOnly, Assigning!TypeOK
<1>7. Assigning!Newest \in Nat /\ passed \in Nat /\ passed <= Assigning!Newest /\
        Assigning!Newest <= ChainRequests
  BY DEF AssigningAskedInOrder, AssigningRunsCover, Assigning!TypeOK
<1>8. \A m \in 1 .. passed : AssigningCovered(m)'
  BY <1>5, <1>7 DEF AssigningRunsCover, Assigning!RequestAssumption
<1>9. ASSUME NEW k \in Calls, call[k].op \in {"handle", "store"}
      PROVE  /\ call[k].from <= call[k].to /\ call[k].to <= Assigning!Newest'
             /\ \A m \in 1 .. ChainRequests :
                m < call[k].from \/ (call[k].op = "store" /\ m <= call[k].to) => AssigningCovered(m)'
  <2>1. call[k].to \in 1 .. ChainRequests /\ call[k].from \in 1 .. ChainRequests
    BY <1>9, AssigningCallShapes
  <2>2. call[k].from <= call[k].to /\ call[k].to <= Assigning!Newest
    BY <1>9 DEF AssigningRunsCover
  <2>3. \A m \in 1 .. ChainRequests : m <= call[k].to => m <= Assigning!Newest
    BY <1>7, <2>1, <2>2
  <2>4. \A m \in 1 .. ChainRequests : m < call[k].from => m <= Assigning!Newest
    BY <1>7, <2>1, <2>2
  <2> QED BY <1>1, <1>5, <1>7, <1>9, <2>1, <2>2, <2>3, <2>4 DEF AssigningRunsCover
<1>10. AssigningRunsCover'
  BY <1>1, <1>2, <1>7, <1>8, <1>9 DEF AssigningRunsCover
<1> QED BY <1>3, <1>6, <1>10 DEF AssigningJudged
\* Every step keeps the invariant.
LEMMA AssigningStep ==
    ASSUME Assigning!NullAssumption, Assigning!RequestAssumption, Assigning!SeedAssumption,
           AssigningIInv, [Assigning!Next]_(Assigning!vars)
    PROVE  AssigningIInv'
<1>0. Assigning!TypeOK'
  BY AssigningTypeStep
<1> DEFINE Rest == AssigningRegistered /\ AssigningJudged
<1>1. ASSUME NEW k \in Calls, NEW u \in Auditors, NEW w \in Wallets, NEW lower \in BOOLEAN,
             Assigning!CheckAuditor(k, u, w, lower)
      PROVE  Rest'
  <2>1. /\ \A j \in Calls : call'[j] = call[j] \/ call'[j].op = "register"
        /\ UNCHANGED <<profile, asked, passed, assignment>>
    BY <1>1 DEF Assigning!CheckAuditor, Assigning!Start, Assigning!jobVars, AssigningIInv,
      Assigning!TypeOK
  <2> QED BY <1>1, <2>1, AssigningRegisteredCheck, AssigningJudgedKeeps
<1>2. ASSUME NEW k \in Calls, NEW p \in AuditorProfiles, Assigning!InsertAuditor(k, p) PROVE Rest'
  BY <1>2, AssigningRegisteredInsert, AssigningJudgedInsert
<1>3. ASSUME NEW k \in Calls, Assigning!Fire(k) PROVE Rest'
  <2>1. \A j \in Calls : call'[j] = call[j] \/ call'[j].op # "register"
    BY <1>3 DEF Assigning!Fire, Assigning!Start, AssigningIInv, Assigning!TypeOK
  <2> QED BY <1>3, <2>1, AssigningRegisteredKeeps, AssigningJudgedFire DEF Assigning!Fire
<1>4. ASSUME NEW k \in Calls, Assigning!SaveAssignments(k) PROVE Rest'
  <2>1. call'[k].op = "store" /\ \A j \in Calls \ {k} : call'[j] = call[j]
    BY <1>4, AssigningCallShapes DEF Assigning!SaveAssignments, Assigning!Continue, AssigningIInv,
      Assigning!TypeOK, Assigning!RunCall
  <2> QED BY <1>4, <2>1, AssigningRegisteredKeeps, AssigningJudgedSave DEF Assigning!SaveAssignments
<1>5. ASSUME NEW k \in Calls, Assigning!StoreCursor(k) PROVE Rest'
  <2>1. \A j \in Calls : call'[j] = call[j] \/ call'[j].op # "register"
    BY <1>5, AssigningIdleShape DEF Assigning!StoreCursor, Assigning!End, AssigningIInv,
      Assigning!TypeOK
  <2> QED BY <1>5, <2>1, AssigningRegisteredKeeps, AssigningJudgedStore DEF Assigning!StoreCursor
<1>6. ASSUME NEW k \in Calls, Assigning!Abandon(k) PROVE Rest'
  <2>1. /\ \A j \in Calls : call'[j] = call[j] \/ call'[j].op = "none"
        /\ UNCHANGED <<profile, overlapped, asked, passed, assignment>>
    BY <1>6, AssigningIdleShape DEF Assigning!Abandon, Assigning!End, Assigning!jobVars,
      AssigningIInv, Assigning!TypeOK
  <2> QED BY <2>1, AssigningRegisteredKeeps, AssigningJudgedKeeps
<1>7. ASSUME NEW n \in 1 .. ChainRequests, NEW auditors \in (SUBSET Wallets) \ {{}},
             Assigning!Request(n, auditors)
      PROVE  Rest'
  BY <1>7, AssigningRegisteredKeeps, AssigningJudgedRequest DEF Assigning!Request
<1>8. ASSUME UNCHANGED <<profile, asked, passed, assignment, call, overlapped>> PROVE Rest'
  BY <1>8, AssigningRegisteredKeeps, AssigningJudgedKeeps
<1>9. Rest'
  BY <1>1, <1>2, <1>3, <1>4, <1>5, <1>6, <1>7, <1>8 DEF Assigning!Next, Assigning!SetVerified,
    Assigning!vars
<1> QED BY <1>0, <1>9 DEF AssigningIInv, AssigningRegistered, AssigningJudged

\* The invariant implies the promise.
LEMMA AssigningAssigned == ASSUME AssigningIInv PROVE Assigning!AuditorsAssigned
<1>1. Assigning!OneProfile
  BY AssigningCounts, AtMostOne DEF AssigningIInv, AssigningOneRow, Assigning!OneProfile
<1>2. Assigning!AssignedAsRequested
  BY DEF AssigningIInv, AssigningRunsCover, AssigningNamedOnly, AssigningCovered,
    Assigning!AssignedAsRequested
<1> QED BY <1>1, <1>2 DEF Assigning!AuditorsAssigned
-----------------------------------------------------------------------------
\* In its scene a step of the services is one of Assignments.
LEMMA AssigningSteps ==
    ASSUME scene = "auditors", [Next]_vars
    PROVE  scene' = "auditors" /\ [Assigning!Next]_(Assigning!vars)
<1>1. CASE Next
  BY <1>1 DEF Next
<1>2. CASE UNCHANGED vars
  BY <1>2 DEF vars, vAssigning, Assigning!vars
<1> QED BY <1>1, <1>2

AssigningHolds == scene = "auditors" => AssigningIInv

\* The invariant of the scene holds of every behaviour of the services.
LEMMA AssigningInvariant == Spec => []AssigningHolds
<1>0. Assigning!NullAssumption /\ Assigning!RequestAssumption /\ Assigning!SeedAssumption
  BY ServicesAssumption DEF ServicesAssumption
<1>1. Init => AssigningHolds
  BY <1>0, AssigningInitial DEF Init, AssigningHolds
<1>2. AssigningHolds /\ [Next]_vars => AssigningHolds'
  <2> SUFFICES ASSUME AssigningHolds, [Next]_vars, scene' = "auditors" PROVE AssigningIInv'
    BY DEF AssigningHolds
  <2>1. scene = "auditors"
    BY DEF Next, vars
  <2>2. AssigningIInv /\ [Assigning!Next]_(Assigning!vars)
    BY <2>1, AssigningSteps DEF AssigningHolds
  <2> QED BY <1>0, <2>2, AssigningStep
<1> QED BY <1>1, <1>2, PTL DEF Spec
-----------------------------------------------------------------------------
(***************************************************************************)
(* FileStorage: uploads (FileStorageService).                              *)
(***************************************************************************)
StoringMoving(k) == call[k].op \in {"local", "undo"}
StoringHeld(k) == call[k].todo \cup call[k].done

StoringOneStorage ==
    /\ \A f \in Files : place[f] = "public" => storage = "LOCAL"
    /\ \A f \in Files : place[f] \in {"bucket", "private bucket"} => storage = "R2"
    /\ \A k \in Calls : /\ StoringMoving(k) => storage = "LOCAL"
                        /\ call[k].op = "r2" => storage = "R2"

\* What the files of a request in flight have gone through.
StoringMovesSeen ==
    \A k \in Calls : StoringMoving(k) =>
        /\ \A f \in call[k].todo : answer[f] = Null /\ place[f] = "none" /\ f \in temp
        /\ \A f \in call[k].done : answer[f] = Null /\ place[f] = "public"
        /\ call[k].op = "undo" => call[k].file \in call[k].todo
StoringSendsSeen ==
    \A k \in Calls : call[k].op = "r2" => \A f \in call[k].done : place[f] # "none"

StoringMovesApart ==
    \A j, k \in Calls : StoringMoving(j) /\ StoringMoving(k) /\ j # k =>
      StoringHeld(j) \cap StoringHeld(k) = {}

StoringIInv == Storing!TypeOK /\ StoringOneStorage /\ StoringMovesSeen /\ StoringSendsSeen /\
    StoringMovesApart /\ Storing!UploadsAccounted
-----------------------------------------------------------------------------
\* What the fields of a call are, by its op.
LEMMA StoringShapes ==
    ASSUME Storing!TypeOK, NEW k \in Calls
    PROVE  /\ call[k].op \in {"local", "r2", "undo", "none"}
           /\ call[k].op \in {"local", "r2"} => call[k] \in Storing!UploadCall
           /\ call[k].op = "undo" => call[k] \in Storing!UndoCall
           /\ call[k].op = "none" <=> call[k] = Storing!Idle
           /\ call[k] # Storing!Idle => call[k].todo \subseteq Files /\ call[k].done \subseteq Files
<1>1. call[k] \in Storing!UploadCall \cup Storing!UndoCall \cup [op : {"none"}]
  BY DEF Storing!TypeOK, Storing!CallRecords
<1>2. CASE call[k] \in Storing!UploadCall
  <2>1. call[k].op \in {"local", "r2"} /\ call[k].todo \subseteq Files /\ call[k].done \subseteq Files
    BY <1>2 DEF Storing!UploadCall
  <2>2. call[k] # Storing!Idle
    BY <2>1 DEF Storing!Idle
  <2> QED BY <1>2, <2>1, <2>2
<1>3. CASE call[k] \in Storing!UndoCall
  <2>1. call[k].op = "undo" /\ call[k].todo \subseteq Files /\ call[k].done \subseteq Files
    BY <1>3 DEF Storing!UndoCall
  <2>2. call[k] # Storing!Idle
    BY <2>1 DEF Storing!Idle
  <2> QED BY <1>3, <2>1, <2>2
<1>4. CASE call[k] \in [op : {"none"}]
  BY <1>4 DEF Storing!Idle
<1> QED BY <1>1, <1>2, <1>3, <1>4

\* The record of a handler that is not at work.
LEMMA StoringIdleShape == Storing!Idle \in Storing!CallRecords /\ Storing!Idle.op = "none"
  BY DEF Storing!Idle, Storing!CallRecords

\* The initial states satisfy the invariant.
LEMMA StoringInitial == ASSUME Storing!NullAssumption PROVE Storing!Init => StoringIInv
<1> SUFFICES ASSUME Storing!Init PROVE StoringIInv
  OBVIOUS
<1>1. \A k \in Calls : call[k] = Storing!Idle
  BY DEF Storing!Init
<1>2. Storing!TypeOK
  BY StoringIdleShape DEF Storing!Init, Storing!TypeOK, Storing!Whereabouts
<1>3. StoringOneStorage /\ StoringMovesSeen /\ StoringSendsSeen /\ StoringMovesApart
  BY <1>1, StoringIdleShape DEF Storing!Init, StoringOneStorage, StoringMovesSeen, StoringSendsSeen,
    StoringMovesApart, StoringMoving
<1>4. Storing!UploadsAccounted
  BY DEF Storing!Init, Storing!UploadsAccounted, Storing!NullAssumption, Storing!Answers
<1> QED BY <1>2, <1>3, <1>4 DEF StoringIInv

\* A step of one request, which leaves the others' files alone.
LEMMA StoringOthers ==
    ASSUME StoringIInv, NEW k \in Calls, NEW record, record \in Storing!CallRecords,
           call' = [call EXCEPT ![k] = record]
    PROVE  /\ call' \in [Calls -> Storing!CallRecords]
           /\ call'[k] = record
           /\ \A j \in Calls \ {k} : call'[j] = call[j]
  BY DEF StoringIInv, Storing!TypeOK

\* The steps of an upload to the disk.
LEMMA StoringLocalStep ==
    ASSUME Storing!NullAssumption, StoringIInv, NEW k \in Calls,
           \/ \E files \in SUBSET Files : Storing!Upload(k, files)
           \/ \E f \in Files : Storing!MoveFile(k, f) \/ Storing!FailFile(k, f)
           \/ Storing!AnswerLocal(k) \/ Storing!UndoUpload(k)
    PROVE  StoringIInv'
<1>0. Storing!TypeOK /\ StoringOneStorage /\ StoringMovesSeen /\ StoringSendsSeen /\
        StoringMovesApart /\ Storing!UploadsAccounted
  BY DEF StoringIInv
<1>1. ASSUME NEW files \in SUBSET Files, Storing!Upload(k, files) PROVE StoringIInv'
  <2>1. PICK op \in {"local", "r2"} : op = IF storage = "R2" THEN "r2" ELSE "local"
    OBVIOUS
  <2>2. PICK record : record = [op |-> op, todo |-> files, done |-> {}]
    OBVIOUS
  <2>3. record \in Storing!UploadCall /\ record \in Storing!CallRecords
        /\ record.op = op /\ record.todo = files /\ record.done = {}
    BY <2>2 DEF Storing!UploadCall, Storing!CallRecords
  <2>4. /\ call[k] = Storing!Idle /\ call' = [call EXCEPT ![k] = record] /\ temp' = temp \cup files
        /\ \A f \in files : answer[f] = Null /\ f \notin temp /\ place[f] = "none" /\ f \notin kept
        /\ UNCHANGED <<storage, place, answer, kept>>
    BY <1>1, <2>1, <2>2 DEF Storing!Upload, Storing!Continue
  <2>5. call' \in [Calls -> Storing!CallRecords] /\ call'[k] = record /\
          \A j \in Calls \ {k} : call'[j] = call[j]
    BY <2>3, <2>4, StoringOthers
  <2>6. Storing!TypeOK'
    BY <1>0, <2>4, <2>5 DEF Storing!TypeOK
  <2>7. op = "local" => storage = "LOCAL"
    BY <1>0, <2>1 DEF Storing!TypeOK, Storing!Storages
  <2>8. StoringOneStorage'
    BY <1>0, <2>1, <2>3, <2>4, <2>5, <2>7 DEF StoringOneStorage, StoringMoving
  <2>9. StoringMovesSeen'
    BY <1>0, <2>1, <2>3, <2>4, <2>5 DEF StoringMovesSeen, StoringMoving
  <2>10. StoringSendsSeen'
    BY <1>0, <2>1, <2>3, <2>4, <2>5 DEF StoringSendsSeen
  <2>11. StoringMovesApart'
    <3>1. \A j \in Calls : StoringMoving(j) => StoringHeld(j) \cap files = {}
      BY <1>0, <2>4 DEF StoringMovesSeen, StoringHeld
    <3>2. StoringHeld(k)' = files /\ \A j \in Calls \ {k} : StoringHeld(j)' = StoringHeld(j) /\
            (StoringMoving(j)' <=> StoringMoving(j))
      BY <2>3, <2>5 DEF StoringHeld, StoringMoving
    <3> QED BY <1>0, <3>1, <3>2 DEF StoringMovesApart
  <2>12. Storing!UploadsAccounted'
    BY <1>0, <2>4 DEF Storing!UploadsAccounted, Storing!ServeFile
  <2> QED BY <2>6, <2>8, <2>9, <2>10, <2>11, <2>12 DEF StoringIInv
<1>2. ASSUME NEW f \in Files, Storing!MoveFile(k, f) PROVE StoringIInv'
  <2>1. call[k].op = "local" /\ f \in call[k].todo /\ call[k] \in Storing!UploadCall /\ StoringMoving(k)
    BY <1>0, <1>2, StoringShapes DEF Storing!MoveFile, StoringMoving
  <2>2. PICK record : record = [call[k] EXCEPT !.todo = @ \ {f}, !.done = @ \cup {f}]
    OBVIOUS
  <2>3. record \in Storing!UploadCall /\ record.op = "local" /\ record.todo = call[k].todo \ {f}
        /\ record.done = call[k].done \cup {f}
    BY <2>1, <2>2 DEF Storing!UploadCall
  <2>4. record \in Storing!CallRecords
    BY <2>3 DEF Storing!CallRecords
  <2>5. /\ call' = [call EXCEPT ![k] = record] /\ temp' = temp \ {f} /\
             place' = [place EXCEPT ![f] = "public"]
        /\ UNCHANGED <<storage, answer, kept>>
    BY <1>2, <2>2 DEF Storing!MoveFile, Storing!Continue, Storing!Put
  <2>6. call' \in [Calls -> Storing!CallRecords] /\ call'[k] = record /\
          \A j \in Calls \ {k} : call'[j] = call[j]
    BY <2>4, <2>5, StoringOthers
  <2>7. \A g \in Files : place'[g] = IF g = f THEN "public" ELSE place[g]
    BY <1>0, <2>5 DEF Storing!TypeOK
  <2>8. Storing!TypeOK'
    BY <1>0, <2>5, <2>6 DEF Storing!TypeOK, Storing!Whereabouts
  <2>9. storage = "LOCAL" /\ answer[f] = Null /\ place[f] = "none"
    BY <1>0, <2>1 DEF StoringOneStorage, StoringMovesSeen
  <2>10. \A j \in Calls \ {k} : StoringMoving(j) => f \notin StoringHeld(j)
    BY <1>0, <2>1 DEF StoringMovesApart, StoringHeld
  <2>11. StoringOneStorage'
    <3>1. \A j \in Calls : /\ StoringMoving(j)' <=> StoringMoving(j)
                           /\ call'[j].op = "r2" => call[j].op = "r2"
      BY <2>1, <2>3, <2>6 DEF StoringMoving
    <3>2. \A g \in Files : place'[g] \in {"bucket", "private bucket"} => place[g] = place'[g]
      BY <2>7
    <3> QED BY <1>0, <2>5, <2>9, <3>1, <3>2 DEF StoringOneStorage
  <2>12. \A j \in Calls : call'[j].op = "r2" => call[j] = call'[j] /\ storage = "R2"
    BY <1>0, <2>3, <2>6 DEF StoringOneStorage
  <2>13. StoringSendsSeen'
    BY <2>9, <2>12 DEF StoringSendsSeen
  <2>14. \A j \in Calls : StoringMoving(j) => StoringHeld(j) \subseteq Files
    BY <1>0, StoringShapes, StoringIdleShape DEF StoringMoving, StoringHeld
  <2>15. StoringMovesSeen'
    <3>1. ASSUME NEW j \in Calls \ {k}, StoringMoving(j)'
          PROVE  /\ \A g \in call'[j].todo : answer'[g] = Null /\ place'[g] = "none" /\ g \in temp'
                 /\ \A g \in call'[j].done : answer'[g] = Null /\ place'[g] = "public"
                 /\ call'[j].op = "undo" => call'[j].file \in call'[j].todo
      <4>1. StoringMoving(j) /\ call'[j] = call[j] /\ f \notin StoringHeld(j) /\
              StoringHeld(j) \subseteq Files
        BY <2>6, <2>10, <2>14, <3>1 DEF StoringMoving
      <4> QED BY <1>0, <2>5, <2>7, <4>1 DEF StoringMovesSeen, StoringHeld
    <3>2. /\ \A g \in call'[k].todo : answer'[g] = Null /\ place'[g] = "none" /\ g \in temp'
          /\ \A g \in call'[k].done : answer'[g] = Null /\ place'[g] = "public"
          /\ call'[k].op = "undo" => call'[k].file \in call'[k].todo
      BY <1>0, <2>1, <2>3, <2>5, <2>6, <2>7, <2>9, <2>14 DEF StoringMovesSeen, StoringHeld
    <3> QED BY <3>1, <3>2 DEF StoringMovesSeen
  <2>16. StoringMovesApart'
    <3>1. StoringHeld(k)' \subseteq StoringHeld(k) /\
            \A j \in Calls \ {k} : StoringHeld(j)' = StoringHeld(j) /\
              (StoringMoving(j)' <=> StoringMoving(j))
      BY <2>1, <2>3, <2>6 DEF StoringHeld, StoringMoving
    <3> QED BY <1>0, <2>1, <3>1 DEF StoringMovesApart
  <2>17. Storing!UploadsAccounted'
    BY <1>0, <2>5, <2>7, <2>9 DEF Storing!UploadsAccounted, Storing!ServeFile,
      Storing!NullAssumption, Storing!Answers
  <2> QED BY <2>8, <2>11, <2>13, <2>15, <2>16, <2>17 DEF StoringIInv
<1>3. ASSUME NEW f \in Files, Storing!FailFile(k, f) PROVE StoringIInv'
  <2>1. call[k].op = "local" /\ f \in call[k].todo /\ call[k] \in Storing!UploadCall /\ StoringMoving(k)
    BY <1>0, <1>3, StoringShapes DEF Storing!FailFile, StoringMoving
  <2>2. PICK record : record = [op |-> "undo", todo |-> call[k].todo, done |-> call[k].done, file |-> f]
    OBVIOUS
  <2>3. record \in Storing!UndoCall /\ record.op = "undo" /\ record.todo = call[k].todo /\
          record.done = call[k].done
        /\ record.file = f
    BY <2>1, <2>2 DEF Storing!UploadCall, Storing!UndoCall
  <2>4. record \in Storing!CallRecords
    BY <2>3 DEF Storing!CallRecords
  <2>5. call' = [call EXCEPT ![k] = record] /\ UNCHANGED <<storage, temp, place, answer, kept>>
    BY <1>3, <2>2 DEF Storing!FailFile, Storing!Continue
  <2>6. call' \in [Calls -> Storing!CallRecords] /\ call'[k] = record /\
          \A j \in Calls \ {k} : call'[j] = call[j]
    BY <2>4, <2>5, StoringOthers
  <2>7. \A j \in Calls : /\ StoringHeld(j)' = StoringHeld(j) /\ (StoringMoving(j)' <=> StoringMoving(j))
                         /\ call'[j].todo = call[j].todo /\ call'[j].done = call[j].done
                         /\ (call'[j].op = "r2" => call[j].op = "r2")
    BY <2>1, <2>3, <2>6 DEF StoringHeld, StoringMoving
  <2>8. Storing!TypeOK'
    BY <1>0, <2>5, <2>6 DEF Storing!TypeOK
  <2>9. StoringOneStorage' /\ StoringSendsSeen' /\ StoringMovesApart' /\ Storing!UploadsAccounted'
    BY <1>0, <2>5, <2>7 DEF StoringOneStorage, StoringSendsSeen, StoringMovesApart,
      Storing!UploadsAccounted, Storing!ServeFile
  <2>10. \A j \in Calls : call'[j].op = "undo" => call'[j].file \in call'[j].todo
    BY <1>0, <2>1, <2>3, <2>6 DEF StoringMovesSeen, StoringMoving
  <2>11. StoringMovesSeen'
    BY <1>0, <2>5, <2>7, <2>10 DEF StoringMovesSeen
  <2> QED BY <2>8, <2>9, <2>11 DEF StoringIInv
<1>4. CASE Storing!AnswerLocal(k)
  <2>1. call[k].op = "local" /\ call[k].todo = {} /\ call[k] \in Storing!UploadCall /\ StoringMoving(k)
        /\ call[k].done \subseteq Files
    BY <1>0, <1>4, StoringShapes, StoringIdleShape DEF Storing!AnswerLocal, StoringMoving
  <2>2. /\ call' = [call EXCEPT ![k] = Storing!Idle]
        /\ answer' = [f \in Files |-> IF f \in call[k].done THEN "url" ELSE answer[f]]
        /\ UNCHANGED <<storage, temp, place, kept>>
    BY <1>4 DEF Storing!AnswerLocal, Storing!End, Storing!Continue, Storing!Tell
  <2>3. call' \in [Calls -> Storing!CallRecords] /\ call'[k] = Storing!Idle /\
          \A j \in Calls \ {k} : call'[j] = call[j]
    BY <2>2, StoringOthers, StoringIdleShape
  <2>4. ~ StoringMoving(k)' /\ call'[k].op # "r2"
    BY <2>3, StoringIdleShape DEF StoringMoving
  <2>5. Storing!TypeOK'
    BY <1>0, <2>2, <2>3 DEF Storing!TypeOK, Storing!Answers
  <2>6. \A j \in Calls \ {k} : /\ (StoringMoving(j)' <=> StoringMoving(j)) /\ StoringHeld(j)' = StoringHeld(j)
                               /\ StoringMoving(j) => StoringHeld(j) \cap call[k].done = {} /\
                                    StoringHeld(j) \subseteq Files
    BY <1>0, <2>1, <2>3, StoringShapes, StoringIdleShape DEF StoringMovesApart, StoringHeld,
      StoringMoving
  <2>7. StoringOneStorage' /\ StoringSendsSeen' /\ StoringMovesApart'
    BY <1>0, <2>2, <2>3, <2>4, <2>6 DEF StoringOneStorage, StoringSendsSeen, StoringMovesApart
  <2>8. StoringMovesSeen'
    BY <1>0, <2>2, <2>3, <2>4, <2>6 DEF StoringMovesSeen, StoringHeld
  <2>9. \A f \in call[k].done : place[f] = "public" /\ storage = "LOCAL"
    BY <1>0, <2>1 DEF StoringMovesSeen, StoringOneStorage
  <2>10. Storing!UploadsAccounted'
    BY <1>0, <2>2, <2>9 DEF Storing!UploadsAccounted, Storing!ServeFile
  <2> QED BY <2>5, <2>7, <2>8, <2>10 DEF StoringIInv
<1>5. CASE Storing!UndoUpload(k)
  <2>1. call[k].op = "undo" /\ call[k] \in Storing!UndoCall /\ StoringMoving(k) /\ storage = "LOCAL"
        /\ call[k].todo \subseteq Files /\ call[k].done \subseteq Files /\ call[k].file \in call[k].todo
    BY <1>0, <1>5, StoringShapes, StoringIdleShape DEF Storing!UndoUpload, StoringMoving,
      StoringOneStorage, StoringMovesSeen
  <2>2. PICK stays \in SUBSET call[k].done :
           /\ place' = [f \in Files |-> IF f \in call[k].done \ stays THEN "none" ELSE place[f]]
           /\ kept' = kept \cup stays
    BY <1>5 DEF Storing!UndoUpload, Storing!RemoveMoved
  <2>3. /\ call' = [call EXCEPT ![k] = Storing!Idle]
        /\ answer' = [f \in Files |-> IF f \in StoringHeld(k) THEN "failed" ELSE answer[f]]
        /\ temp' \in {temp, temp \ {call[k].file}} /\ UNCHANGED storage
    BY <1>5, <2>1 DEF Storing!UndoUpload, Storing!End, Storing!Continue, Storing!Tell, StoringHeld
  <2>4. call' \in [Calls -> Storing!CallRecords] /\ call'[k] = Storing!Idle /\
          \A j \in Calls \ {k} : call'[j] = call[j]
    BY <2>3, StoringOthers, StoringIdleShape
  <2>5. ~ StoringMoving(k)' /\ call'[k].op # "r2"
    BY <2>4, StoringIdleShape DEF StoringMoving
  <2>6. Storing!TypeOK'
    <3>1. answer' \in [Files -> Storing!Answers \cup {Null}]
      BY <1>0, <2>3 DEF Storing!TypeOK, Storing!Answers
    <3>2. place' \in [Files -> Storing!Whereabouts]
      BY <1>0, <2>2 DEF Storing!TypeOK, Storing!Whereabouts
    <3> QED BY <1>0, <2>1, <2>2, <2>3, <2>4, <3>1, <3>2 DEF Storing!TypeOK
  <2>7. \A j \in Calls \ {k} : /\ (StoringMoving(j)' <=> StoringMoving(j)) /\ StoringHeld(j)' = StoringHeld(j)
                               /\ StoringMoving(j) => StoringHeld(j) \cap StoringHeld(k) = {} /\
                                    StoringHeld(j) \subseteq Files
    BY <1>0, <2>1, <2>4, StoringShapes, StoringIdleShape DEF StoringMovesApart, StoringHeld,
      StoringMoving
  <2>8. \A f \in Files : f \notin StoringHeld(k) => place'[f] = place[f] /\
          answer'[f] = answer[f] /\ (f \in temp => f \in temp')
    BY <2>1, <2>2, <2>3 DEF StoringHeld
  <2>9. \A f \in Files : f \in StoringHeld(k) => answer'[f] = "failed" /\ (place'[f] = "none" \/ f \in kept')
    BY <1>0, <2>1, <2>2, <2>3 DEF StoringHeld, StoringMovesSeen
  <2>10. \A f \in Files : place'[f] = place[f] \/ place'[f] = "none"
    BY <2>2
  <2>11. StoringOneStorage' /\ StoringMovesApart'
    BY <1>0, <2>3, <2>4, <2>5, <2>7, <2>10 DEF StoringOneStorage, StoringMovesApart
  <2>12. StoringSendsSeen'
    BY <1>0, <2>1, <2>4, <2>5 DEF StoringSendsSeen, StoringOneStorage
  <2>13. StoringMovesSeen'
    <3> SUFFICES ASSUME NEW j \in Calls \ {k}, StoringMoving(j)
                 PROVE  /\ \A g \in call[j].todo : answer'[g] = Null /\ place'[g] = "none" /\ g \in temp'
                        /\ \A g \in call[j].done : answer'[g] = Null /\ place'[g] = "public"
                        /\ call[j].op = "undo" => call[j].file \in call[j].todo
      BY <2>4, <2>5, <2>7 DEF StoringMovesSeen
    <3>1. \A g \in StoringHeld(j) : answer'[g] = answer[g] /\ place'[g] = place[g] /\
            (g \in temp => g \in temp')
      BY <2>7, <2>8
    <3> QED BY <1>0, <3>1 DEF StoringMovesSeen, StoringHeld
  <2>14. Storing!UploadsAccounted'
    BY <1>0, <2>2, <2>3, <2>8, <2>9 DEF Storing!UploadsAccounted, Storing!ServeFile
  <2> QED BY <2>6, <2>11, <2>12, <2>13, <2>14 DEF StoringIInv
<1> QED BY <1>1, <1>2, <1>3, <1>4, <1>5

\* The steps of an upload to the bucket.
LEMMA StoringRemoteStep ==
    ASSUME Storing!NullAssumption, StoringIInv, NEW k \in Calls, NEW f \in Files,
           Storing!PutObject(k, f) \/ Storing!PutFails(k, f)
    PROVE  StoringIInv'
<1>0. Storing!TypeOK /\ StoringOneStorage /\ StoringMovesSeen /\ StoringSendsSeen /\
        StoringMovesApart /\ Storing!UploadsAccounted
  BY DEF StoringIInv
<1>1. call[k].op = "r2" /\ f \in call[k].todo /\ call[k] \in Storing!UploadCall /\ storage = "R2"
      /\ call[k].todo \subseteq Files /\ call[k].done \subseteq Files
  BY <1>0, StoringShapes, StoringIdleShape DEF Storing!PutObject, Storing!PutFails,
    StoringOneStorage
<1>2. \A j \in Calls : ~ StoringMoving(j)
  BY <1>0, <1>1 DEF StoringOneStorage
<1>3. UNCHANGED <<storage, temp, kept>>
  BY DEF Storing!PutObject, Storing!PutFails
<1>4. \A g \in Files : place[g] # "public"
  BY <1>0, <1>1 DEF StoringOneStorage
<1>5. CASE Storing!PutObject(k, f)
  <2>1. PICK rest : rest = [call[k] EXCEPT !.todo = @ \ {f}, !.done = @ \cup {f}]
    OBVIOUS
  <2>2. rest \in Storing!UploadCall /\ rest.op = "r2" /\ rest.done = call[k].done \cup {f} /\
          rest.todo = call[k].todo \ {f}
    BY <1>1, <2>1 DEF Storing!UploadCall
  <2>3. PICK record \in {rest, Storing!Idle} : call' = [call EXCEPT ![k] = record]
    BY <1>5, <2>1 DEF Storing!PutObject, Storing!Continue
  <2>4. record \in Storing!CallRecords /\ record.op \in {"r2", "none"} /\
          (record.op = "r2" => record.done = call[k].done \cup {f})
    BY <2>2, <2>3, StoringIdleShape DEF Storing!CallRecords
  <2>5. call' \in [Calls -> Storing!CallRecords] /\ call'[k] = record /\
          \A j \in Calls \ {k} : call'[j] = call[j]
    BY <2>3, <2>4, StoringOthers
  <2>6. place' = [place EXCEPT ![f] = "private bucket"]
    BY <1>5 DEF Storing!PutObject, Storing!Put
  <2>7. \A g \in Files : place'[g] = IF g = f THEN "private bucket" ELSE place[g]
    BY <1>0, <2>6 DEF Storing!TypeOK
  <2>8. answer' = answer \/
          answer' = [g \in Files |-> IF g \in call[k].done \cup {f} THEN "url" ELSE answer[g]]
    BY <1>5, <2>1, <2>2 DEF Storing!PutObject, Storing!Tell
  <2>9. answer' \in [Files -> Storing!Answers \cup {Null}]
    BY <1>0, <2>8 DEF Storing!TypeOK, Storing!Answers
  <2>10. Storing!TypeOK'
    BY <1>0, <1>3, <2>5, <2>6, <2>9 DEF Storing!TypeOK, Storing!Whereabouts
  <2>11. \A j \in Calls : ~ StoringMoving(j)'
    BY <1>2, <2>4, <2>5 DEF StoringMoving
  <2>12. StoringOneStorage' /\ StoringMovesSeen' /\ StoringMovesApart'
    BY <1>1, <1>3, <1>4, <2>7, <2>11 DEF StoringOneStorage, StoringMovesSeen, StoringMovesApart
  <2>13. \A g \in Files : g \in call[k].done \cup {f} => place'[g] # "none"
    BY <1>0, <1>1, <2>7 DEF StoringSendsSeen
  <2>14. \A g \in Files : place[g] # "none" => place'[g] # "none"
    BY <2>7
  <2>15. \A j \in Calls \ {k} : call[j].op = "r2" => call[j].done \subseteq Files
    BY <1>0, StoringShapes, StoringIdleShape
  <2>16. StoringSendsSeen'
    BY <1>0, <1>1, <2>4, <2>5, <2>13, <2>14, <2>15 DEF StoringSendsSeen
  <2>17. Storing!UploadsAccounted'
    BY <1>0, <1>1, <1>3, <1>4, <2>7, <2>8, <2>13, <2>14 DEF Storing!UploadsAccounted,
      Storing!ServeFile
  <2> QED BY <2>10, <2>12, <2>16, <2>17 DEF StoringIInv
<1>6. CASE Storing!PutFails(k, f)
  <2>1. PICK rest : rest = [call[k] EXCEPT !.todo = @ \ {f}]
    OBVIOUS
  <2>2. rest \in Storing!UploadCall /\ rest.op = "r2" /\ rest.done = call[k].done
    BY <1>1, <2>1 DEF Storing!UploadCall
  <2>3. PICK record \in {rest, Storing!Idle} : call' = [call EXCEPT ![k] = record]
    BY <1>6, <2>1 DEF Storing!PutFails, Storing!Continue
  <2>4. record \in Storing!CallRecords /\ record.op \in {"r2", "none"} /\
          (record.op = "r2" => record.done = call[k].done)
    BY <2>2, <2>3, StoringIdleShape DEF Storing!CallRecords
  <2>5. call' \in [Calls -> Storing!CallRecords] /\ call'[k] = record /\
          \A j \in Calls \ {k} : call'[j] = call[j]
    BY <2>3, <2>4, StoringOthers
  <2>6. place' = place /\ \A g \in Files : answer'[g] \in {"failed", answer[g]}
    BY <1>6 DEF Storing!PutFails, Storing!Tell
  <2>7. answer' \in [Files -> Storing!Answers \cup {Null}]
    BY <1>0, <1>6 DEF Storing!PutFails, Storing!Tell, Storing!TypeOK, Storing!Answers
  <2>8. Storing!TypeOK'
    BY <1>0, <1>3, <2>5, <2>6, <2>7 DEF Storing!TypeOK
  <2>9. \A j \in Calls : ~ StoringMoving(j)'
    BY <1>2, <2>4, <2>5 DEF StoringMoving
  <2>10. StoringOneStorage' /\ StoringMovesSeen' /\ StoringMovesApart'
    BY <1>1, <1>3, <1>4, <2>6, <2>9 DEF StoringOneStorage, StoringMovesSeen, StoringMovesApart
  <2>11. StoringSendsSeen'
    BY <1>0, <1>1, <2>4, <2>5, <2>6 DEF StoringSendsSeen
  <2>12. Storing!UploadsAccounted'
    BY <1>0, <1>1, <1>3, <2>6 DEF Storing!UploadsAccounted, Storing!ServeFile
  <2> QED BY <2>8, <2>10, <2>11, <2>12 DEF StoringIInv
<1> QED BY <1>5, <1>6

\* Signed uploads, deletions and restarts.
LEMMA StoringOtherStep ==
    ASSUME Storing!NullAssumption, StoringIInv,
           \/ \E f \in Files : Storing!PutSigned(f) \/ Storing!DeleteByUrls(f)
           \/ Storing!Restart \/ UNCHANGED Storing!vars
    PROVE  StoringIInv'
<1>0. Storing!TypeOK /\ StoringOneStorage /\ StoringMovesSeen /\ StoringSendsSeen /\
        StoringMovesApart /\ Storing!UploadsAccounted
  BY DEF StoringIInv
<1>1. ASSUME NEW f \in Files, Storing!PutSigned(f) PROVE StoringIInv'
  <2>1. /\ storage = "R2" /\ answer[f] = Null /\ place' = [place EXCEPT ![f] = "bucket"]
        /\ UNCHANGED <<storage, temp, call, answer, kept>>
    BY <1>1 DEF Storing!PutSigned, Storing!Put
  <2>2. \A g \in Files : place'[g] = IF g = f THEN "bucket" ELSE place[g]
    BY <1>0, <2>1 DEF Storing!TypeOK
  <2>3. \A j \in Calls : ~ StoringMoving(j) /\ ~ StoringMoving(j)'
    BY <1>0, <2>1 DEF StoringOneStorage, StoringMoving
  <2>4. Storing!TypeOK'
    BY <1>0, <2>1 DEF Storing!TypeOK, Storing!Whereabouts
  <2>5. StoringOneStorage' /\ StoringMovesSeen' /\ StoringMovesApart'
    BY <1>0, <2>1, <2>2, <2>3 DEF StoringOneStorage, StoringMovesSeen, StoringMovesApart
  <2>6. \A j \in Calls : call[j].op = "r2" => call[j].done \subseteq Files
    BY <1>0, StoringShapes, StoringIdleShape
  <2>7. StoringSendsSeen'
    BY <1>0, <2>1, <2>2, <2>6 DEF StoringSendsSeen
  <2>8. Storing!UploadsAccounted'
    BY <1>0, <2>1, <2>2 DEF Storing!UploadsAccounted, Storing!ServeFile, Storing!NullAssumption,
      Storing!Answers
  <2> QED BY <2>4, <2>5, <2>7, <2>8 DEF StoringIInv
<1>2. ASSUME NEW f \in Files, Storing!DeleteByUrls(f) PROVE StoringIInv'
  <2>1. /\ storage = "LOCAL" /\ answer[f] = "url" /\ place' = [place EXCEPT ![f] = "none"]
        /\ answer' = [answer EXCEPT ![f] = "deleted"]
        /\ UNCHANGED <<storage, temp, call, kept>>
    BY <1>2 DEF Storing!DeleteByUrls, Storing!Put
  <2>2. \A g \in Files : /\ place'[g] = IF g = f THEN "none" ELSE place[g]
                         /\ answer'[g] = IF g = f THEN "deleted" ELSE answer[g]
    BY <1>0, <2>1 DEF Storing!TypeOK
  <2>3. Storing!TypeOK'
    BY <1>0, <2>1 DEF Storing!TypeOK, Storing!Whereabouts, Storing!Answers
  <2>4. StoringOneStorage' /\ StoringMovesApart'
    <3>1. \A j \in Calls : (StoringMoving(j)' <=> StoringMoving(j)) /\ StoringHeld(j)' = StoringHeld(j)
      BY <2>1 DEF StoringMoving, StoringHeld
    <3>2. \A g \in Files : place'[g] \in {"bucket", "private bucket"} => place[g] = place'[g]
      BY <2>2
    <3> QED BY <1>0, <2>1, <3>1, <3>2 DEF StoringOneStorage, StoringMovesApart
  <2>5. \A j \in Calls : StoringMoving(j) => f \notin StoringHeld(j) /\ StoringHeld(j) \subseteq Files
    BY <1>0, <2>1, StoringShapes, StoringIdleShape DEF StoringMovesSeen, StoringHeld, StoringMoving,
      Storing!NullAssumption, Storing!Answers
  <2>6. StoringMovesSeen'
    BY <1>0, <2>1, <2>2, <2>5 DEF StoringMovesSeen, StoringHeld, StoringMoving
  <2>7. StoringSendsSeen'
    BY <1>0, <2>1 DEF StoringSendsSeen, StoringOneStorage
  <2>8. Storing!UploadsAccounted'
    BY <1>0, <2>1, <2>2 DEF Storing!UploadsAccounted, Storing!ServeFile
  <2> QED BY <2>3, <2>4, <2>6, <2>7, <2>8 DEF StoringIInv
<1>3. CASE Storing!Restart
  <2>1. call' = [k \in Calls |-> Storing!Idle] /\ UNCHANGED <<storage, temp, place, answer>>
    BY <1>3 DEF Storing!Restart
  <2>2. kept' = kept \cup Storing!Unfinished
    BY <1>3 DEF Storing!Restart
  <2>3. \A k \in Calls : call[k] # Storing!Idle => call[k].todo \cup call[k].done \subseteq Files
    BY <1>0, StoringShapes
  <2>4. Storing!Unfinished \subseteq Files
    BY <2>3 DEF Storing!Unfinished
  <2>5. kept' \subseteq Files /\ kept \subseteq kept'
    BY <1>0, <2>2, <2>4 DEF Storing!TypeOK
  <2>6. \A k \in Calls : call'[k] = Storing!Idle /\ ~ StoringMoving(k)' /\ call'[k].op = "none"
    BY <2>1, StoringIdleShape DEF StoringMoving
  <2>7. Storing!TypeOK'
    BY <1>0, <2>1, <2>5, StoringIdleShape DEF Storing!TypeOK
  <2>8. StoringOneStorage' /\ StoringMovesSeen' /\ StoringSendsSeen' /\ StoringMovesApart'
    BY <1>0, <2>1, <2>6 DEF StoringOneStorage, StoringMovesSeen, StoringSendsSeen, StoringMovesApart
  <2>9. Storing!UploadsAccounted'
    BY <1>0, <2>1, <2>5 DEF Storing!UploadsAccounted, Storing!ServeFile
  <2> QED BY <2>7, <2>8, <2>9 DEF StoringIInv
<1>4. CASE UNCHANGED Storing!vars
  <2>1. UNCHANGED <<storage, temp, place, call, answer, kept>>
    BY <1>4 DEF Storing!vars
  <2>2. Storing!TypeOK' /\ StoringOneStorage' /\ StoringMovesSeen' /\ StoringSendsSeen' /\ StoringMovesApart'
    BY <1>0, <2>1 DEF Storing!TypeOK, StoringOneStorage, StoringMovesSeen, StoringSendsSeen,
      StoringMovesApart, StoringMoving, StoringHeld
  <2>3. Storing!UploadsAccounted'
    BY <1>0, <2>1 DEF Storing!UploadsAccounted, Storing!ServeFile
  <2> QED BY <2>2, <2>3 DEF StoringIInv
<1> QED BY <1>1, <1>2, <1>3, <1>4

\* Every step keeps the invariant.
LEMMA StoringStep ==
    ASSUME Storing!NullAssumption, StoringIInv, [Storing!Next]_(Storing!vars)
    PROVE  StoringIInv'
  BY StoringLocalStep, StoringRemoteStep, StoringOtherStep DEF Storing!Next
-----------------------------------------------------------------------------
\* In its scene a step of the services is one of FileStorage.
LEMMA StoringSteps ==
    ASSUME scene = "files", [Next]_vars
    PROVE  scene' = "files" /\ [Storing!Next]_(Storing!vars)
<1>1. CASE Next
  BY <1>1 DEF Next
<1>2. CASE UNCHANGED vars
  BY <1>2 DEF vars, vStoring, Storing!vars
<1> QED BY <1>1, <1>2

StoringHolds == scene = "files" => StoringIInv

\* The invariant of the scene holds of every behaviour of the services.
LEMMA StoringInvariant == Spec => []StoringHolds
<1>0. Storing!NullAssumption
  BY ServicesAssumption DEF ServicesAssumption
<1>1. Init => StoringHolds
  BY <1>0, StoringInitial DEF Init, StoringHolds
<1>2. StoringHolds /\ [Next]_vars => StoringHolds'
  <2> SUFFICES ASSUME StoringHolds, [Next]_vars, scene' = "files" PROVE StoringIInv'
    BY DEF StoringHolds
  <2>1. scene = "files"
    BY DEF Next, vars
  <2>2. StoringIInv /\ [Storing!Next]_(Storing!vars)
    BY <2>1, StoringSteps DEF StoringHolds
  <2> QED BY <1>0, <2>2, StoringStep
<1> QED BY <1>1, <1>2, PTL DEF Spec
-----------------------------------------------------------------------------
(***************************************************************************)
(* FtesScores: the nightly scores of farms (TransparencyService).          *)
(***************************************************************************)
ScoringEvidences == UNION {[S -> Scoring!Evidence] : S \in SUBSET Steps}

ScoringRunRates == {<<>>} \cup {<<r>> : r \in Scoring!Rates}
ScoringRuns == [on : BOOLEAN, todo : SUBSET Farms, farm : Farms \cup {Null},
         evidence : ScoringEvidences \cup {<<>>}, rate : ScoringRunRates]

ScoringRunTyped ==
    /\ run \in ScoringRuns
    /\ run.farm # Null => run.on /\ run.evidence \in ScoringEvidences
    /\ ~ run.on => run.todo = {}

\* Every farm is still to do, at work, or has a result.
ScoringNoFarmLost ==
    /\ run.on => \A f \in Farms : result[f] = "none" => f \in run.todo \/ run.farm = f
    /\ complete => ~ run.on /\ \A f \in Farms : result[f] # "none"

ScoringUndisturbed(f) == f \notin touched \cup unchecked

\* What was read of a farm, or stored, is what its steps and the chain still say.
ScoringReadIsNow ==
    \A f \in Farms :
        /\ run.farm = f /\ ScoringUndisturbed(f) => run.evidence = Scoring!SeasonSteps(f, TRUE)
        /\ result[f] = "stored" /\ ScoringUndisturbed(f) =>
               farmScore[f].transparency = Scoring!SeasonSteps(f, TRUE)

\* A score is made of scored steps, and a step that has a score keeps one.
ScoringScoredHaveSteps ==
    \A f \in Farms : /\ run.farm = f \/ farmScore[f] # Null => Scoring!Scored(f) # {}
                     /\ result[f] = "skipped" => farmScore[f] = Null

ScoringIInv == Scoring!TypeOK /\ ScoringRunTyped /\ ScoringNoFarmLost /\ ScoringReadIsNow /\
    ScoringScoredHaveSteps

ScoringAssumption == Scoring!RowAssumption /\ Scoring!TradingAssumption /\ Scoring!NullAssumption
-----------------------------------------------------------------------------
\* What a farm loses is one of the weights.
LEMMA ScoringPenaltyIsWeight == \A s : Scoring!Penalty(s) \in Scoring!Weights
  BY DEF Scoring!Penalty, Scoring!TemporalPenalty, Scoring!Weights

\* What is summed over the steps of a farm's seasons has its type.
LEMMA ScoringStepsTyped ==
    ASSUME Scoring!TypeOK, NEW f \in Farms, NEW checked \in BOOLEAN
    PROVE  Scoring!SeasonSteps(f, checked) \in ScoringEvidences
<1>1. Scoring!Scored(f) \in SUBSET Steps
  BY DEF Scoring!Scored
<1>2. ASSUME NEW s \in Scoring!Scored(f)
      PROVE  [score |-> Scoring!CheckedScore(s, checked), penalty |-> Scoring!Penalty(s)] \in Scoring!Evidence
  <2>1. stepScore[s] \in TrustScores
    BY DEF Scoring!TypeOK, Scoring!Scored
  <2>2. Scoring!CheckedScore(s, checked) \in TrustScores \cup {0}
    BY <2>1 DEF Scoring!CheckedScore
  <2> QED BY <2>2, ScoringPenaltyIsWeight DEF Scoring!Evidence
<1>3. Scoring!SeasonSteps(f, checked) \in [Scoring!Scored(f) -> Scoring!Evidence]
  BY <1>2 DEF Scoring!SeasonSteps
<1> QED BY <1>1, <1>3 DEF ScoringEvidences

\* What is read of a farm depends on its own steps alone.
LEMMA ScoringOwnSteps ==
    ASSUME NEW f \in Farms,
           \A s \in Steps : Farm[s] = f => stepScore'[s] = stepScore[s] /\ hashed'[s] = hashed[s]
    PROVE  /\ Scoring!Scored(f)' = Scoring!Scored(f)
           /\ Scoring!SeasonSteps(f, TRUE)' = Scoring!SeasonSteps(f, TRUE)
<1>1. Scoring!Scored(f)' = Scoring!Scored(f)
  BY DEF Scoring!Scored
<1>2. ASSUME NEW s \in Scoring!Scored(f)
      PROVE  Scoring!CheckedScore(s, TRUE)' = Scoring!CheckedScore(s, TRUE) /\
               Scoring!Penalty(s)' = Scoring!Penalty(s)
  <2>1. s \in Steps /\ Farm[s] = f
    BY DEF Scoring!Scored
  <2>2. Scoring!Before(s)' = Scoring!Before(s)
    BY <1>1, <2>1 DEF Scoring!Before
  <2>3. Scoring!Penalty(s)' = Scoring!Penalty(s)
    BY <2>2 DEF Scoring!Penalty
  <2>4. Scoring!CheckedScore(s, TRUE)' = Scoring!CheckedScore(s, TRUE)
    BY <2>1 DEF Scoring!CheckedScore
  <2> QED BY <2>3, <2>4
<1> QED BY <1>1, <1>2 DEF Scoring!SeasonSteps

\* The nightly run between two farms, and asleep.
LEMMA ScoringBreaks ==
    ASSUME NEW left \in SUBSET Farms
    PROVE  /\ Scoring!Between(left) \in ScoringRuns
           /\ Scoring!Between(left).on /\ Scoring!Between(left).todo = left /\
                Scoring!Between(left).farm = Null
           /\ Scoring!Sleeping \in ScoringRuns
           /\ Scoring!Sleeping.on = FALSE /\ Scoring!Sleeping.todo = {} /\ Scoring!Sleeping.farm = Null
<1>1. <<>> \in ScoringRunRates /\ <<>> \in ScoringEvidences \cup {<<>>} /\ {} \in SUBSET Farms
      /\ TRUE \in BOOLEAN /\ FALSE \in BOOLEAN /\ Null \in Farms \cup {Null}
  BY DEF ScoringRunRates
<1>2. Scoring!Sleeping \in ScoringRuns
  BY <1>1 DEF Scoring!Sleeping, ScoringRuns
<1>3. Scoring!Between(left) \in ScoringRuns
  BY <1>1, <1>2 DEF Scoring!Between, ScoringRuns
<1>4. Scoring!Sleeping.on = FALSE /\ Scoring!Sleeping.todo = {} /\ Scoring!Sleeping.farm = Null
  BY DEF Scoring!Sleeping
<1>5. Scoring!Between(left).on = TRUE /\ Scoring!Between(left).todo = left /\
        Scoring!Between(left).farm = Null
  BY <1>2, <1>4 DEF Scoring!Between, ScoringRuns
<1> QED BY <1>2, <1>3, <1>4, <1>5

\* The initial states satisfy the invariant.
LEMMA ScoringInitial == ASSUME ScoringAssumption PROVE Scoring!Init => ScoringIInv
<1> SUFFICES ASSUME Scoring!Init PROVE ScoringIInv
  OBVIOUS
<1> USE DEF ScoringAssumption, Scoring!RowAssumption, Scoring!NullAssumption
<1>1. Scoring!TypeOK
  BY DEF Scoring!Init, Scoring!TypeOK, Scoring!Sleeping
<1>2. ScoringRunTyped
  BY ScoringBreaks DEF Scoring!Init, ScoringRunTyped
<1>3. run.on = FALSE /\ run.farm = Null
  BY DEF Scoring!Init, Scoring!Sleeping
<1>4. \A f \in Farms : farmScore[f] = Null /\ result[f] = "none" /\ run.farm # f
  BY <1>3 DEF Scoring!Init
<1>5. ScoringReadIsNow /\ ScoringScoredHaveSteps
  BY <1>4 DEF ScoringReadIsNow, ScoringScoredHaveSteps
<1>6. ScoringNoFarmLost
  BY <1>3 DEF Scoring!Init, ScoringNoFarmLost
<1> QED BY <1>1, <1>2, <1>5, <1>6 DEF ScoringIInv

\* The rows change, or not, while the run does not.
LEMMA ScoringRowStep ==
    ASSUME ScoringAssumption, ScoringIInv,
           UNCHANGED <<farmScore, run, result, unchecked, complete>>,
           touched \subseteq touched', touched' \subseteq Farms,
           stepScore' \in [Steps -> TrustScores \cup {Null}],
           hashed' \in [Steps -> SUBSET (TrustScores \cup {Null})],
           orders' \in [Farms -> SUBSET Scoring!Outcomes], selling' \subseteq Farms,
           reviews' \in [Farms -> ReviewRatings \cup {Null}],
           \A s \in Steps : /\ stepScore[s] # Null => stepScore'[s] # Null
                            /\ Farm[s] \in touched' \/
                                 (stepScore'[s] = stepScore[s] /\ hashed'[s] = hashed[s])
    PROVE  ScoringIInv'
<1>1. Scoring!TypeOK'
  BY DEF ScoringIInv, Scoring!TypeOK
<1>2. ScoringRunTyped' /\ ScoringNoFarmLost'
  BY DEF ScoringIInv, ScoringRunTyped, ScoringNoFarmLost
<1>3. \A f \in Farms : Scoring!Scored(f) # {} => Scoring!Scored(f)' # {}
  BY DEF Scoring!Scored
<1>4. \A f \in Farms : ScoringUndisturbed(f)' =>
         ScoringUndisturbed(f) /\ Scoring!SeasonSteps(f, TRUE)' = Scoring!SeasonSteps(f, TRUE)
  BY ScoringOwnSteps DEF ScoringUndisturbed
<1>5. ScoringReadIsNow'
  <2>1. run' = run /\ run'.farm = run.farm /\ run'.evidence = run.evidence
    OBVIOUS
  <2> QED BY <1>4, <2>1 DEF ScoringIInv, ScoringReadIsNow
<1>6. ScoringScoredHaveSteps'
  BY <1>3 DEF ScoringIInv, ScoringScoredHaveSteps
<1> QED BY <1>1, <1>2, <1>5, <1>6 DEF ScoringIInv

\* What farms, buyers and the chain do in the meantime.
LEMMA ScoringFarmStep ==
    ASSUME ScoringAssumption, ScoringIInv,
           \/ \E s \in Steps : Scoring!HashStep(s) \/ \E v \in TrustScores : Scoring!ScoreStep(s, v)
           \/ \E f \in Trading :
                \/ Scoring!Sell(f)
                \/ \E ending \in Scoring!Outcomes : Scoring!EndOrder(f, ending)
                \/ \E rating \in ReviewRatings : Scoring!ReviewProduct(f, rating)
    PROVE  ScoringIInv'
<1> USE DEF ScoringIInv, Scoring!TypeOK, ScoringAssumption, Scoring!RowAssumption,
    Scoring!NullAssumption
<1>1. ASSUME NEW s \in Steps, Scoring!HashStep(s) PROVE ScoringIInv'
  <2>1. hashed' \in [Steps -> SUBSET (TrustScores \cup {Null})]
    BY <1>1 DEF Scoring!HashStep
  <2>2. \A r \in Steps : Farm[r] \in touched' \/ (stepScore'[r] = stepScore[r] /\ hashed'[r] = hashed[r])
    BY <1>1 DEF Scoring!HashStep
  <2>3. touched \subseteq touched' /\ touched' \subseteq Farms
    BY <1>1 DEF Scoring!HashStep
  <2>4. UNCHANGED <<stepScore, orders, selling, reviews, farmScore, run, result, unchecked, complete>>
    BY <1>1 DEF Scoring!HashStep
  <2> QED BY <2>1, <2>2, <2>3, <2>4, ScoringRowStep
<1>2. ASSUME NEW s \in Steps, NEW v \in TrustScores, Scoring!ScoreStep(s, v) PROVE ScoringIInv'
  <2>1. stepScore' \in [Steps -> TrustScores \cup {Null}] /\ \A r \in Steps : stepScore[r] # Null =>
          stepScore'[r] # Null
    BY <1>2 DEF Scoring!ScoreStep
  <2>2. \A r \in Steps : Farm[r] \in touched' \/ (stepScore'[r] = stepScore[r] /\ hashed'[r] = hashed[r])
    BY <1>2 DEF Scoring!ScoreStep
  <2>3. touched \subseteq touched' /\ touched' \subseteq Farms
    BY <1>2 DEF Scoring!ScoreStep
  <2>4. UNCHANGED <<hashed, orders, selling, reviews, farmScore, run, result, unchecked, complete>>
    BY <1>2 DEF Scoring!ScoreStep
  <2> QED BY <2>1, <2>2, <2>3, <2>4, ScoringRowStep
<1>3. ASSUME NEW f \in Trading,
             \/ Scoring!Sell(f)
             \/ \E ending \in Scoring!Outcomes : Scoring!EndOrder(f, ending)
             \/ \E rating \in ReviewRatings : Scoring!ReviewProduct(f, rating)
      PROVE  ScoringIInv'
  <2>1. f \in Farms
    BY DEF ScoringAssumption, Scoring!TradingAssumption
  <2>2. UNCHANGED <<stepScore, hashed, farmScore, run, Scoring!historyVars>>
    BY <1>3 DEF Scoring!Sell, Scoring!EndOrder, Scoring!ReviewProduct
  <2>3. orders' \in [Farms -> SUBSET Scoring!Outcomes] /\ selling' \subseteq Farms
    BY <1>3, <2>1 DEF Scoring!Sell, Scoring!EndOrder, Scoring!ReviewProduct
  <2>4. reviews' \in [Farms -> ReviewRatings \cup {Null}]
    BY <1>3, <2>1 DEF Scoring!Sell, Scoring!EndOrder, Scoring!ReviewProduct
  <2> QED BY <2>2, <2>3, <2>4, ScoringRowStep DEF Scoring!historyVars
<1> QED BY <1>1, <1>2, <1>3

\* The run goes on, and the rows it reads stay.
LEMMA ScoringRunStep ==
    ASSUME ScoringAssumption, ScoringIInv,
           \/ \E f \in Farms : Scoring!ReadSteps(f) \/ \E logged \in BOOLEAN : Scoring!FailFarm(f, logged)
           \/ Scoring!StartRun \/ Scoring!ReadOrders \/ Scoring!SaveScore \/ Scoring!EndRun
    PROVE  ScoringIInv'
<1> USE DEF ScoringAssumption, Scoring!RowAssumption, Scoring!NullAssumption
<1>1. UNCHANGED <<stepScore, hashed, orders, selling, reviews>>
  BY DEF Scoring!StartRun, Scoring!ReadSteps, Scoring!ReadOrders, Scoring!SaveScore,
    Scoring!FailFarm, Scoring!EndRun
<1>2. \A f \in Farms : Scoring!Scored(f)' = Scoring!Scored(f) /\
        Scoring!SeasonSteps(f, TRUE)' = Scoring!SeasonSteps(f, TRUE)
  BY <1>1, ScoringOwnSteps
<1>3. CASE Scoring!StartRun
  <2>1. Farms \in SUBSET Farms
    OBVIOUS
  <2>2. run' \in ScoringRuns
    BY <1>3, <2>1, ScoringBreaks DEF Scoring!StartRun
  <2>3. run'.on /\ run'.todo = Farms /\ run'.farm = Null
    BY <1>3, <2>1, ScoringBreaks DEF Scoring!StartRun
  <2>4. /\ result' = [f \in Farms |-> "none"] /\ touched' = {} /\ unchecked' = {} /\ complete' = FALSE
        /\ farmScore' = farmScore
    BY <1>3 DEF Scoring!StartRun
  <2>5. Scoring!TypeOK' /\ ScoringRunTyped'
    BY <1>1, <2>2, <2>3, <2>4 DEF ScoringIInv, Scoring!TypeOK, ScoringRunTyped
  <2>6. ScoringNoFarmLost' /\ ScoringReadIsNow' /\ ScoringScoredHaveSteps'
    BY <1>2, <2>3, <2>4 DEF ScoringIInv, ScoringNoFarmLost, ScoringReadIsNow, ScoringScoredHaveSteps
  <2> QED BY <2>5, <2>6 DEF ScoringIInv
<1>4. ASSUME NEW f \in Farms, Scoring!ReadSteps(f) PROVE ScoringIInv'
  <2>1. /\ run.on /\ run.farm = Null /\ f \in run.todo
        /\ UNCHANGED <<farmScore, touched, complete>>
    BY <1>4 DEF Scoring!ReadSteps
  <2>2. ~ complete
    BY <2>1 DEF ScoringIInv, ScoringNoFarmLost
  <2>3. CASE Scoring!Scored(f) = {}
    <3>1. /\ run' = Scoring!Between(run.todo \ {f}) /\ result' = [result EXCEPT ![f] = "skipped"]
          /\ unchecked' = unchecked
      BY <1>4, <2>3 DEF Scoring!ReadSteps
    <3>2. run.todo \ {f} \in SUBSET Farms
      BY DEF ScoringIInv, Scoring!TypeOK
    <3>3. run' \in ScoringRuns
      BY <3>1, <3>2, ScoringBreaks
    <3>4. run'.on /\ run'.todo = run.todo \ {f} /\ run'.farm = Null
      BY <3>1, <3>2, ScoringBreaks
    <3>5. Scoring!TypeOK' /\ ScoringRunTyped'
      BY <1>1, <2>1, <3>1, <3>3, <3>4 DEF ScoringIInv, Scoring!TypeOK, ScoringRunTyped
    <3>6. ScoringNoFarmLost'
      BY <2>1, <2>2, <3>1, <3>4 DEF ScoringIInv, Scoring!TypeOK, ScoringNoFarmLost
    <3>7. ScoringReadIsNow' /\ ScoringScoredHaveSteps'
      BY <1>2, <2>1, <2>3, <3>1, <3>4 DEF ScoringIInv, Scoring!TypeOK, ScoringReadIsNow,
        ScoringScoredHaveSteps, ScoringUndisturbed
    <3> QED BY <3>5, <3>6, <3>7 DEF ScoringIInv
  <2>4. CASE Scoring!Scored(f) # {}
    <3>1. PICK checked \in BOOLEAN :
              /\ run' = [run EXCEPT !.todo = @ \ {f}, !.farm = f, !.evidence = Scoring!SeasonSteps(f, checked)]
              /\ unchecked' = IF checked THEN unchecked ELSE unchecked \cup {f}
              /\ result' = result
      BY <1>4, <2>4 DEF Scoring!ReadSteps
    <3>2. Scoring!SeasonSteps(f, checked) \in ScoringEvidences
      BY ScoringStepsTyped DEF ScoringIInv
    <3>3. run' \in ScoringRuns
      BY <3>1, <3>2 DEF ScoringIInv, ScoringRunTyped, ScoringRuns
    <3>4. run'.on = run.on /\ run'.todo = run.todo \ {f} /\ run'.farm = f /\
            run'.evidence = Scoring!SeasonSteps(f, checked)
      BY <3>1 DEF ScoringIInv, ScoringRunTyped, ScoringRuns
    <3>5. Scoring!TypeOK' /\ ScoringRunTyped'
      BY <1>1, <2>1, <3>1, <3>2, <3>3, <3>4 DEF ScoringIInv, Scoring!TypeOK, ScoringRunTyped
    <3>6. ScoringNoFarmLost'
      BY <2>1, <2>2, <3>1, <3>4 DEF ScoringIInv, ScoringNoFarmLost
    <3>7. ScoringUndisturbed(f)' => checked = TRUE
      BY <3>1 DEF ScoringUndisturbed
    <3>8. \A g \in Farms : ScoringUndisturbed(g)' => ScoringUndisturbed(g)
      BY <2>1, <3>1 DEF ScoringUndisturbed
    <3>9. ScoringReadIsNow'
      BY <1>2, <2>1, <3>1, <3>4, <3>7, <3>8 DEF ScoringIInv, ScoringReadIsNow
    <3>10. ScoringScoredHaveSteps'
      BY <1>2, <2>1, <2>4, <3>1, <3>4 DEF ScoringIInv, ScoringScoredHaveSteps
    <3> QED BY <3>5, <3>6, <3>9, <3>10 DEF ScoringIInv
  <2> QED BY <2>3, <2>4
<1>5. CASE Scoring!ReadOrders
  <2>1. run.farm # Null /\ UNCHANGED <<farmScore, result, touched, unchecked, complete>>
    BY <1>5 DEF Scoring!ReadOrders, Scoring!historyVars
  <2>2. run' = [run EXCEPT !.rate = <<Scoring!FulfillmentRate(run.farm)>>]
    BY <1>5 DEF Scoring!ReadOrders
  <2>3. Scoring!FulfillmentRate(run.farm) \in Scoring!Rates
    BY DEF Scoring!FulfillmentRate, Scoring!Rates
  <2>4. run' \in ScoringRuns
    <3>1. <<Scoring!FulfillmentRate(run.farm)>> \in ScoringRunRates
      BY <2>3 DEF ScoringRunRates
    <3> QED BY <2>2, <3>1 DEF ScoringIInv, ScoringRunTyped, ScoringRuns
  <2>5. run'.on = run.on /\ run'.todo = run.todo /\ run'.farm = run.farm /\ run'.evidence = run.evidence
    BY <2>2 DEF ScoringIInv, ScoringRunTyped, ScoringRuns
  <2>6. Scoring!TypeOK' /\ ScoringRunTyped'
    BY <1>1, <2>1, <2>4, <2>5 DEF ScoringIInv, Scoring!TypeOK, ScoringRunTyped
  <2>7. ScoringNoFarmLost' /\ ScoringScoredHaveSteps' /\ ScoringReadIsNow'
    BY <1>2, <2>1, <2>5 DEF ScoringIInv, ScoringNoFarmLost, ScoringReadIsNow,
      ScoringScoredHaveSteps, ScoringUndisturbed
  <2> QED BY <2>6, <2>7 DEF ScoringIInv
<1>6. CASE Scoring!SaveScore
  <2>1. run.farm # Null /\ run.rate # <<>> /\ UNCHANGED <<touched, unchecked, complete>>
    BY <1>6 DEF Scoring!SaveScore
  <2>2. PICK f \in Farms : f = run.farm
    BY <2>1 DEF ScoringIInv, Scoring!TypeOK
  <2>3. PICK points : points = [transparency |-> run.evidence, order_fulfillment |-> run.rate[1],
                              market_validation |-> Scoring!Satisfaction(run.farm)]
    OBVIOUS
  <2>4. points \in Scoring!FarmScore /\ points # Null /\ points.transparency = run.evidence
    <3>1. run.evidence \in ScoringEvidences
      BY <2>1 DEF ScoringIInv, ScoringRunTyped
    <3>2. PICK r \in Scoring!Rates : run.rate = <<r>>
      BY <2>1 DEF ScoringIInv, ScoringRunTyped, ScoringRuns, ScoringRunRates
    <3>3. run.rate[1] \in Scoring!Rates
      BY <3>2
    <3>4. Scoring!Satisfaction(run.farm) \in ReviewRatings \cup {0, Null}
      BY DEF Scoring!Satisfaction, Scoring!AverageRating
    <3>5. points \in Scoring!FarmScore
      BY <2>3, <3>1, <3>3, <3>4 DEF Scoring!FarmScore, ScoringEvidences
    <3> QED BY <2>3, <3>5
  <2>5. farmScore' = [farmScore EXCEPT ![f] = points] /\ result' = [result EXCEPT ![f] = "stored"]
        /\ run' = Scoring!Between(run.todo)
    BY <1>6, <2>2, <2>3 DEF Scoring!SaveScore
  <2>6. run.todo \in SUBSET Farms
    BY DEF ScoringIInv, Scoring!TypeOK
  <2>7. run' \in ScoringRuns
    BY <2>5, <2>6, ScoringBreaks
  <2>8. run'.on /\ run'.todo = run.todo /\ run'.farm = Null
    BY <2>5, <2>6, ScoringBreaks
  <2>9. Scoring!TypeOK' /\ ScoringRunTyped'
    BY <1>1, <2>1, <2>4, <2>5, <2>7, <2>8 DEF ScoringIInv, Scoring!TypeOK, ScoringRunTyped
  <2>10. run.on
    BY <2>1 DEF ScoringIInv, ScoringRunTyped
  <2>11. ScoringNoFarmLost'
    BY <2>1, <2>2, <2>5, <2>8, <2>10 DEF ScoringIInv, Scoring!TypeOK, ScoringNoFarmLost
  <2>12. \A g \in Farms : ScoringUndisturbed(g)' <=> ScoringUndisturbed(g)
    BY <2>1 DEF ScoringUndisturbed
  <2>13. ScoringReadIsNow'
    BY <1>2, <2>2, <2>4, <2>5, <2>8, <2>12 DEF ScoringIInv, Scoring!TypeOK, ScoringReadIsNow
  <2>14. ScoringScoredHaveSteps'
    BY <1>2, <2>2, <2>5, <2>8 DEF ScoringIInv, Scoring!TypeOK, ScoringScoredHaveSteps
  <2> QED BY <2>9, <2>11, <2>13, <2>14 DEF ScoringIInv
<1>7. ASSUME NEW f \in Farms, NEW logged \in BOOLEAN, Scoring!FailFarm(f, logged) PROVE ScoringIInv'
  <2>1. /\ run.farm = f \/ (run.farm = Null /\ f \in run.todo)
        /\ result' = [result EXCEPT ![f] = "failed"]
        /\ run' = IF logged THEN Scoring!Between(run.todo \ {f}) ELSE Scoring!Sleeping
        /\ UNCHANGED <<farmScore, touched, unchecked, complete>>
    BY <1>7 DEF Scoring!FailFarm
  <2>2. run.todo \ {f} \in SUBSET Farms
    BY DEF ScoringIInv, Scoring!TypeOK
  <2>3. /\ run'.farm = Null /\ run'.todo \subseteq Farms
        /\ run'.on => run'.todo = run.todo \ {f} /\ logged
    BY <2>1, <2>2, ScoringBreaks
  <2>4. run' \in ScoringRuns
    BY <2>1, <2>2, ScoringBreaks
  <2>5. Scoring!TypeOK' /\ ScoringRunTyped'
    <3>1. run'.on \in BOOLEAN /\ run'.todo \subseteq Farms /\ (~ run'.on => run'.todo = {})
      BY <2>1, <2>2, ScoringBreaks
    <3>2. result' \in [Farms -> {"none", "stored", "skipped", "failed"}]
      BY <2>1 DEF ScoringIInv, Scoring!TypeOK
    <3>3. Scoring!TypeOK'
      BY <1>1, <2>1, <2>3, <3>1, <3>2 DEF ScoringIInv, Scoring!TypeOK
    <3>4. ScoringRunTyped'
      BY <2>3, <2>4, <3>1 DEF ScoringRunTyped
    <3> QED BY <3>3, <3>4
  <2>6. ~ complete /\ run.on
    <3>1. CASE run.farm = f
      BY <3>1 DEF ScoringIInv, ScoringRunTyped, ScoringNoFarmLost
    <3>2. CASE run.farm = Null /\ f \in run.todo
      BY <3>2 DEF ScoringIInv, ScoringRunTyped, ScoringNoFarmLost
    <3> QED BY <2>1, <3>1, <3>2
  <2>7. ScoringNoFarmLost'
    BY <2>1, <2>3, <2>6 DEF ScoringIInv, Scoring!TypeOK, ScoringNoFarmLost
  <2>8. ScoringReadIsNow' /\ ScoringScoredHaveSteps'
    BY <1>2, <2>1, <2>3 DEF ScoringIInv, Scoring!TypeOK, ScoringReadIsNow, ScoringScoredHaveSteps,
      ScoringUndisturbed
  <2> QED BY <2>5, <2>7, <2>8 DEF ScoringIInv
<1>8. CASE Scoring!EndRun
  <2>1. /\ run.on /\ run.farm = Null /\ run.todo = {} /\ run' = Scoring!Sleeping /\ complete' = TRUE
        /\ UNCHANGED <<farmScore, result, touched, unchecked>>
    BY <1>8 DEF Scoring!EndRun
  <2>2. run'.farm = Null /\ ~ run'.on /\ run'.todo = {}
    BY <2>1, ScoringBreaks
  <2>3. run' \in ScoringRuns
    BY <2>1, ScoringBreaks
  <2>4. Scoring!TypeOK' /\ ScoringRunTyped'
    BY <1>1, <2>1, <2>2, <2>3 DEF ScoringIInv, Scoring!TypeOK, ScoringRunTyped
  <2>5. ScoringNoFarmLost' /\ ScoringReadIsNow' /\ ScoringScoredHaveSteps'
    BY <1>2, <2>1, <2>2 DEF ScoringIInv, Scoring!TypeOK, ScoringNoFarmLost, ScoringReadIsNow,
      ScoringScoredHaveSteps, ScoringUndisturbed
  <2> QED BY <2>4, <2>5 DEF ScoringIInv
<1> QED BY <1>3, <1>4, <1>5, <1>6, <1>7, <1>8

\* Every step keeps the invariant.
LEMMA ScoringStep ==
    ASSUME ScoringAssumption, ScoringIInv, [Scoring!Next]_(Scoring!vars)
    PROVE  ScoringIInv'
<1>1. CASE UNCHANGED Scoring!vars
  <2>1. UNCHANGED <<stepScore, hashed, orders, selling, reviews, farmScore, run, result, touched, unchecked, complete>>
    BY <1>1 DEF Scoring!vars, Scoring!historyVars
  <2>2. touched' \subseteq Farms
    BY <2>1 DEF ScoringIInv, Scoring!TypeOK
  <2> QED BY <2>1, <2>2, ScoringRowStep DEF ScoringIInv, Scoring!TypeOK
<1>2. CASE Scoring!Next
  BY <1>2, ScoringFarmStep, ScoringRunStep DEF Scoring!Next
<1> QED BY <1>1, <1>2

\* The invariant implies the promise.
LEMMA ScoringScoresAll == ASSUME ScoringIInv PROVE Scoring!RunScoresAll
  BY DEF ScoringIInv, ScoringNoFarmLost, ScoringReadIsNow, ScoringScoredHaveSteps,
    Scoring!RunScoresAll, ScoringUndisturbed
-----------------------------------------------------------------------------
\* In its scene a step of the services is one of FtesScores.
LEMMA ScoringSteps ==
    ASSUME scene = "scores", [Next]_vars
    PROVE  scene' = "scores" /\ [Scoring!Next]_(Scoring!vars)
<1>1. CASE Next
  BY <1>1 DEF Next
<1>2. CASE UNCHANGED vars
  BY <1>2 DEF vars, vScoring, Scoring!vars, Scoring!historyVars
<1> QED BY <1>1, <1>2

ScoringHolds == scene = "scores" => ScoringIInv

\* The invariant of the scene holds of every behaviour of the services.
LEMMA ScoringInvariant == Spec => []ScoringHolds
<1>0. ScoringAssumption
  BY ServicesAssumption DEF ServicesAssumption, ScoringAssumption
<1>1. Init => ScoringHolds
  BY <1>0, ScoringInitial DEF Init, ScoringHolds
<1>2. ScoringHolds /\ [Next]_vars => ScoringHolds'
  <2> SUFFICES ASSUME ScoringHolds, [Next]_vars, scene' = "scores" PROVE ScoringIInv'
    BY DEF ScoringHolds
  <2>1. scene = "scores"
    BY DEF Next, vars
  <2>2. ScoringIInv /\ [Scoring!Next]_(Scoring!vars)
    BY <2>1, ScoringSteps DEF ScoringHolds
  <2> QED BY <1>0, <2>2, ScoringStep
<1> QED BY <1>1, <1>2, PTL DEF Spec
-----------------------------------------------------------------------------
(***************************************************************************)
(* PictureChecks: the pictures of a log (ImageVerificationService).        *)
(***************************************************************************)
\* Finite sets are those of the library.
LEMMA JudgingCounts ==
    \A S : /\ Judging!Cardinality(S) = Cardinality(S)
           /\ Judging!IsFiniteSet(S) <=> IsFiniteSet(S)
  BY DEF Judging!Cardinality, Cardinality, Judging!IsFiniteSet, IsFiniteSet

\* Sums are those of the library.
LEMMA JudgingSums == \A f : Judging!SumFunction(f) = SumFunction(f)
  BY DEF Judging!SumFunction, SumFunction, Judging!SumFunctionOnSet, SumFunctionOnSet,
    Judging!FoldFunctionOnSet, FoldFunctionOnSet, Judging!MapThenFoldSet, MapThenFoldSet

JudgingAssumption == Judging!WebAssumption /\ Judging!PictureAssumption /\ Judging!NullAssumption

\* How far each step has come.
JudgingLoopsRun ==
    /\ stage \in {"fetch", "hash", "compare"} => \A p \in Pictures : seen[p] = Null
    /\ stage = "fetch" => phash = {}
    /\ stage \in {"hash", "compare", "annotate"} => todo \subseteq fetched
    /\ stage = "compare" => todo = fetched
    /\ stage = "annotate" => \A p \in Pictures : seen[p] = Null <=> p \notin fetched \/ p \in todo

\* The answers are all there or all dropped.
JudgingAllOrNone ==
    stage \in {"score", "decide", "over"} =>
        \/ \A p \in Pictures : seen[p] = Null
        \/ \A p \in fetched : seen[p] # Null

JudgingCopiesCompared ==
    stage \in {"annotate", "score", "decide", "over"} /\ fetched # {} =>
        duplicate \/ blind \/ phash \cap Copies = {}

\* A picture fails no test without the score being 0.
JudgingScoreIsOfTests ==
    score # 0 => /\ stage \in {"decide", "over"}
                 /\ Judging!Agricultural /\ ~ Judging!Stock /\ ~ duplicate

JudgingSkipIsScored == decision = "skip" => stage = "over" /\ score >= Judging!AUTO_VERIFY_THRESHOLD

JudgingIInv == Judging!TypeOK /\ JudgingLoopsRun /\ JudgingAllOrNone /\ JudgingCopiesCompared /\
    JudgingScoreIsOfTests /\ JudgingSkipIsScored
-----------------------------------------------------------------------------
\* The pictures the web was asked about are finitely many.
LEMMA JudgingAnnotatedAre ==
    ASSUME JudgingAssumption, Judging!TypeOK
    PROVE  /\ Judging!IsFiniteSet(Judging!Annotated)
           /\ \A p \in Judging!Annotated : seen[p].web \in [full : Nat, partial : Nat, pages : Nat, agency : BOOLEAN]
<1>1. Judging!Annotated \subseteq Pictures /\ Judging!IsFiniteSet(Pictures)
  BY DEF Judging!Annotated, Judging!TypeOK, JudgingAssumption, Judging!PictureAssumption
<1>2. \A p \in Judging!Annotated : seen[p] \in Judging!Annotation
  BY <1>1 DEF Judging!Annotated, Judging!TypeOK
<1> QED BY JudgingCounts, <1>1, <1>2, FS_Subset DEF Judging!Annotation, JudgingAssumption, Judging!WebAssumption

\* The score of a log is a percentage, and zero if a test fails.
LEMMA JudgingScoreOfTests ==
    ASSUME JudgingAssumption, Judging!TypeOK
    PROVE  /\ Judging!OverallScore \in 0 .. 100
           /\ Judging!OverallScore # 0 => Judging!Agricultural /\ ~ Judging!Stock /\ ~ duplicate
<1> DEFINE full == Judging!SumFunction([p \in Judging!Annotated |-> seen[p].web.full])
           partial == Judging!SumFunction([p \in Judging!Annotated |-> seen[p].web.partial])
           pages == Judging!SumFunction([p \in Judging!Annotated |-> seen[p].web.pages])
<1>1. \A a, b \in Nat : a + b \in Nat
  OBVIOUS
<1>2. full \in Nat
  <2> DEFINE f == [p \in Judging!Annotated |-> seen[p].web.full]
  <2>1. DOMAIN f = Judging!Annotated /\ \A p \in DOMAIN f : f[p] \in Nat
    BY JudgingAnnotatedAre
  <2>2. Judging!IsFiniteSet(DOMAIN f)
    BY <2>1, JudgingAnnotatedAre
  <2> HIDE DEF f
  <2>3. Judging!SumFunction(f) \in Nat
    BY JudgingSums, JudgingCounts, <1>1, <2>1, <2>2, SumIsIn
  <2> QED BY <2>3 DEF f
<1>3. partial \in Nat
  <2> DEFINE f == [p \in Judging!Annotated |-> seen[p].web.partial]
  <2>1. DOMAIN f = Judging!Annotated /\ \A p \in DOMAIN f : f[p] \in Nat
    BY JudgingAnnotatedAre
  <2>2. Judging!IsFiniteSet(DOMAIN f)
    BY <2>1, JudgingAnnotatedAre
  <2> HIDE DEF f
  <2>3. Judging!SumFunction(f) \in Nat
    BY JudgingSums, JudgingCounts, <1>1, <2>1, <2>2, SumIsIn
  <2> QED BY <2>3 DEF f
<1>4. pages \in Nat
  <2> DEFINE f == [p \in Judging!Annotated |-> seen[p].web.pages]
  <2>1. DOMAIN f = Judging!Annotated /\ \A p \in DOMAIN f : f[p] \in Nat
    BY JudgingAnnotatedAre
  <2>2. Judging!IsFiniteSet(DOMAIN f)
    BY <2>1, JudgingAnnotatedAre
  <2> HIDE DEF f
  <2>3. Judging!SumFunction(f) \in Nat
    BY JudgingSums, JudgingCounts, <1>1, <2>1, <2>2, SumIsIn
  <2> QED BY <2>3 DEF f
<1>5. Judging!Originality = IF Judging!Stock THEN 0 ELSE 100 - 25 * full - 15 * partial - (IF pages > 5 THEN 25 ELSE 5 * pages)
  BY DEF Judging!Originality
<1> HIDE DEF full, partial, pages
<1>6. Judging!Originality \in Int /\ Judging!Originality <= 100 /\ (Judging!Stock => Judging!Originality = 0)
  BY <1>2, <1>3, <1>4, <1>5
<1>7. CASE ~ Judging!Agricultural \/ Judging!Originality <= 0 \/ duplicate
  BY <1>7 DEF Judging!OverallScore
<1>8. CASE Judging!Agricultural /\ ~ (Judging!Originality <= 0) /\ ~ duplicate
  <2>1. PICK x \in 1 .. 100 : x = Judging!Originality
    BY <1>6, <1>8
  <2>2. Judging!OverallScore = (35 * 100 + 35 * x + 30 * 100) \div 100
    BY <1>8, <2>1 DEF Judging!OverallScore
  <2>3. (35 * 100 + 35 * x + 30 * 100) \div 100 \in 0 .. 100
    BY <2>1
  <2> QED BY <1>6, <1>8, <2>2, <2>3
<1> QED BY <1>7, <1>8

\* The initial states satisfy the invariant.
LEMMA JudgingInitial == ASSUME JudgingAssumption PROVE Judging!Init => JudgingIInv
<1> SUFFICES ASSUME Judging!Init PROVE JudgingIInv
  OBVIOUS
<1>1. Judging!TypeOK
  <2>1. stage \in Judging!Stages /\ score \in 0 .. 100
    BY DEF Judging!Init, Judging!Stages
  <2>2. seen \in [Pictures -> Judging!Annotation \cup {Null}] /\ fetched = {} /\ phash = {} /\ todo = Pictures
    BY DEF Judging!Init
  <2>3. duplicate \in BOOLEAN /\ blind \in BOOLEAN /\ decision = "none"
    BY DEF Judging!Init
  <2> QED BY <2>1, <2>2, <2>3 DEF Judging!TypeOK
<1>2. JudgingLoopsRun /\ JudgingAllOrNone /\ JudgingCopiesCompared /\ JudgingScoreIsOfTests /\
        JudgingSkipIsScored
  BY DEF Judging!Init, JudgingLoopsRun, JudgingAllOrNone, JudgingCopiesCompared,
    JudgingScoreIsOfTests, JudgingSkipIsScored
<1> QED BY <1>1, <1>2 DEF JudgingIInv

\* Before a score is stored it is 0, and nobody has decided.
LEMMA JudgingUndecided ==
    ASSUME JudgingIInv, stage \notin {"decide", "over"}
    PROVE  score = 0 /\ decision # "skip"
  BY DEF JudgingIInv, JudgingScoreIsOfTests, JudgingSkipIsScored

\* Every step keeps the invariant.
LEMMA JudgingStep ==
    ASSUME JudgingAssumption, JudgingIInv, [Judging!Next]_(Judging!vars)
    PROVE  JudgingIInv'
<1> USE DEF JudgingAssumption
<1>0. Judging!TypeOK /\ JudgingLoopsRun /\ JudgingAllOrNone /\ JudgingCopiesCompared /\
        JudgingScoreIsOfTests /\ JudgingSkipIsScored
  BY DEF JudgingIInv
<1>1. ASSUME NEW p \in Pictures, Judging!Fetch(p) PROVE JudgingIInv'
  <2>1. /\ stage = "fetch" /\ p \in todo
        /\ fetched' \in {fetched, fetched \cup {p}}
        /\ stage' \in {"fetch", "score", "hash"} /\ (stage' = "hash" => todo' = fetched')
        /\ todo' \subseteq Pictures /\ fetched' \subseteq Pictures /\ (stage' = "score" => fetched' = {})
        /\ UNCHANGED <<phash, duplicate, blind, seen, score, decision>>
    BY <1>0, <1>1 DEF Judging!Fetch, Judging!Done, Judging!TypeOK
  <2>2. Judging!TypeOK'
    BY <1>0, <2>1 DEF Judging!TypeOK, Judging!Stages
  <2>3. score' = 0 /\ decision' # "skip"
    BY <2>1, JudgingUndecided
  <2>4. JudgingLoopsRun' /\ JudgingAllOrNone' /\ JudgingCopiesCompared'
    BY <1>0, <2>1 DEF JudgingLoopsRun, JudgingAllOrNone, JudgingCopiesCompared
  <2> QED BY <2>2, <2>3, <2>4 DEF JudgingIInv, JudgingScoreIsOfTests, JudgingSkipIsScored
<1>2. ASSUME NEW p \in Pictures, Judging!Hash(p) PROVE JudgingIInv'
  <2>1. /\ stage = "hash" /\ p \in todo
        /\ phash' \in {phash, phash \cup {p}}
        /\ stage' \in {"hash", "compare"} /\ (stage' = "compare" => todo' = fetched)
        /\ (stage' = "hash" => todo' \subseteq todo)
        /\ UNCHANGED <<fetched, duplicate, blind, seen, score, decision>>
    BY <1>2 DEF Judging!Hash, Judging!Done
  <2>2. p \in fetched
    BY <1>0, <2>1 DEF JudgingLoopsRun
  <2>3. Judging!TypeOK'
    BY <1>0, <2>1, <2>2 DEF Judging!TypeOK, Judging!Stages
  <2>4. score' = 0 /\ decision' # "skip"
    BY <2>1, JudgingUndecided
  <2>5. JudgingLoopsRun' /\ JudgingAllOrNone' /\ JudgingCopiesCompared'
    BY <1>0, <2>1 DEF JudgingLoopsRun, JudgingAllOrNone, JudgingCopiesCompared
  <2> QED BY <2>3, <2>4, <2>5 DEF JudgingIInv, JudgingScoreIsOfTests, JudgingSkipIsScored
<1>3. CASE Judging!CheckDuplicates
  <2>1. /\ stage = "compare" /\ stage' = "annotate" /\ blind' \in BOOLEAN
        /\ duplicate' = (phash \cap Copies # {} /\ ~ blind')
        /\ UNCHANGED <<todo, fetched, phash, seen, score, decision>>
    BY <1>3 DEF Judging!CheckDuplicates
  <2>2. duplicate' \in BOOLEAN
    BY <2>1
  <2>3. Judging!TypeOK'
    BY <1>0, <2>1, <2>2 DEF Judging!TypeOK, Judging!Stages
  <2>4. score' = 0 /\ decision' # "skip"
    BY <2>1, JudgingUndecided
  <2>5. JudgingLoopsRun' /\ JudgingAllOrNone' /\ JudgingCopiesCompared'
    BY <1>0, <2>1 DEF JudgingLoopsRun, JudgingAllOrNone, JudgingCopiesCompared
  <2> QED BY <2>3, <2>4, <2>5 DEF JudgingIInv, JudgingScoreIsOfTests, JudgingSkipIsScored
<1>4. ASSUME NEW p \in Pictures, NEW a \in Judging!Annotation, Judging!AnalyzeWithVision(p, a)
      PROVE  JudgingIInv'
  <2>1. /\ stage = "annotate" /\ p \in todo /\ seen' = [seen EXCEPT ![p] = a]
        /\ (todo = {p} /\ stage' = "score" /\ todo' = {}) \/ (stage' = "annotate" /\ todo' = todo \ {p})
        /\ UNCHANGED <<fetched, phash, duplicate, blind, score, decision>>
    BY <1>4 DEF Judging!AnalyzeWithVision, Judging!Done
  <2>2. Judging!TypeOK'
    BY <1>0, <2>1 DEF Judging!TypeOK, Judging!Stages
  <2>3. score' = 0 /\ decision' # "skip"
    BY <2>1, JudgingUndecided
  <2>4. a # Null
    BY DEF Judging!NullAssumption
  <2>5. \A q \in Pictures : seen'[q] = IF q = p THEN a ELSE seen[q]
    BY <1>0, <2>1 DEF Judging!TypeOK
  <2>6. p \in fetched
    BY <1>0, <2>1 DEF JudgingLoopsRun, Judging!TypeOK
  <2>7. JudgingLoopsRun' /\ JudgingAllOrNone' /\ JudgingCopiesCompared'
    BY <1>0, <2>1, <2>4, <2>5, <2>6 DEF Judging!TypeOK, JudgingLoopsRun, JudgingAllOrNone,
      JudgingCopiesCompared
  <2> QED BY <2>2, <2>3, <2>7 DEF JudgingIInv, JudgingScoreIsOfTests, JudgingSkipIsScored
<1>5. CASE Judging!VisionFails
  <2>1. /\ stage = "annotate" /\ stage' = "score" /\ seen' = [p \in Pictures |-> Null] /\ todo' = {}
        /\ UNCHANGED <<fetched, phash, duplicate, blind, score, decision>>
    BY <1>5 DEF Judging!VisionFails
  <2>2. Judging!TypeOK'
    BY <1>0, <2>1 DEF Judging!TypeOK, Judging!Stages
  <2>3. score' = 0 /\ decision' # "skip"
    BY <2>1, JudgingUndecided
  <2>4. JudgingLoopsRun' /\ JudgingAllOrNone' /\ JudgingCopiesCompared'
    BY <1>0, <2>1 DEF JudgingLoopsRun, JudgingAllOrNone, JudgingCopiesCompared
  <2> QED BY <2>2, <2>3, <2>4 DEF JudgingIInv, JudgingScoreIsOfTests, JudgingSkipIsScored
<1>6. CASE Judging!SaveResult \/ Judging!SaveFails
  <2>1. /\ stage = "score" /\ stage' \in {"decide", "over"}
        /\ (score' = Judging!OverallScore /\ stage' = "decide") \/ score' = score
        /\ UNCHANGED <<todo, fetched, phash, duplicate, blind, seen, decision>>
    BY <1>6 DEF Judging!SaveResult, Judging!SaveFails
  <2>2. score = 0 /\ decision' # "skip"
    BY <2>1, JudgingUndecided
  <2>3. score' \in 0 .. 100 /\ (score' # 0 => Judging!Agricultural /\ ~ Judging!Stock /\ ~ duplicate)
    BY <1>0, <2>1, <2>2, JudgingScoreOfTests
  <2>4. Judging!TypeOK'
    BY <1>0, <2>1, <2>3 DEF Judging!TypeOK, Judging!Stages
  <2>5. JudgingLoopsRun' /\ JudgingAllOrNone' /\ JudgingCopiesCompared'
    BY <1>0, <2>1 DEF JudgingLoopsRun, JudgingAllOrNone, JudgingCopiesCompared
  <2>6. Judging!Annotated' = Judging!Annotated
    BY <2>1 DEF Judging!Annotated
  <2>7. (Judging!Agricultural' <=> Judging!Agricultural) /\ (Judging!Stock' <=> Judging!Stock)
    BY <2>1, <2>6 DEF Judging!Agricultural, Judging!AgriculturalCount, Judging!Stock
  <2>8. JudgingScoreIsOfTests' /\ JudgingSkipIsScored'
    BY <2>1, <2>2, <2>3, <2>7 DEF JudgingScoreIsOfTests, JudgingSkipIsScored
  <2> QED BY <2>4, <2>5, <2>8 DEF JudgingIInv
<1>7. ASSUME (\E d \in {"review", "skip"} : Judging!Decide(d)) \/ UNCHANGED Judging!vars
      PROVE  JudgingIInv'
  <2>1. /\ stage' = stage \/ (stage = "decide" /\ stage' = "over")
        /\ decision' = decision \/ decision' = "review" \/
           (stage' = "over" /\ decision' = "skip" /\ score >= Judging!AUTO_VERIFY_THRESHOLD)
        /\ UNCHANGED <<todo, fetched, phash, duplicate, blind, seen, score>>
    BY <1>7 DEF Judging!Decide, Judging!vars
  <2>2. Judging!TypeOK'
    BY <1>0, <2>1 DEF Judging!TypeOK, Judging!Stages
  <2>3. JudgingLoopsRun' /\ JudgingAllOrNone' /\ JudgingCopiesCompared'
    BY <1>0, <2>1 DEF JudgingLoopsRun, JudgingAllOrNone, JudgingCopiesCompared
  <2>4. Judging!Annotated' = Judging!Annotated
    BY <2>1 DEF Judging!Annotated
  <2>5. (Judging!Agricultural' <=> Judging!Agricultural) /\ (Judging!Stock' <=> Judging!Stock)
    BY <2>1, <2>4 DEF Judging!Agricultural, Judging!AgriculturalCount, Judging!Stock
  <2>6. JudgingScoreIsOfTests' /\ JudgingSkipIsScored'
    BY <1>0, <2>1, <2>5 DEF JudgingScoreIsOfTests, JudgingSkipIsScored
  <2> QED BY <2>2, <2>3, <2>6 DEF JudgingIInv
<1> QED BY <1>1, <1>2, <1>3, <1>4, <1>5, <1>6, <1>7 DEF Judging!Next

\* The invariant implies the promise.
LEMMA JudgingJudged == ASSUME JudgingIInv PROVE Judging!SkippedIsJudged
<1> SUFFICES ASSUME decision = "skip"
             PROVE  /\ fetched # {} /\ Judging!Annotated = fetched
                    /\ \A p \in fetched : ~ Judging!IsStockImage(seen[p].web)
                    /\ 2 * Judging!Cardinality({p \in fetched : seen[p].agricultural}) >= Judging!Cardinality(fetched)
                    /\ phash \cap Copies = {} \/ blind
  BY DEF Judging!SkippedIsJudged
<1>1. stage = "over" /\ score # 0
  BY DEF JudgingIInv, Judging!TypeOK, JudgingSkipIsScored, Judging!AUTO_VERIFY_THRESHOLD
<1>2. Judging!Agricultural /\ ~ Judging!Stock /\ ~ duplicate
  BY <1>1 DEF JudgingIInv, JudgingScoreIsOfTests
<1>3. Judging!Annotated # {}
  BY <1>2 DEF Judging!Agricultural
<1>4. Judging!Annotated = fetched
  BY <1>1, <1>3 DEF JudgingIInv, Judging!TypeOK, JudgingAllOrNone, Judging!Annotated
<1>5. 2 * Judging!Cardinality({p \in fetched : seen[p].agricultural}) >= Judging!Cardinality(fetched)
  BY <1>2, <1>4 DEF Judging!Agricultural, Judging!AgriculturalCount
<1>6. \A p \in fetched : ~ Judging!IsStockImage(seen[p].web)
  BY <1>2, <1>4 DEF Judging!Stock
<1> QED BY <1>1, <1>2, <1>3, <1>4, <1>5, <1>6 DEF JudgingIInv, JudgingCopiesCompared
-----------------------------------------------------------------------------
\* In its scene a step of the services is one of PictureChecks.
LEMMA JudgingSteps ==
    ASSUME scene = "pictures", [Next]_vars
    PROVE  scene' = "pictures" /\ [Judging!Next]_(Judging!vars)
<1>1. CASE Next
  BY <1>1 DEF Next
<1>2. CASE UNCHANGED vars
  BY <1>2 DEF vars, vJudging, Judging!vars
<1> QED BY <1>1, <1>2

JudgingHolds == scene = "pictures" => JudgingIInv

\* The invariant of the scene holds of every behaviour of the services.
LEMMA JudgingInvariant == Spec => []JudgingHolds
<1>0. JudgingAssumption
  BY ServicesAssumption DEF ServicesAssumption, JudgingAssumption
<1>1. Init => JudgingHolds
  BY <1>0, JudgingInitial DEF Init, JudgingHolds
<1>2. JudgingHolds /\ [Next]_vars => JudgingHolds'
  <2> SUFFICES ASSUME JudgingHolds, [Next]_vars, scene' = "pictures" PROVE JudgingIInv'
    BY DEF JudgingHolds
  <2>1. scene = "pictures"
    BY DEF Next, vars
  <2>2. JudgingIInv /\ [Judging!Next]_(Judging!vars)
    BY <2>1, JudgingSteps DEF JudgingHolds
  <2> QED BY <1>0, <2>2, JudgingStep
<1> QED BY <1>1, <1>2, PTL DEF Spec
-----------------------------------------------------------------------------
\* s holds every element of S once.
Enumerates(s, S) ==
    /\ s \in Seq(S) /\ Len(s) = Cardinality(S)
    /\ \A m, n \in 1 .. Len(s) : s[m] = s[n] => m = n
    /\ \A x \in S : \E n \in 1 .. Len(s) : s[n] = x

\* A sequence of a finite set holds every element once.
LEMMA Enumerated ==
    ASSUME NEW S, IsFiniteSet(S), NEW s \in SetToSeqs(S)
    PROVE  Enumerates(s, S)
<1> DEFINE D == 1 .. Cardinality(S)
<1>1. Cardinality(S) \in Nat
  BY FS_CardinalityType
<1>2. s \in [D -> S] /\ \A i, j \in D : i # j => s[i] # s[j]
  BY DEF SetToSeqs
<1>3. s \in Injection(D, S)
  BY <1>2 DEF Injection, IsInjective
<1>4. IsFiniteSet(D) /\ Cardinality(D) = Cardinality(S)
  BY <1>1, FS_Interval
<1>5. s \in Surjection(D, S)
  BY <1>3, <1>4, FS_Injection
<1>6. \A x \in S : \E n \in D : s[n] = x
  BY <1>5 DEF Surjection
<1>7. s \in Seq(S) /\ Len(s) = Cardinality(S)
  BY <1>1, <1>2
<1> QED BY <1>2, <1>6, <1>7 DEF Enumerates
-----------------------------------------------------------------------------
(***************************************************************************)
(* Of the lists answered page by page (Listings).                          *)
(***************************************************************************)
\* Finite sets are those of the library.
LEMMA ListingCounts ==
    \A S : /\ Listing!Cardinality(S) = Cardinality(S)
           /\ Listing!IsFiniteSet(S) <=> IsFiniteSet(S)
  BY DEF Listing!Cardinality, Cardinality, Listing!IsFiniteSet, IsFiniteSet

\* So are the sequences of a set.
LEMMA ListingOrders == \A S : Listing!SetToSeqs(S) = SetToSeqs(S)
  BY ListingCounts DEF Listing!SetToSeqs, SetToSeqs

ListingAssumption == Listing!LimitAssumption /\ Listing!KeyAssumption /\ Listing!NullAssumption

ListingAllSorts == UNION {q.sorts : q \in Listing!Queries}
ListingWalks == [query : Listing!Queries, sort : ListingAllSorts, page : Nat \ {0}, counted : Nat,
          at : {"count", "fetch", "refused", "end"}, shown : Seq(ListedRows), quiet : BOOLEAN]
ListingWalking ==
    /\ table \in [ListedRows -> Listing!Row \cup {Null}]
    /\ walk # Null => walk \in ListingWalks /\ walk.sort \in walk.query.sorts

\* The pages before this one, of answer s.
ListingShownBefore(shown, s, page) ==
    /\ Len(shown) = Listing!Least(Listing!Skip(page), Len(s))
    /\ \A n \in 1 .. Len(shown) : shown[n] = s[n]

\* A client who has walked a list at rest has seen the pages before, and the next
\* one exists.
ListingInStep ==
    walk # Null /\ walk.quiet /\ Listing!InOneOrder(walk.query, walk.sort) =>
        /\ walk.at # "refused"
        /\ walk.at # "end" =>
              /\ walk.page = 1 \/ Listing!Skip(walk.page) < Listing!Cardinality(Listing!Listed(walk.query))
              /\ \A s \in Listing!Answers(walk.query, walk.sort) : ListingShownBefore(walk.shown, s, walk.page)
        /\ walk.at = "fetch" => walk.counted = Listing!Cardinality(Listing!Listed(walk.query))
        /\ walk.at = "end" => Enumerates(walk.shown, Listing!Listed(walk.query))

ListingIInv == ListingWalking /\ ListingInStep
-----------------------------------------------------------------------------
\* The quotient of two numbers.
LEMMA ListingDivision ==
    ASSUME NEW x \in Nat, NEW l \in Nat, l > 0
    PROVE  /\ x \div l \in Nat
           /\ l * (x \div l) <= x
           /\ x < l * (x \div l) + l
  OBVIOUS

\* Products grow with their factors.
LEMMA ListingTimes ==
    ASSUME NEW a \in Nat, NEW b \in Nat, NEW l \in Nat, a <= b
    PROVE  a * l <= b * l
  OBVIOUS

\* A page begins within the list if it is one of its pages.
LEMMA ListingPages ==
    ASSUME Listing!LimitAssumption, NEW c \in Nat, NEW p \in Nat, p > 0
    PROVE  /\ Listing!TotalPages(c) \in Nat
           /\ Listing!Skip(p) \in Nat
           /\ Listing!Skip(p + 1) = Listing!Skip(p) + ListLimit
           /\ Listing!Skip(p) < c <=> p <= Listing!TotalPages(c)
<1> DEFINE t == Listing!TotalPages(c)
<1>0. ListLimit \in Nat /\ ListLimit > 0 /\ c + ListLimit - 1 \in Nat
  BY DEF Listing!LimitAssumption
<1>1. t \in Nat /\ ListLimit * t <= c + ListLimit - 1 /\ c + ListLimit - 1 < ListLimit * t + ListLimit
  BY <1>0, ListingDivision DEF Listing!TotalPages
<1> HIDE DEF t
<1>2. (p - 1) \in Nat /\ Listing!Skip(p) = (p - 1) * ListLimit /\ Listing!Skip(p) \in Nat /\
        Listing!Skip(p + 1) = p * ListLimit
  BY <1>0 DEF Listing!Skip
<1>3. p * ListLimit = (p - 1) * ListLimit + ListLimit
  BY <1>0
<1>4. ASSUME p <= t PROVE Listing!Skip(p) < c
  <2>1. p * ListLimit <= t * ListLimit
    BY <1>0, <1>1, <1>4, ListingTimes
  <2>2. t * ListLimit = ListLimit * t
    BY <1>0, <1>1
  <2>3. p * ListLimit \in Int /\ t * ListLimit \in Int
    BY <1>0, <1>1
  <2> QED BY <1>0, <1>1, <1>2, <1>3, <2>1, <2>2, <2>3
<1>5. ASSUME ~ (p <= t) PROVE ~ (Listing!Skip(p) < c)
  <2>1. t <= p - 1
    BY <1>1, <1>5
  <2>2. t * ListLimit <= (p - 1) * ListLimit
    BY <1>0, <1>1, <1>2, <2>1, ListingTimes
  <2>3. t * ListLimit = ListLimit * t /\ t * ListLimit \in Int
    BY <1>0, <1>1
  <2> QED BY <1>0, <1>1, <1>2, <2>2, <2>3
<1> QED BY <1>1, <1>2, <1>3, <1>4, <1>5 DEF t

\* The rows listed are finitely many.
LEMMA ListingListedFinite ==
    ASSUME ListingAssumption, NEW q
    PROVE  Listing!IsFiniteSet(Listing!Listed(q)) /\
             Listing!Cardinality(Listing!Listed(q)) \in Nat /\ Listing!Listed(q) \subseteq ListedRows
<1>1. Listing!Listed(q) \subseteq ListedRows /\ Listing!IsFiniteSet(ListedRows)
  BY DEF Listing!Listed, ListingAssumption, Listing!KeyAssumption
<1>2. Listing!IsFiniteSet(Listing!Listed(q))
  BY ListingCounts, <1>1, FS_Subset
<1> QED BY ListingCounts, <1>1, <1>2, FS_CardinalityType

\* In a list that has one order, of two rows one comes before the other.
LEMMA ListingOrderTotal ==
    ASSUME ListingAssumption, ListingWalking, NEW q, NEW sort, Listing!InOneOrder(q, sort),
           NEW i \in Listing!Listed(q), NEW j \in Listing!Listed(q)
    PROVE  /\ i # j => Listing!Before(q, sort, i, j) \/ Listing!Before(q, sort, j, i)
           /\ ~ (Listing!Before(q, sort, i, j) /\ Listing!Before(q, sort, j, i))
<1>1. i \in Int /\ j \in Int
  BY DEF Listing!Listed, ListingAssumption, Listing!KeyAssumption
<1>2. table[i].key \in Int /\ table[j].key \in Int
  BY DEF Listing!Listed, ListingWalking, Listing!Row, ListingAssumption, Listing!KeyAssumption
<1>3. sort = <<>> => ~ Listing!Unique(sort)
  BY DEF Listing!Unique
<1> QED BY <1>1, <1>2, <1>3 DEF Listing!Before, Listing!InOneOrder

\* ... and the database has one answer only.
LEMMA ListingOneAnswer ==
    ASSUME ListingAssumption, ListingWalking, NEW q, NEW sort, Listing!InOneOrder(q, sort),
           NEW s \in Listing!Answers(q, sort), NEW t \in Listing!Answers(q, sort)
    PROVE  s = t
<1> DEFINE S == Listing!Listed(q)
           N == Listing!Cardinality(S)
<1>1. /\ Enumerates(s, S) /\ Enumerates(t, S)
      /\ \A m, n \in DOMAIN s : m < n => ~ Listing!Before(q, sort, s[n], s[m])
      /\ \A m, n \in DOMAIN t : m < n => ~ Listing!Before(q, sort, t[n], t[m])
  BY ListingOrders, ListingCounts, ListingListedFinite, Enumerated DEF Listing!Answers
<1>2. N \in Nat /\ Len(s) = N /\ Len(t) = N /\ s \in [1 .. N -> S] /\ t \in [1 .. N -> S]
  <2>1. N \in Nat /\ Len(s) = N /\ Len(t) = N /\ s \in Seq(S) /\ t \in Seq(S)
    BY ListingCounts, <1>1, ListingListedFinite DEF Enumerates
  <2> QED BY <2>1, LenProperties
<1> DEFINE T == {n \in 1 .. N : s[n] # t[n]}
<1>3. SUFFICES ASSUME T # {} PROVE FALSE
  BY <1>2
<1>4. T \subseteq Nat
  OBVIOUS
<1>5. PICK n \in T : \A m \in T : n <= m
  BY <1>3, <1>4, LeastElement
<1>6. \A m \in 1 .. N : m < n => s[m] = t[m]
  BY <1>5
<1>7. n \in 1 .. N /\ s[n] \in S /\ t[n] \in S /\ s[n] # t[n]
  BY <1>2, <1>5
<1>8. PICK m \in 1 .. N : t[m] = s[n]
  BY ListingCounts, <1>1, <1>2, <1>7 DEF Enumerates
<1>9. PICK k \in 1 .. N : s[k] = t[n]
  BY ListingCounts, <1>1, <1>2, <1>7 DEF Enumerates
<1>10. n < m
  <2>1. ~ (m < n)
    BY ListingCounts, <1>1, <1>2, <1>6, <1>7, <1>8 DEF Enumerates
  <2>2. m # n
    BY <1>7, <1>8
  <2> QED BY <1>7, <2>1, <2>2
<1>11. n < k
  <2>1. ~ (k < n)
    BY ListingCounts, <1>1, <1>2, <1>6, <1>7, <1>9 DEF Enumerates
  <2>2. k # n
    BY <1>7, <1>9
  <2> QED BY <1>7, <2>1, <2>2
<1>12. ~ Listing!Before(q, sort, s[n], t[n])
  BY <1>1, <1>2, <1>7, <1>8, <1>10
<1>13. ~ Listing!Before(q, sort, t[n], s[n])
  BY <1>1, <1>2, <1>7, <1>9, <1>11
<1> QED BY <1>7, <1>12, <1>13, ListingOrderTotal

\* A page is the rows of the answer from its first on.
LEMMA ListingPageOf ==
    ASSUME Listing!LimitAssumption, NEW S, NEW s \in Seq(S), NEW p \in Nat \ {0}
    PROVE  /\ Listing!Page(s, p) \in Seq(S)
           /\ Listing!Least(Listing!Skip(p), Len(s)) + Len(Listing!Page(s, p)) = Listing!Least(Listing!Skip(p + 1), Len(s))
           /\ \A n \in 1 .. Len(Listing!Page(s, p)) : Listing!Page(s, p)[n] = s[Listing!Skip(p) + n] /\ Listing!Skip(p) <= Len(s)
<1>1. Listing!Skip(p) \in Nat /\ ListLimit \in Nat /\ Listing!Skip(p + 1) = Listing!Skip(p) + ListLimit
  <2>1. 0 \in Nat /\ p \in Nat /\ p > 0
    OBVIOUS
  <2> QED BY <2>1, ListingPages DEF Listing!LimitAssumption
<1>2. Len(s) \in Nat
  BY LenProperties
<1> DEFINE a == Listing!Skip(p)
           b == Listing!Least(Listing!Skip(p) + ListLimit, Len(s))
<1>3. a \in Nat /\ b \in Nat /\ b <= Len(s) /\ b <= a + ListLimit /\ (b = Len(s) \/ b = a + ListLimit)
  BY <1>1, <1>2 DEF Listing!Least
<1>4. Listing!Page(s, p) = SubSeq(s, a + 1, b) /\ b = Listing!Least(a + ListLimit, Len(s))
  BY DEF Listing!Page
<1> HIDE DEF a, b
<1>5. \A i \in a + 1 .. b : s[i] \in S
  <2>1. \A i \in a + 1 .. b : i \in 1 .. Len(s)
    BY <1>2, <1>3
  <2> QED BY <2>1, ElementOfSeq
<1>6. /\ Listing!Page(s, p) \in Seq(S)
      /\ Len(Listing!Page(s, p)) = IF a + 1 <= b THEN b - (a + 1) + 1 ELSE 0
      /\ \A i \in 1 .. b - (a + 1) + 1 : Listing!Page(s, p)[i] = s[(a + 1) + i - 1]
  <2>1. a + 1 \in Int /\ b \in Int
    BY <1>3
  <2> QED BY <1>4, <1>5, <2>1, SubSeqProperties
<1>7. \A n \in 1 .. Len(Listing!Page(s, p)) : Listing!Page(s, p)[n] = s[a + n] /\ a <= Len(s)
  <2> SUFFICES ASSUME NEW n \in 1 .. Len(Listing!Page(s, p))
               PROVE  Listing!Page(s, p)[n] = s[a + n] /\ a <= Len(s)
    OBVIOUS
  <2>1. a + 1 <= b /\ n \in 1 .. b - (a + 1) + 1 /\ (a + 1) + n - 1 = a + n
    BY <1>3, <1>6
  <2> QED BY <1>2, <1>3, <1>6, <2>1
<1>8. Listing!Least(a, Len(s)) + Len(Listing!Page(s, p)) = Listing!Least(a + ListLimit, Len(s))
  <2>1. a <= Len(s) => b = Listing!Least(a + ListLimit, Len(s)) /\ a <= b
    BY <1>1, <1>2, <1>3, <1>4 DEF Listing!Least
  <2>2. Listing!Least(a, Len(s)) = IF a <= Len(s) THEN a ELSE Len(s)
    BY <1>2, <1>3 DEF Listing!Least
  <2>3. ~ (a <= Len(s)) => b = Len(s) /\ ~ (a + 1 <= b)
    BY <1>1, <1>2, <1>3
  <2> QED BY <1>2, <1>3, <1>4, <1>6, <2>1, <2>2, <2>3
<1> QED BY <1>1, <1>6, <1>7, <1>8 DEF a

\* One page more.
LEMMA ListingNextPage ==
    ASSUME Listing!LimitAssumption, NEW S, NEW s \in Seq(S), NEW p \in Nat \ {0},
           NEW shown \in Seq(S),
           ListingShownBefore(shown, s, p)
    PROVE  ListingShownBefore(shown \o Listing!Page(s, p), s, p + 1)
<1> DEFINE page == Listing!Page(s, p)
<1>1. /\ page \in Seq(S) /\
           Listing!Least(Listing!Skip(p), Len(s)) + Len(page) = Listing!Least(Listing!Skip(p + 1), Len(s))
      /\ \A n \in 1 .. Len(page) : page[n] = s[Listing!Skip(p) + n] /\ Listing!Skip(p) <= Len(s)
  BY ListingPageOf
<1>2. Listing!Skip(p) \in Nat /\ Len(s) \in Nat /\ Len(page) \in Nat /\ Len(shown) \in Nat
  <2>1. 0 \in Nat /\ p \in Nat /\ p > 0
    OBVIOUS
  <2> QED BY <1>1, <2>1, ListingPages, LenProperties
<1> HIDE DEF page
<1>3. /\ Len(shown \o page) = Len(shown) + Len(page)
      /\ \A i \in 1 .. Len(shown) + Len(page) :
            (shown \o page)[i] = IF i <= Len(shown) THEN shown[i] ELSE page[i - Len(shown)]
  BY <1>1, ConcatProperties
<1>4. Len(shown \o page) = Listing!Least(Listing!Skip(p + 1), Len(s))
  BY <1>1, <1>3 DEF ListingShownBefore
<1>5. ASSUME NEW i \in 1 .. Len(shown \o page) PROVE (shown \o page)[i] = s[i]
  <2>1. CASE i <= Len(shown)
    BY <1>2, <1>3, <1>5, <2>1 DEF ListingShownBefore
  <2>2. CASE ~ (i <= Len(shown))
    <3>1. i - Len(shown) \in 1 .. Len(page) /\ (shown \o page)[i] = page[i - Len(shown)]
      BY <1>2, <1>3, <2>2
    <3>2. Listing!Skip(p) <= Len(s) /\ page[i - Len(shown)] = s[Listing!Skip(p) + (i - Len(shown))]
      BY <1>1, <3>1
    <3>3. Len(shown) = Listing!Skip(p)
      BY <1>2, <3>2 DEF ListingShownBefore, Listing!Least
    <3>4. Listing!Skip(p) + (i - Len(shown)) = i
      BY <1>2, <3>3
    <3> QED BY <3>1, <3>2, <3>4
  <2> QED BY <2>1, <2>2
<1> QED BY <1>4, <1>5 DEF ListingShownBefore, page
\* The initial states satisfy the invariant.
LEMMA ListingInitial == Listing!Init => ListingIInv
<1> SUFFICES ASSUME Listing!Init PROVE ListingIInv
  OBVIOUS
<1>1. table \in [ListedRows -> Listing!Row \cup {Null}]
  <2>1. [key : Keys, deleted : {FALSE}] \subseteq Listing!Row
    BY DEF Listing!Row
  <2> QED BY <2>1 DEF Listing!Init
<1> QED BY <1>1 DEF Listing!Init, ListingIInv, ListingWalking, ListingInStep

\* The walk changes, the table does not.
LEMMA ListingWalkStep ==
    ASSUME ListingAssumption, ListingIInv,
           \/ \E q \in Listing!Queries : \E sort \in q.sorts : Listing!Begin(q, sort)
           \/ Listing!Count \/ Listing!Fetch
    PROVE  ListingIInv'
<1>1. table' = table /\ ListingWalking /\ ListingInStep /\ Listing!LimitAssumption
  BY DEF Listing!Begin, Listing!Count, Listing!Fetch, ListingIInv, ListingAssumption
<1>2. \A q, sort : /\ Listing!Listed(q)' = Listing!Listed(q) /\
                        Listing!Answers(q, sort)' = Listing!Answers(q, sort)
                   /\ Listing!Listed(q) \subseteq ListedRows
                   /\ Listing!Cardinality(Listing!Listed(q)) \in Nat /\ Listing!IsFiniteSet(Listing!Listed(q))
                   /\ \A s \in Listing!Answers(q, sort) : Enumerates(s, Listing!Listed(q)) /\
                        s \in Seq(ListedRows)
  <2> SUFFICES ASSUME NEW q, NEW sort
               PROVE  /\ Listing!Listed(q)' = Listing!Listed(q) /\
                           Listing!Answers(q, sort)' = Listing!Answers(q, sort)
                      /\ Listing!Listed(q) \subseteq ListedRows
                      /\ Listing!Cardinality(Listing!Listed(q)) \in Nat /\
                           Listing!IsFiniteSet(Listing!Listed(q))
                      /\ \A s \in Listing!Answers(q, sort) : Enumerates(s, Listing!Listed(q)) /\
                           s \in Seq(ListedRows)
    OBVIOUS
  <2>1. Listing!Listed(q)' = Listing!Listed(q)
    BY <1>1 DEF Listing!Listed
  <2>2. Listing!Answers(q, sort)' = Listing!Answers(q, sort)
    BY <1>1, <2>1 DEF Listing!Answers, Listing!Before
  <2>3. \A s \in Listing!Answers(q, sort) : Enumerates(s, Listing!Listed(q))
    BY ListingOrders, ListingCounts, ListingListedFinite, Enumerated DEF Listing!Answers
  <2>4. \A s \in Listing!Answers(q, sort) : s \in Seq(ListedRows)
    BY ListingCounts, <2>3, ListingListedFinite, SeqMonotonic DEF Enumerates
  <2> QED BY <2>1, <2>2, <2>3, <2>4, ListingListedFinite
<1>3. ASSUME NEW q \in Listing!Queries, NEW sort \in q.sorts, Listing!Begin(q, sort)
      PROVE  ListingIInv'
  <2>1. walk' = [query |-> q, sort |-> sort, page |-> 1, counted |-> 0, at |-> "count",
                 shown |-> <<>>, quiet |-> TRUE]
    BY <1>3 DEF Listing!Begin
  <2>2. sort \in ListingAllSorts /\ <<>> \in Seq(ListedRows) /\ 1 \in Nat \ {0} /\ 0 \in Nat
    BY EmptySeq DEF ListingAllSorts
  <2>3. walk' \in ListingWalks /\ walk'.sort \in walk'.query.sorts
    BY <2>1, <2>2 DEF ListingWalks
  <2>4. ListingWalking'
    BY <1>1, <2>3 DEF ListingWalking
  <2>5. Listing!Skip(1) = 0
    BY <1>1 DEF Listing!Skip, Listing!LimitAssumption
  <2>6. \A s \in Listing!Answers(q, sort) : ListingShownBefore(<<>>, s, 1)
    <3>1. \A s \in Listing!Answers(q, sort) : Len(s) \in Nat
      BY ListingCounts, <1>2 DEF Enumerates
    <3> QED BY <2>5, <3>1, EmptySeq DEF ListingShownBefore, Listing!Least
  <2>7. ListingInStep'
    BY <1>2, <2>1, <2>6 DEF ListingInStep
  <2> QED BY <2>4, <2>7 DEF ListingIInv
<1>4. CASE Listing!Count
  <2>1. PICK w : w = walk
    OBVIOUS
  <2>2. w \in ListingWalks /\ w.sort \in w.query.sorts /\ w.at = "count" /\ w # Null
    BY <1>1, <1>4, <2>1 DEF Listing!Count, ListingWalking
  <2>3. PICK count : count = Listing!Cardinality(Listing!Listed(w.query))
    OBVIOUS
  <2>4. PICK at \in {"refused", "fetch"} :
           /\ walk' = [w EXCEPT !.counted = count, !.at = at]
           /\ at = "refused" => Listing!TotalPages(count) > 0 /\ w.page > Listing!TotalPages(count)
    BY <1>4, <2>1, <2>3 DEF Listing!Count
  <2>5. count \in Nat
    BY <1>2, <2>3
  <2>6. /\ walk' \in ListingWalks /\ walk'.query = w.query /\ walk'.sort = w.sort /\ walk'.page = w.page
        /\ walk'.counted = count /\ walk'.at = at /\ walk'.shown = w.shown /\ walk'.quiet = w.quiet
    BY <2>2, <2>4, <2>5 DEF ListingWalks
  <2>7. ListingWalking'
    BY <1>1, <2>2, <2>6 DEF ListingWalking
  <2>8. ASSUME w.quiet, Listing!InOneOrder(w.query, w.sort)
        PROVE  /\ at # "refused"
               /\ w.page = 1 \/ Listing!Skip(w.page) < count
               /\ \A s \in Listing!Answers(w.query, w.sort) : ListingShownBefore(w.shown, s, w.page)
    <3>1. /\ w.page = 1 \/ Listing!Skip(w.page) < count
          /\ \A s \in Listing!Answers(w.query, w.sort) : ListingShownBefore(w.shown, s, w.page)
      BY <1>1, <2>1, <2>2, <2>3, <2>8 DEF ListingInStep
    <3>2. w.page \in Nat /\ w.page > 0
      BY <2>2 DEF ListingWalks
    <3>3. Listing!TotalPages(count) \in Nat /\
            (Listing!Skip(w.page) < count => w.page <= Listing!TotalPages(count))
      BY <1>1, <2>5, <3>2, ListingPages
    <3>4. at # "refused"
      BY <2>4, <3>1, <3>2, <3>3
    <3> QED BY <3>1, <3>4
  <2>9. ListingInStep'
    BY <1>2, <2>3, <2>6, <2>8 DEF ListingInStep, Listing!InOneOrder, Listing!TiesBroken
  <2> QED BY <2>7, <2>9 DEF ListingIInv
<1>5. CASE Listing!Fetch
  <2>1. PICK w : w = walk
    OBVIOUS
  <2>2. w \in ListingWalks /\ w.sort \in w.query.sorts /\ w.at = "fetch" /\ w # Null
    BY <1>1, <1>5, <2>1 DEF Listing!Fetch, ListingWalking
  <2>3. PICK s \in Listing!Answers(w.query, w.sort) :
           walk' = [w EXCEPT !.shown = @ \o Listing!Page(s, w.page), !.page = @ + 1,
                             !.at = IF w.page < Listing!TotalPages(w.counted) THEN "count" ELSE "end"]
    BY <1>5, <2>1 DEF Listing!Fetch
  <2>4. w.page \in Nat \ {0} /\ w.shown \in Seq(ListedRows) /\ w.counted \in Nat /\ w.page + 1 \in Nat \ {0}
    BY <2>2 DEF ListingWalks
  <2>5. s \in Seq(ListedRows) /\ Enumerates(s, Listing!Listed(w.query))
    BY <1>2, <2>3
  <2>6. Listing!Page(s, w.page) \in Seq(ListedRows)
    BY <1>1, <2>4, <2>5, ListingPageOf
  <2>7. PICK shown \in Seq(ListedRows) : shown = w.shown \o Listing!Page(s, w.page)
    BY <2>4, <2>6, ConcatProperties
  <2>8. PICK at \in {"count", "end"} : at = IF w.page < Listing!TotalPages(w.counted) THEN "count" ELSE "end"
    OBVIOUS
  <2>9. walk' = [w EXCEPT !.shown = shown, !.page = w.page + 1, !.at = at]
    BY <2>2, <2>3, <2>7, <2>8 DEF ListingWalks
  <2>10. /\ walk' \in ListingWalks /\ walk'.query = w.query /\ walk'.sort = w.sort /\ walk'.page = w.page + 1
         /\ walk'.at = at /\ walk'.shown = shown /\ walk'.quiet = w.quiet
    BY <2>2, <2>4, <2>9 DEF ListingWalks
  <2>11. ListingWalking'
    BY <1>1, <2>2, <2>10 DEF ListingWalking
  <2>12. ASSUME w.quiet, Listing!InOneOrder(w.query, w.sort)
         PROVE  /\ at = "count" =>
                      /\ Listing!Skip(w.page + 1) < Listing!Cardinality(Listing!Listed(w.query))
                      /\ \A t \in Listing!Answers(w.query, w.sort) : ListingShownBefore(shown, t, w.page + 1)
                /\ at = "end" => Enumerates(shown, Listing!Listed(w.query))
    <3>1. /\ ListingShownBefore(w.shown, s, w.page)
          /\ w.counted = Listing!Cardinality(Listing!Listed(w.query))
      BY <1>1, <2>1, <2>2, <2>3, <2>12 DEF ListingInStep
    <3>2. ListingShownBefore(shown, s, w.page + 1)
      BY <1>1, <2>4, <2>5, <2>7, <3>1, ListingNextPage
    <3>3. \A t \in Listing!Answers(w.query, w.sort) : t = s
      BY <1>1, <2>3, <2>12, ListingOneAnswer
    <3>4. /\ Listing!TotalPages(w.counted) \in Nat
          /\ Listing!Skip(w.page + 1) < w.counted <=> w.page + 1 <= Listing!TotalPages(w.counted)
          /\ Listing!Skip(w.page + 1) \in Nat
      <4>1. w.page + 1 \in Nat /\ w.page + 1 > 0
        BY <2>4
      <4> QED BY <1>1, <2>4, <4>1, ListingPages
    <3>5. at = "count" => Listing!Skip(w.page + 1) < w.counted
      BY <2>4, <2>8, <3>4
    <3>6. at = "end" => ~ (Listing!Skip(w.page + 1) < w.counted)
      BY <2>4, <2>8, <3>4
    <3>7. ASSUME at = "end" PROVE Enumerates(shown, Listing!Listed(w.query))
      <4>1. Len(s) = w.counted /\ Len(s) \in Nat
        BY ListingCounts, <2>4, <2>5, <3>1 DEF Enumerates
      <4>2. Listing!Least(Listing!Skip(w.page + 1), Len(s)) = Len(s)
        BY <3>4, <3>6, <3>7, <4>1 DEF Listing!Least
      <4>3. Len(shown) = Len(s) /\ \A n \in 1 .. Len(s) : shown[n] = s[n]
        BY <3>2, <4>2 DEF ListingShownBefore
      <4>4. shown = s
        BY <2>5, <2>7, <4>3, SeqEqual
      <4> QED BY <2>5, <4>4
    <3> QED BY <3>1, <3>2, <3>3, <3>5, <3>7
  <2>13. ListingInStep'
    BY <1>2, <2>10, <2>12 DEF ListingInStep, Listing!InOneOrder, Listing!TiesBroken
  <2> QED BY <2>11, <2>13 DEF ListingIInv
<1> QED BY <1>3, <1>4, <1>5

\* Every step keeps the invariant.
LEMMA ListingStep ==
    ASSUME ListingAssumption, ListingIInv, [Listing!Next]_(Listing!vars)
    PROVE  ListingIInv'
<1>1. ASSUME NEW i \in ListedRows, Listing!Change(i) PROVE ListingIInv'
  <2>1. table' \in {[table EXCEPT ![i] = r] : r \in Listing!Row \cup {Null}}
    BY <1>1 DEF Listing!Change
  <2>2. table' \in [ListedRows -> Listing!Row \cup {Null}]
    BY <2>1 DEF ListingIInv, ListingWalking
  <2>3. CASE walk = Null
    BY <1>1, <2>2, <2>3 DEF Listing!Change, ListingIInv, ListingWalking, ListingInStep
  <2>4. CASE walk # Null
    <3>1. walk' = [walk EXCEPT !.quiet = FALSE] /\ walk \in ListingWalks /\ walk.sort \in walk.query.sorts
      BY <1>1, <2>4 DEF Listing!Change, ListingIInv, ListingWalking
    <3>2. walk' \in ListingWalks /\ walk'.quiet = FALSE /\ walk'.query = walk.query /\ walk'.sort = walk.sort
      BY <3>1 DEF ListingWalks
    <3>3. ListingWalking'
      BY <2>2, <3>1, <3>2 DEF ListingWalking
    <3>4. ListingInStep'
      BY <3>2 DEF ListingInStep
    <3> QED BY <3>3, <3>4 DEF ListingIInv
  <2> QED BY <2>3, <2>4
<1>2. CASE UNCHANGED Listing!vars
  <2>1. table' = table /\ walk' = walk
    BY <1>2 DEF Listing!vars
  <2>2. \A q, sort : Listing!Listed(q)' = Listing!Listed(q) /\
          Listing!Answers(q, sort)' = Listing!Answers(q, sort)
    BY <2>1 DEF Listing!Listed, Listing!Answers, Listing!Before
  <2>3. ListingWalking' /\ ListingInStep'
    BY <2>1, <2>2 DEF ListingIInv, ListingWalking, ListingInStep
  <2> QED BY <2>3 DEF ListingIInv
<1> QED BY <1>1, <1>2, ListingWalkStep DEF Listing!Next

\* The invariant implies the promise.
LEMMA ListingWalked == ASSUME ListingIInv PROVE Listing!TypeOK /\ Listing!OffsetWalkComplete
<1>1. Listing!TypeOK
  BY DEF ListingIInv, ListingWalking, ListingWalks, Listing!TypeOK
<1>2. Listing!OffsetWalkComplete
  <2> SUFFICES ASSUME walk # Null, walk.quiet, Listing!InOneOrder(walk.query, walk.sort),
                      walk.at = "end"
               PROVE  Listing!IsInjective(walk.shown) /\
                        Listing!ToSet(walk.shown) = Listing!Listed(walk.query)
    BY DEF ListingIInv, ListingInStep, Listing!OffsetWalkComplete
  <2>1. Enumerates(walk.shown, Listing!Listed(walk.query))
    BY DEF ListingIInv, ListingInStep
  <2>2. DOMAIN walk.shown = 1 .. Len(walk.shown) /\
          walk.shown \in [1 .. Len(walk.shown) -> Listing!Listed(walk.query)]
    BY ListingCounts, <2>1, LenProperties DEF Enumerates
  <2>3. PICK s : s = walk.shown
    OBVIOUS
  <2>4. PICK L : L = Listing!Listed(walk.query)
    OBVIOUS
  <2>5. /\ DOMAIN s = 1 .. Len(s) /\ \A n \in 1 .. Len(s) : s[n] \in L
        /\ \A m, n \in 1 .. Len(s) : s[m] = s[n] => m = n
        /\ \A x \in L : \E n \in 1 .. Len(s) : s[n] = x
    BY ListingCounts, <2>1, <2>2, <2>3, <2>4 DEF Enumerates
  <2>6. Listing!IsInjective(s)
    BY <2>5 DEF Listing!IsInjective
  <2>7. Listing!ToSet(s) = L
    BY <2>5 DEF Listing!ToSet
  <2> QED BY <2>3, <2>4, <2>6, <2>7
<1> QED BY <1>1, <1>2
-----------------------------------------------------------------------------
\* In its scene a step of the services is one of Listings.
LEMMA ListingSteps ==
    ASSUME scene = "list", [Next]_vars
    PROVE  scene' = "list" /\ [Listing!Next]_(Listing!vars)
<1>1. CASE Next
  BY <1>1 DEF Next
<1>2. CASE UNCHANGED vars
  BY <1>2 DEF vars, vListing, Listing!vars
<1> QED BY <1>1, <1>2

ListingHolds == scene = "list" => ListingIInv

\* The invariant of the scene holds of every behaviour of the services.
LEMMA ListingInvariant == Spec => []ListingHolds
<1>0. ListingAssumption
  BY ServicesAssumption DEF ServicesAssumption, ListingAssumption
<1>1. Init => ListingHolds
  BY <1>0, ListingInitial DEF Init, ListingHolds
<1>2. ListingHolds /\ [Next]_vars => ListingHolds'
  <2> SUFFICES ASSUME ListingHolds, [Next]_vars, scene' = "list" PROVE ListingIInv'
    BY DEF ListingHolds
  <2>1. scene = "list"
    BY DEF Next, vars
  <2>2. ListingIInv /\ [Listing!Next]_(Listing!vars)
    BY <2>1, ListingSteps DEF ListingHolds
  <2> QED BY <1>0, <2>2, ListingStep
<1> QED BY <1>1, <1>2, PTL DEF Spec
-----------------------------------------------------------------------------
(***************************************************************************)
(* Reviews: the reviews of a product (ReviewService).                      *)
(***************************************************************************)
\* Finite sets are those of the library.
LEMMA ReviewingCounts ==
    \A S : /\ Reviewing!Cardinality(S) = Cardinality(S)
           /\ Reviewing!IsFiniteSet(S) <=> IsFiniteSet(S)
  BY DEF Reviewing!Cardinality, Cardinality, Reviewing!IsFiniteSet, IsFiniteSet

\* So are the sequences of a set.
LEMMA ReviewingOrders == \A S : Reviewing!SetToSeqs(S) = SetToSeqs(S)
  BY ReviewingCounts DEF Reviewing!SetToSeqs, SetToSeqs

ReviewingAssumption == Reviewing!NumberAssumption /\ Reviewing!NullAssumption

ReviewingWalks == [sort : Reviewing!Sorts, cursor : Reviews \cup {Null}, shown : Seq(Reviews),
          ended : BOOLEAN, due : SUBSET Reviews]
ReviewingWalking ==
    /\ review \in [Reviews -> Reviewing!Review \cup {Null}]
    /\ reply \in [Replies -> Reviewing!Reply \cup {Null}]
    /\ replying \in [review : Reviews, user : Users] \cup {Null}
    /\ walk # Null => walk \in ReviewingWalks

\* Review i stands in s.
ReviewingStands(s, i) == \E n \in 1 .. Len(s) : s[n] = i

\* What a walk has shown lies up to its cursor, what is due lies there or beyond.
ReviewingShownSoFar(w) ==
    /\ \A m, n \in 1 .. Len(w.shown) : w.shown[m] = w.shown[n] => m = n
    /\ \A n \in 1 .. Len(w.shown) : review[w.shown[n]] # Null
    /\ w.cursor = Null => w.ended \/ w.shown = <<>>
    /\ w.cursor # Null =>
          /\ review[w.cursor] # Null
          /\ \A n \in 1 .. Len(w.shown) :
                w.shown[n] = w.cursor \/ Reviewing!Before(w.sort, w.shown[n], w.cursor)

ReviewingDueAhead(w) ==
    /\ \A i \in w.due : Reviewing!Shown(i)
    /\ w.ended => \A i \in w.due : ReviewingStands(w.shown, i)
    /\ ~ w.ended /\ w.cursor # Null =>
          \A i \in w.due : ReviewingStands(w.shown, i) \/ Reviewing!Before(w.sort, w.cursor, i)

ReviewingIInv == ReviewingWalking /\ (walk # Null => ReviewingShownSoFar(walk) /\ ReviewingDueAhead(walk))
-----------------------------------------------------------------------------
\* The order of a list is strict.
LEMMA ReviewingStrict ==
    ASSUME ReviewingAssumption, ReviewingWalking, NEW s \in Reviewing!Sorts,
           NEW i \in Reviews, NEW j \in Reviews, NEW k \in Reviews,
           review[i] # Null, review[j] # Null, review[k] # Null
    PROVE  /\ ~ Reviewing!Before(s, i, i)
           /\ Reviewing!Before(s, i, j) /\ Reviewing!Before(s, j, k) => Reviewing!Before(s, i, k)
<1>1. i \in Int /\ j \in Int /\ k \in Int
  BY DEF ReviewingAssumption, Reviewing!NumberAssumption
<1>2. review[i].rating \in Int /\ review[j].rating \in Int /\ review[k].rating \in Int
  BY DEF ReviewingWalking, Reviewing!Review, ReviewingAssumption, Reviewing!NumberAssumption
<1> QED BY <1>1, <1>2 DEF Reviewing!Before, Reviewing!Less

\* Rows come and are marked; what was before another row stays before it.
LEMMA ReviewingKept ==
    ASSUME ReviewingWalking, walk # Null, ReviewingShownSoFar(walk), ReviewingDueAhead(walk),
           walk' \in ReviewingWalks,
           review' \in [Reviews -> Reviewing!Review \cup {Null}],
           \A i \in Reviews : review[i] # Null =>
               review'[i] # Null /\ review'[i].rating = review[i].rating,
           walk'.sort = walk.sort, walk'.cursor = walk.cursor, walk'.shown = walk.shown,
           walk'.ended = walk.ended, walk'.due \subseteq walk.due,
           \A i \in walk'.due : Reviewing!Shown(i)'
    PROVE  (ReviewingShownSoFar(walk) /\ ReviewingDueAhead(walk))'
<1>0. walk \in ReviewingWalks
  BY DEF ReviewingWalking
<1>1. /\ walk.shown \in Seq(Reviews) /\ walk.cursor \in Reviews \cup {Null}
      /\ walk.due \subseteq Reviews /\ walk'.due \subseteq Reviews
  BY <1>0 DEF ReviewingWalks
<1>2. \A n \in 1 .. Len(walk.shown) : walk.shown[n] \in Reviews
  BY <1>1
<1>3. \A s : \A i, j \in Reviews :
          review[i] # Null /\ review[j] # Null => (Reviewing!Before(s, i, j)' <=> Reviewing!Before(s, i, j))
  BY DEF Reviewing!Before
<1>4. PICK w, v : w = walk /\ v = walk'
  OBVIOUS
<1>5. ReviewingShownSoFar(w)'
  <2>1. \A n \in 1 .. Len(w.shown) : review[w.shown[n]] # Null /\ review'[w.shown[n]] # Null
    BY <1>2, <1>4 DEF ReviewingShownSoFar
  <2>2. w.cursor # Null => review[w.cursor] # Null /\ review'[w.cursor] # Null
    BY <1>1, <1>4 DEF ReviewingShownSoFar
  <2>3. w.cursor # Null => \A n \in 1 .. Len(w.shown) :
            w.shown[n] = w.cursor \/ Reviewing!Before(w.sort, w.shown[n], w.cursor)'
    BY <1>1, <1>2, <1>3, <1>4, <2>1, <2>2 DEF ReviewingShownSoFar
  <2> QED BY <1>4, <2>1, <2>2, <2>3 DEF ReviewingShownSoFar
<1>6. ReviewingShownSoFar(v)'
  BY <1>4, <1>5 DEF ReviewingShownSoFar
<1>7. ReviewingDueAhead(v)'
  <2>1. \A i \in w.due : review[i] # Null
    BY <1>4 DEF ReviewingDueAhead, Reviewing!Shown
  <2>2. w.cursor # Null => w.cursor \in Reviews /\ review[w.cursor] # Null
    BY <1>1, <1>4 DEF ReviewingShownSoFar
  <2>3. ~ w.ended /\ w.cursor # Null =>
            \A i \in w.due : ReviewingStands(w.shown, i) \/ Reviewing!Before(w.sort, w.cursor, i)'
    BY <1>1, <1>3, <1>4, <2>1, <2>2 DEF ReviewingDueAhead
  <2>4. w.ended => \A i \in w.due : ReviewingStands(w.shown, i)
    BY <1>4 DEF ReviewingDueAhead
  <2> QED BY <1>4, <2>3, <2>4 DEF ReviewingDueAhead
<1> QED BY <1>4, <1>6, <1>7

\* A page: its rows, what is left, and the cursor.
LEMMA ReviewingPageOf ==
    ASSUME ReviewingAssumption, ReviewingWalking, NEW s \in Reviewing!Sorts,
           NEW c \in Reviews \cup {Null},
           NEW list \in Reviewing!Answers(s, c)
    PROVE  LET p == Reviewing!Page(list)
               rest == {i \in Reviews : Reviewing!Shown(i) /\ Reviewing!BeyondCursor(s, c, i)}
           IN  /\ p \in Seq(rest)
               /\ \A m, n \in 1 .. Len(p) : m < n => Reviewing!Before(s, p[m], p[n])
               /\ Reviewing!NextCursor(p) = Null => \A i \in rest : ReviewingStands(p, i)
               /\ Reviewing!NextCursor(p) # Null =>
                     /\ Len(p) > 0 /\ Reviewing!NextCursor(p) = p[Len(p)]
                     /\ \A i \in rest : ReviewingStands(p, i) \/ Reviewing!Before(s, p[Len(p)], i)
<1> DEFINE p == Reviewing!Page(list)
           rest == {i \in Reviews : Reviewing!Shown(i) /\ Reviewing!BeyondCursor(s, c, i)}
<1>0. ReviewLimit \in Nat /\ ReviewLimit > 0 /\ Null \notin rest
  BY DEF ReviewingAssumption, Reviewing!NumberAssumption, Reviewing!NullAssumption
<1>1. Reviewing!IsFiniteSet(rest)
  <2>1. rest \subseteq Reviews /\ Reviewing!IsFiniteSet(Reviews)
    BY DEF ReviewingAssumption, Reviewing!NumberAssumption
  <2> QED BY ReviewingCounts, <2>1, FS_Subset
<1>2. /\ list \in Seq(rest)
      /\ \A x \in rest : \E n \in 1 .. Len(list) : list[n] = x
      /\ \A m, n \in DOMAIN list : m < n => Reviewing!Before(s, list[m], list[n])
  BY ReviewingOrders, ReviewingCounts, <1>1, Enumerated DEF Reviewing!Answers, Enumerates
<1> HIDE DEF rest
<1>3. PICK l : l = IF Len(list) < ReviewLimit THEN Len(list) ELSE ReviewLimit
  OBVIOUS
<1>4. Len(list) \in Nat /\ l \in 0 .. Len(list) /\ DOMAIN list = 1 .. Len(list)
  BY <1>0, <1>2, <1>3
<1>5. p \in Seq(rest) /\ Len(p) = l /\ \A n \in 1 .. l : p[n] = list[n]
  <2>1. p = SubSeq(list, 1, l)
    BY <1>3 DEF Reviewing!Page
  <2> QED BY <1>2, <1>4, <2>1
<1> HIDE DEF p
<1>6. \A m, n \in 1 .. Len(p) : m < n => Reviewing!Before(s, p[m], p[n])
  BY <1>2, <1>4, <1>5
<1>7. CASE l = ReviewLimit
  <2>1. l > 0 /\ l \in 1 .. Len(p) /\ p[l] \in rest
    BY <1>0, <1>5, <1>7
  <2>2. Reviewing!NextCursor(p) = p[l] /\ Reviewing!NextCursor(p) # Null
    BY <1>0, <1>5, <1>7, <2>1 DEF Reviewing!NextCursor, Reviewing!Last
  <2>3. \A i \in rest : ReviewingStands(p, i) \/ Reviewing!Before(s, p[Len(p)], i)
    <3> SUFFICES ASSUME NEW i \in rest
                 PROVE  ReviewingStands(p, i) \/ Reviewing!Before(s, p[Len(p)], i)
      OBVIOUS
    <3>1. PICK n \in 1 .. Len(list) : list[n] = i
      BY <1>2
    <3>2. CASE n <= l
      BY <1>4, <1>5, <3>1, <3>2 DEF ReviewingStands
    <3>3. CASE l < n
      BY <1>2, <1>4, <1>5, <2>1, <3>1, <3>3
    <3> QED BY <1>4, <3>1, <3>2, <3>3
  <2> QED BY <1>5, <1>6, <2>1, <2>2, <2>3 DEF p, rest
<1>8. CASE l # ReviewLimit
  <2>1. l = Len(list) /\ Reviewing!NextCursor(p) = Null
    BY <1>3, <1>5, <1>8 DEF Reviewing!NextCursor
  <2>2. \A i \in rest : ReviewingStands(p, i)
    BY <1>2, <1>5, <2>1 DEF ReviewingStands
  <2> QED BY <1>5, <1>6, <2>1, <2>2 DEF p, rest
<1> QED BY <1>7, <1>8

\* A page is shown.
LEMMA ReviewingWalkStep ==
    ASSUME ReviewingAssumption, ReviewingIInv, Reviewing!GetProductReviewsByCursor
    PROVE  ReviewingIInv'
<1>1. PICK w, c, s : w = walk /\ c = walk.cursor /\ s = walk.sort
  OBVIOUS
<1>2. PICK list \in Reviewing!Answers(s, c) :
          walk' = [w EXCEPT !.shown = @ \o Reviewing!Page(list), !.cursor = Reviewing!NextCursor(Reviewing!Page(list)),
                            !.ended = Reviewing!NextCursor(Reviewing!Page(list)) = Null]
  BY <1>1 DEF Reviewing!GetProductReviewsByCursor
<1>3. /\ w \in ReviewingWalks /\ w # Null /\ ~ w.ended /\ w.cursor = c /\ w.sort = s
      /\ ReviewingShownSoFar(w) /\ ReviewingDueAhead(w) /\ ReviewingWalking
  BY <1>1 DEF ReviewingIInv, ReviewingWalking, Reviewing!GetProductReviewsByCursor
<1>4. s \in Reviewing!Sorts /\ c \in Reviews \cup {Null} /\ w.shown \in Seq(Reviews) /\
        w.due \subseteq Reviews
  BY <1>3 DEF ReviewingWalks
<1>5. review' = review /\ reply' = reply /\ replying' = replying
  BY DEF Reviewing!GetProductReviewsByCursor
<1>6. PICK p, next : p = Reviewing!Page(list) /\ next = Reviewing!NextCursor(Reviewing!Page(list))
  OBVIOUS
<1>7. PICK rest : rest = {i \in Reviews : Reviewing!Shown(i) /\ Reviewing!BeyondCursor(s, c, i)}
  OBVIOUS
<1>8. /\ p \in Seq(rest)
      /\ \A m, n \in 1 .. Len(p) : m < n => Reviewing!Before(s, p[m], p[n])
      /\ next = Null => \A i \in rest : ReviewingStands(p, i)
      /\ next # Null => /\ Len(p) > 0 /\ next = p[Len(p)]
                        /\ \A i \in rest : ReviewingStands(p, i) \/ Reviewing!Before(s, p[Len(p)], i)
  BY <1>2, <1>3, <1>4, <1>6, <1>7, ReviewingPageOf
<1>9. PICK t, d : t = w.shown /\ d = w.due
  OBVIOUS
<1>10. PICK all : all = t \o p
  OBVIOUS
<1>11. /\ Len(t) \in Nat /\ Len(p) \in Nat /\ t \in Seq(Reviews) /\ p \in Seq(Reviews)
       /\ rest \subseteq Reviews
       /\ \A i \in rest : Reviewing!Shown(i) /\ review[i] # Null /\ (c = Null \/ Reviewing!Before(s, c, i))
       /\ \A n \in 1 .. Len(p) : p[n] \in rest
  <2>1. rest \subseteq Reviews /\ \A i \in rest : Reviewing!Shown(i) /\ review[i] # Null /\
          (c = Null \/ Reviewing!Before(s, c, i))
    BY <1>7 DEF Reviewing!Shown, Reviewing!BeyondCursor
  <2>2. p \in Seq(rest) /\ t \in Seq(Reviews)
    BY <1>4, <1>8, <1>9
  <2> QED BY <2>1, <2>2
<1>12. /\ all \in Seq(Reviews) /\ Len(all) = Len(t) + Len(p)
       /\ \A n \in 1 .. Len(t) : all[n] = t[n] /\ n \in 1 .. Len(all)
       /\ \A n \in 1 .. Len(p) : all[Len(t) + n] = p[n] /\ Len(t) + n \in 1 .. Len(all)
       /\ \A n \in 1 .. Len(all) : n \in 1 .. Len(t) \/ (n - Len(t) \in 1 .. Len(p) /\ all[n] = p[n - Len(t)])
  BY <1>10, <1>11
<1>13. /\ walk' \in ReviewingWalks
       /\ walk'.shown = all /\ walk'.cursor = next /\ walk'.ended = (next = Null)
       /\ walk'.sort = s /\ walk'.due = d
  <2>1. walk' = [w EXCEPT !.shown = all, !.cursor = next, !.ended = (next = Null)]
    BY <1>2, <1>6, <1>9, <1>10
  <2>2. next \in Reviews \cup {Null}
    BY <1>8, <1>11
  <2>3. walk' \in ReviewingWalks
    BY <1>3, <1>12, <2>1, <2>2 DEF ReviewingWalks
  <2>4. walk'.shown = all /\ walk'.cursor = next /\ walk'.ended = (next = Null) /\ walk'.sort = s /\
          walk'.due = d
    BY <1>3, <1>9, <2>1 DEF ReviewingWalks
  <2> QED BY <2>3, <2>4
<1>14. /\ \A n \in 1 .. Len(t) : t[n] \in Reviews /\ review[t[n]] # Null
       /\ \A m, n \in 1 .. Len(t) : t[m] = t[n] => m = n
       /\ c = Null => Len(t) = 0
       /\ c # Null => /\ review[c] # Null /\ c \in Reviews
                      /\ \A n \in 1 .. Len(t) : t[n] = c \/ Reviewing!Before(s, t[n], c)
  BY <1>3, <1>4, <1>9 DEF ReviewingShownSoFar
<1>15. \A m \in 1 .. Len(t), n \in 1 .. Len(p) : Reviewing!Before(s, t[m], p[n])
  <2> SUFFICES ASSUME NEW m \in 1 .. Len(t), NEW n \in 1 .. Len(p)
               PROVE  Reviewing!Before(s, t[m], p[n])
    OBVIOUS
  <2>1. c # Null /\ (t[m] = c \/ Reviewing!Before(s, t[m], c)) /\ Reviewing!Before(s, c, p[n])
    BY <1>11, <1>14
  <2> QED BY <1>3, <1>4, <1>11, <1>14, <2>1, ReviewingStrict
<1>16. \A m, n \in 1 .. Len(all) : m < n => Reviewing!Before(s, all[m], all[n]) \/
         (m \in 1 .. Len(t) /\ n \in 1 .. Len(t))
  <2> SUFFICES ASSUME NEW m \in 1 .. Len(all), NEW n \in 1 .. Len(all), m < n, n \notin 1 .. Len(t)
               PROVE  Reviewing!Before(s, all[m], all[n])
    BY <1>11
  <2>1. n - Len(t) \in 1 .. Len(p) /\ all[n] = p[n - Len(t)]
    BY <1>12
  <2>2. CASE m \in 1 .. Len(t)
    BY <1>12, <1>15, <2>1, <2>2
  <2>3. CASE m \notin 1 .. Len(t)
    <3>1. m - Len(t) \in 1 .. Len(p) /\ all[m] = p[m - Len(t)]
      BY <1>12, <2>3
    <3>2. m - Len(t) < n - Len(t)
      BY <1>11, <1>12
    <3> QED BY <1>8, <2>1, <3>1, <3>2
  <2> QED BY <2>2, <2>3
<1>17. \A n \in 1 .. Len(all) : all[n] \in Reviews /\ review[all[n]] # Null
  BY <1>11, <1>12, <1>14
<1>18. \A m, n \in 1 .. Len(all) : all[m] = all[n] => m = n
  <2> SUFFICES ASSUME NEW m \in 1 .. Len(all), NEW n \in 1 .. Len(all), m < n
               PROVE  all[m] # all[n]
    BY <1>11, <1>12
  <2>1. CASE Reviewing!Before(s, all[m], all[n])
    BY <1>3, <1>4, <1>17, <2>1, ReviewingStrict
  <2>2. CASE m \in 1 .. Len(t) /\ n \in 1 .. Len(t)
    BY <1>12, <1>14, <2>2
  <2> QED BY <1>16, <2>1, <2>2
<1>19. next # Null => /\ next \in Reviews /\ review[next] # Null /\ next = all[Len(all)] /\
                           Len(all) \in 1 .. Len(all)
                      /\ \A n \in 1 .. Len(all) : all[n] = next \/ Reviewing!Before(s, all[n], next)
  <2> SUFFICES ASSUME next # Null
               PROVE  /\ next \in Reviews /\ review[next] # Null /\ next = all[Len(all)] /\
                           Len(all) \in 1 .. Len(all)
                      /\ \A n \in 1 .. Len(all) : all[n] = next \/ Reviewing!Before(s, all[n], next)
    OBVIOUS
  <2>1. Len(p) \in 1 .. Len(p) /\ next = p[Len(p)] /\ next = all[Len(all)] /\
          Len(all) \in 1 .. Len(all) /\ Len(all) > Len(t)
    BY <1>8, <1>11, <1>12
  <2>2. \A n \in 1 .. Len(all) : n = Len(all) \/ n < Len(all)
    BY <1>12, <1>11
  <2>3. Len(all) \notin 1 .. Len(t)
    BY <1>11, <1>12, <2>1
  <2> QED BY <1>16, <1>17, <2>1, <2>2, <2>3
<1>20. \A i \in Reviews : ReviewingStands(t, i) \/ ReviewingStands(p, i) => ReviewingStands(all, i)
  BY <1>12 DEF ReviewingStands
<1>21. \A i \in d : Reviewing!Shown(i) /\ i \in Reviews /\ (ReviewingStands(t, i) \/ i \in rest)
  <2> SUFFICES ASSUME NEW i \in d
               PROVE  Reviewing!Shown(i) /\ i \in Reviews /\ (ReviewingStands(t, i) \/ i \in rest)
    OBVIOUS
  <2>1. Reviewing!Shown(i) /\ i \in Reviews /\
          (c = Null \/ ReviewingStands(t, i) \/ Reviewing!Before(s, c, i))
    BY <1>3, <1>4, <1>9 DEF ReviewingDueAhead
  <2> QED BY <1>7, <2>1 DEF Reviewing!BeyondCursor
<1>22. next = Null => \A i \in d : ReviewingStands(all, i)
  BY <1>8, <1>20, <1>21
<1>23. next # Null => \A i \in d : ReviewingStands(all, i) \/ Reviewing!Before(s, next, i)
  BY <1>8, <1>20, <1>21
<1>24. \A i, j : Reviewing!Before(s, i, j)' <=> Reviewing!Before(s, i, j)
  BY <1>5 DEF Reviewing!Before
<1>25. \A i : Reviewing!Shown(i)' <=> Reviewing!Shown(i)
  BY <1>5 DEF Reviewing!Shown
<1>26. PICK v : v = walk'
  OBVIOUS
<1>27. ReviewingShownSoFar(v)'
  BY <1>5, <1>13, <1>17, <1>18, <1>19, <1>24, <1>26 DEF ReviewingShownSoFar
<1>28. ReviewingDueAhead(v)'
  BY <1>13, <1>21, <1>22, <1>23, <1>24, <1>25, <1>26 DEF ReviewingDueAhead
<1>29. (ReviewingShownSoFar(walk) /\ ReviewingDueAhead(walk))'
  BY <1>26, <1>27, <1>28
<1>30. ReviewingWalking'
  BY <1>3, <1>5, <1>13 DEF ReviewingWalking
<1> QED BY <1>29, <1>30 DEF ReviewingIInv

\* The initial states satisfy the invariant.
LEMMA ReviewingInitial == ASSUME Reviewing!Init PROVE ReviewingIInv
  BY DEF Reviewing!Init, ReviewingIInv, ReviewingWalking

\* Every step keeps the invariant.
LEMMA ReviewingStep ==
    ASSUME ReviewingAssumption, ReviewingIInv, [Reviewing!Next]_(Reviewing!vars)
    PROVE  ReviewingIInv'
<1>1. ASSUME NEW i \in Reviews, NEW u \in Users, NEW r \in Ratings, Reviewing!CreateReview(i, u, r)
      PROVE  ReviewingIInv'
  <2>1. PICK item : item = [rating |-> r, user |-> u, is_deleted |-> FALSE]
    OBVIOUS
  <2>2. item \in Reviewing!Review /\ item # Null
    <3>1. item \in Reviewing!Review
      BY <1>1, <2>1 DEF Reviewing!Review
    <3>2. Null \notin Reviewing!Review
      BY DEF ReviewingAssumption, Reviewing!NullAssumption
    <3> QED BY <3>1, <3>2
  <2>3. review' = [review EXCEPT ![i] = item] /\ review[i] = Null /\ walk' = walk /\
          reply' = reply /\ replying' = replying
    BY <1>1, <2>1 DEF Reviewing!CreateReview
  <2>4. review' \in [Reviews -> Reviewing!Review \cup {Null}] /\ ReviewingWalking'
    BY <2>2, <2>3 DEF ReviewingIInv, ReviewingWalking
  <2>5. \A j \in Reviews : review[j] # Null => review'[j] = review[j]
    BY <2>3 DEF ReviewingIInv, ReviewingWalking
  <2>6. walk # Null => walk.due \subseteq Reviews /\ \A j \in walk.due : Reviewing!Shown(j)'
    <3>1. walk # Null => walk \in ReviewingWalks /\ \A j \in walk.due : Reviewing!Shown(j)
      BY DEF ReviewingIInv, ReviewingWalking, ReviewingDueAhead
    <3>2. walk # Null => walk.due \subseteq Reviews
      BY <3>1 DEF ReviewingWalks
    <3> QED BY <2>5, <3>1, <3>2 DEF Reviewing!Shown
  <2>7. walk # Null => (ReviewingShownSoFar(walk) /\ ReviewingDueAhead(walk))'
    <3> SUFFICES ASSUME walk # Null PROVE (ReviewingShownSoFar(walk) /\ ReviewingDueAhead(walk))'
      OBVIOUS
    <3>1. ReviewingWalking /\ ReviewingShownSoFar(walk) /\ ReviewingDueAhead(walk) /\ walk' \in ReviewingWalks
      BY <2>3 DEF ReviewingIInv, ReviewingWalking
    <3>2. \A j \in Reviews : review[j] # Null => review'[j] # Null /\ review'[j].rating = review[j].rating
      BY <2>5
    <3>3. \A j \in walk'.due : Reviewing!Shown(j)'
      BY <2>3, <2>6
    <3> QED BY <2>3, <2>4, <3>1, <3>2, <3>3, ReviewingKept
  <2> QED BY <2>3, <2>4, <2>7 DEF ReviewingIInv
<1>2. ASSUME NEW i \in Reviews, NEW u \in Users, Reviewing!DeleteReview(i, u) PROVE ReviewingIInv'
  <2>1. PICK item : item = [review[i] EXCEPT !.is_deleted = TRUE]
    OBVIOUS
  <2>2. review[i] \in Reviewing!Review /\ review[i] # Null
    BY <1>2 DEF Reviewing!DeleteReview, ReviewingIInv, ReviewingWalking
  <2>3. item \in Reviewing!Review /\ item # Null /\ item.rating = review[i].rating
    BY <2>1, <2>2 DEF Reviewing!Review, ReviewingAssumption, Reviewing!NullAssumption
  <2>4. review' = [review EXCEPT ![i] = item] /\ reply' = reply /\ replying' = replying
    BY <1>2, <2>1 DEF Reviewing!DeleteReview
  <2>5. review' \in [Reviews -> Reviewing!Review \cup {Null}]
    BY <2>3, <2>4 DEF ReviewingIInv, ReviewingWalking
  <2>6. \A j \in Reviews : review[j] # Null => review'[j] # Null /\ review'[j].rating = review[j].rating
    BY <2>3, <2>4 DEF ReviewingIInv, ReviewingWalking
  <2>7. CASE walk = Null
    BY <1>2, <2>4, <2>5, <2>7 DEF Reviewing!DeleteReview, ReviewingIInv, ReviewingWalking
  <2>8. CASE walk # Null
    <3>1. walk' = [walk EXCEPT !.due = @ \ {i}] /\ walk \in ReviewingWalks /\ ReviewingWalking /\
            ReviewingShownSoFar(walk) /\ ReviewingDueAhead(walk)
      BY <1>2, <2>8 DEF Reviewing!DeleteReview, ReviewingIInv, ReviewingWalking
    <3>2. /\ walk' \in ReviewingWalks /\ walk'.due = walk.due \ {i} /\ walk'.sort = walk.sort
          /\ walk'.cursor = walk.cursor /\ walk'.shown = walk.shown /\ walk'.ended = walk.ended
          /\ walk.due \subseteq Reviews
      BY <3>1 DEF ReviewingWalks
    <3>3. \A j \in walk'.due : Reviewing!Shown(j)'
      <4>1. \A j \in walk'.due : Reviewing!Shown(j) /\ review'[j] = review[j]
        BY <2>4, <3>1, <3>2 DEF ReviewingDueAhead, ReviewingIInv, ReviewingWalking
      <4> QED BY <4>1 DEF Reviewing!Shown
    <3>4. (ReviewingShownSoFar(walk) /\ ReviewingDueAhead(walk))'
      BY <2>5, <2>6, <2>8, <3>1, <3>2, <3>3, ReviewingKept
    <3> QED BY <2>4, <2>5, <3>1, <3>2, <3>4 DEF ReviewingIInv, ReviewingWalking
  <2> QED BY <2>7, <2>8
<1>3. ASSUME review' = review, walk' = walk, reply' \in [Replies -> Reviewing!Reply \cup {Null}],
             replying' \in [review : Reviews, user : Users] \cup {Null}
      PROVE  ReviewingIInv'
  <2>1. PICK w : w = walk
    OBVIOUS
  <2>2. walk # Null => ReviewingShownSoFar(w) /\ ReviewingDueAhead(w)
    BY <2>1 DEF ReviewingIInv
  <2>3. (ReviewingShownSoFar(w)' <=> ReviewingShownSoFar(w)) /\
          (ReviewingDueAhead(w)' <=> ReviewingDueAhead(w))
    BY <1>3 DEF ReviewingShownSoFar, ReviewingDueAhead, Reviewing!Before, Reviewing!Shown
  <2>4. walk # Null => (ReviewingShownSoFar(walk) /\ ReviewingDueAhead(walk))'
    <3>1. walk # Null => (ReviewingShownSoFar(w) /\ ReviewingDueAhead(w))'
      BY <2>2, <2>3
    <3>2. walk' = w
      BY <1>3, <2>1
    <3> QED BY <3>1, <3>2
  <2> QED BY <1>3, <2>4 DEF ReviewingIInv, ReviewingWalking
<1>4. ASSUME NEW i \in Reviews, NEW u \in Users, Reviewing!FindReview(i, u) PROVE ReviewingIInv'
  BY <1>3, <1>4 DEF Reviewing!FindReview, ReviewingIInv, ReviewingWalking
<1>5. ASSUME NEW n \in Replies, Reviewing!CreateReply(n) PROVE ReviewingIInv'
  <2>1. [review |-> replying.review, user |-> replying.user, is_deleted |-> FALSE] \in Reviewing!Reply
    BY <1>5 DEF Reviewing!CreateReply, ReviewingIInv, ReviewingWalking, Reviewing!Reply
  <2>2. reply' \in [Replies -> Reviewing!Reply \cup {Null}]
    BY <1>5, <2>1 DEF Reviewing!CreateReply, ReviewingIInv, ReviewingWalking
  <2> QED BY <1>3, <1>5, <2>2 DEF Reviewing!CreateReply
<1>6. ASSUME NEW n \in Replies, NEW u \in Users, Reviewing!DeleteReply(n, u) PROVE ReviewingIInv'
  <2>1. [reply[n] EXCEPT !.is_deleted = TRUE] \in Reviewing!Reply
    BY <1>6 DEF Reviewing!DeleteReply, ReviewingIInv, ReviewingWalking, Reviewing!Reply
  <2>2. reply' \in [Replies -> Reviewing!Reply \cup {Null}] /\ replying' = replying
    BY <1>6, <2>1 DEF Reviewing!DeleteReply, ReviewingIInv, ReviewingWalking
  <2> QED BY <1>3, <1>6, <2>2 DEF Reviewing!DeleteReply, ReviewingIInv, ReviewingWalking
<1>7. ASSUME NEW s \in Reviewing!Sorts, Reviewing!Begin(s) PROVE ReviewingIInv'
  <2>1. PICK w : w = [sort |-> s, cursor |-> Null, shown |-> <<>>, ended |-> FALSE,
                      due |-> {i \in Reviews : Reviewing!Shown(i)}]
    OBVIOUS
  <2>2. walk' = w /\ review' = review /\ reply' = reply /\ replying' = replying
    BY <1>7, <2>1 DEF Reviewing!Begin
  <2>3. w \in ReviewingWalks /\ w.shown = <<>> /\ w.cursor = Null /\ w.ended = FALSE /\
          \A i \in w.due : Reviewing!Shown(i)
    BY <2>1 DEF ReviewingWalks
  <2>4. ReviewingShownSoFar(w)' /\ ReviewingDueAhead(w)'
    BY <2>2, <2>3 DEF ReviewingShownSoFar, ReviewingDueAhead, Reviewing!Shown
  <2>5. (ReviewingShownSoFar(walk) /\ ReviewingDueAhead(walk))'
    BY <2>2, <2>4
  <2> QED BY <2>2, <2>3, <2>5 DEF ReviewingIInv, ReviewingWalking
<1>8. CASE UNCHANGED Reviewing!vars
  BY <1>3, <1>8 DEF Reviewing!vars, ReviewingIInv, ReviewingWalking
<1> QED BY <1>1, <1>2, <1>4, <1>5, <1>6, <1>7, <1>8, ReviewingWalkStep DEF Reviewing!Next

\* The invariant implies the promise.
LEMMA ReviewingWalked == ASSUME ReviewingIInv PROVE Reviewing!TypeOK /\ Reviewing!CursorWalkComplete
<1>1. Reviewing!TypeOK
  BY DEF ReviewingIInv, ReviewingWalking, ReviewingWalks, Reviewing!TypeOK
<1>2. Reviewing!CursorWalkComplete
  <2> SUFFICES ASSUME walk # Null
               PROVE  Reviewing!IsInjective(walk.shown) /\
                        (walk.ended => walk.due \subseteq Reviewing!ToSet(walk.shown))
    BY DEF Reviewing!CursorWalkComplete
  <2>1. PICK s, d : s = walk.shown /\ d = walk.due
    OBVIOUS
  <2>2. s \in Seq(Reviews) /\ DOMAIN s = 1 .. Len(s)
    BY <2>1 DEF ReviewingIInv, ReviewingWalking, ReviewingWalks
  <2>3. /\ \A m, n \in 1 .. Len(s) : s[m] = s[n] => m = n
        /\ walk.ended => \A i \in d : \E n \in 1 .. Len(s) : s[n] = i
    BY <2>1 DEF ReviewingIInv, ReviewingShownSoFar, ReviewingDueAhead, ReviewingStands
  <2>4. Reviewing!IsInjective(s)
    BY <2>2, <2>3 DEF Reviewing!IsInjective
  <2>5. walk.ended => d \subseteq Reviewing!ToSet(s)
    BY <2>2, <2>3 DEF Reviewing!ToSet
  <2> QED BY <2>1, <2>4, <2>5
<1> QED BY <1>1, <1>2
-----------------------------------------------------------------------------
\* In its scene a step of the services is one of Reviews.
LEMMA ReviewingSteps ==
    ASSUME scene = "reviews", [Next]_vars
    PROVE  scene' = "reviews" /\ [Reviewing!Next]_(Reviewing!vars)
<1>1. CASE Next
  BY <1>1 DEF Next
<1>2. CASE UNCHANGED vars
  BY <1>2 DEF vars, vReviewing, Reviewing!vars
<1> QED BY <1>1, <1>2

ReviewingHolds == scene = "reviews" => ReviewingIInv

\* The invariant of the scene holds of every behaviour of the services.
LEMMA ReviewingInvariant == Spec => []ReviewingHolds
<1>0. ReviewingAssumption
  BY ServicesAssumption DEF ServicesAssumption, ReviewingAssumption
<1>1. Init => ReviewingHolds
  BY <1>0, ReviewingInitial DEF Init, ReviewingHolds
<1>2. ReviewingHolds /\ [Next]_vars => ReviewingHolds'
  <2> SUFFICES ASSUME ReviewingHolds, [Next]_vars, scene' = "reviews" PROVE ReviewingIInv'
    BY DEF ReviewingHolds
  <2>1. scene = "reviews"
    BY DEF Next, vars
  <2>2. ReviewingIInv /\ [Reviewing!Next]_(Reviewing!vars)
    BY <2>1, ReviewingSteps DEF ReviewingHolds
  <2> QED BY <1>0, <2>2, ReviewingStep
<1> QED BY <1>1, <1>2, PTL DEF Spec
-----------------------------------------------------------------------------
\* Requests for verification reach the auditors they name, each of whom has one
\* profile, however jobs and registrations overlap (AuditService,
\* AuditorProfileService).
THEOREM AssignedAsAsked == Spec => []AssignedAsRequested
<1>1. AssigningHolds => (scene = "auditors" => Assigning!AuditorsAssigned)
  BY AssigningAssigned DEF AssigningHolds
<1>2. AssigningHolds => AssignedAsRequested
  BY <1>1 DEF AssignedAsRequested
<1> QED BY <1>2, AssigningInvariant, PTL

\* When a step fails the others are accounted for: the files of an upload, the farms
\* of a nightly run, the pictures of a log (FileStorageService,
\* TransparencyService, ImageVerificationService).
THEOREM FailuresAreContained == Spec => []PartialFailuresContained
<1>1. StoringHolds => (scene = "files" => Storing!UploadsAccounted)
  BY DEF StoringIInv, StoringHolds
<1>2. ScoringHolds => (scene = "scores" => Scoring!RunScoresAll)
  BY ScoringScoresAll DEF ScoringHolds
<1>3. JudgingHolds => (scene = "pictures" => Judging!SkippedIsJudged)
  BY JudgingJudged DEF JudgingHolds
<1>4. StoringHolds /\ ScoringHolds /\ JudgingHolds => PartialFailuresContained
  BY <1>1, <1>2, <1>3 DEF PartialFailuresContained
<1> QED BY <1>4, StoringInvariant, ScoringInvariant, JudgingInvariant, PTL

\* A client who walks through a list sees every row once: by pages if the list is
\* in one order and at rest, by cursor whatever is written (applyPagination,
\* ReviewService).
THEOREM WalksAreComplete == Spec => []WalksComplete
<1>1. ListingHolds => (scene = "list" => Listing!OffsetWalkComplete)
  BY ListingWalked DEF ListingHolds
<1>2. ReviewingHolds => (scene = "reviews" => Reviewing!CursorWalkComplete)
  BY ReviewingWalked DEF ReviewingHolds
<1>3. ListingHolds /\ ReviewingHolds => WalksComplete
  BY <1>1, <1>2 DEF WalksComplete
<1> QED BY <1>3, ListingInvariant, ReviewingInvariant, PTL

\* The variables of every service keep their types.
THEOREM TypeCorrect == Spec => []TypeOK
<1>1. RegisteringHolds => (scene = "registration" => Registering!TypeOK)
  BY DEF RegisteringIInv, RegisteringHolds
<1>2. OnboardingHolds => (scene = "farm" => Onboarding!TypeOK)
  BY DEF OnboardingIInv, OnboardingHolds
<1>3. ScanningHolds => (scene = "qr" => Scanning!TypeOK)
  BY DEF ScanningIInv, ScanningHolds
<1>4. AddressingHolds => (scene = "address" => Addressing!TypeOK)
  BY DEF AddressingIInv, AddressingHolds
<1>5. PlantingHolds => (scene = "plot" => Planting!TypeOK)
  BY DEF PlantingIInv, PlantingHolds
<1>6. LocatingHolds => (scene = "locations" => Locating!TypeOK)
  BY DEF LocatingIInv, LocatingHolds
<1>7. RequestingHolds => (scene = "requests" => Requesting!TypeOK)
  BY DEF RequestingIInv, RequestingHolds
<1>8. ListingHolds => (scene = "list" => Listing!TypeOK)
  BY ListingWalked DEF ListingHolds
<1>9. ReviewingHolds => (scene = "reviews" => Reviewing!TypeOK)
  BY ReviewingWalked DEF ReviewingHolds
<1>10. AssigningHolds => (scene = "auditors" => Assigning!TypeOK)
  BY DEF AssigningIInv, AssigningHolds
<1>11. StoringHolds => (scene = "files" => Storing!TypeOK)
  BY DEF StoringIInv, StoringHolds
<1>12. LinkingHolds => (scene = "links" => Linking!TypeOK)
  BY DEF LinkingIInv, LinkingHolds
<1>13. JudgingHolds => (scene = "pictures" => Judging!TypeOK)
  BY DEF JudgingIInv, JudgingHolds
<1>14. TrackingHolds => (scene = "tracking" => Tracking!TypeOK)
  BY DEF TrackingIInv, TrackingHolds
<1>15. ChargingHolds => (scene = "amounts" => Charging!TypeOK)
  BY ServicesAssumption, ChargingCharged DEF ServicesAssumption, ChargingAssumption, ChargingHolds
<1>16. ScoringHolds => (scene = "scores" => Scoring!TypeOK)
  BY DEF ScoringIInv, ScoringHolds
<1>17. /\ RegisteringHolds
       /\ OnboardingHolds
       /\ ScanningHolds
       /\ AddressingHolds
       /\ PlantingHolds
       /\ LocatingHolds
       /\ RequestingHolds
       /\ ListingHolds
       /\ ReviewingHolds
       /\ AssigningHolds
       /\ StoringHolds
       /\ LinkingHolds
       /\ JudgingHolds
       /\ TrackingHolds
       /\ ChargingHolds
       /\ ScoringHolds
      => TypeOK
  BY <1>1, <1>2, <1>3, <1>4, <1>5, <1>6, <1>7, <1>8, <1>9, <1>10, <1>11, <1>12, <1>13, <1>14, <1>15,
    <1>16 DEF TypeOK
<1> QED BY <1>17, RegisteringInvariant, OnboardingInvariant, ScanningInvariant, AddressingInvariant,
  PlantingInvariant, LocatingInvariant, RequestingInvariant, ListingInvariant, ReviewingInvariant,
  AssigningInvariant, StoringInvariant, LinkingInvariant, JudgingInvariant, TrackingInvariant,
  ChargingInvariant, ScoringInvariant, PTL
=============================================================================
