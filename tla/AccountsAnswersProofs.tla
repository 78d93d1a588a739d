------------------------ MODULE AccountsAnswersProofs -----------------------
(***************************************************************************)
(* Proofs about accounts, farms, QR codes, addresses and seasons, and      *)
(* about what other systems answer: the codes and shipments of GHN, the    *)
(* payments of PayOS, the hashes on the chain, and the amounts GHN         *)
(* collects. Of each scene an invariant every step keeps, and the promise  *)
(* that follows from it.                                                   *)
(***************************************************************************)
EXTENDS Services, Sequences, FiniteSetsExt, FiniteSums

\* A set of one element at most.
LEMMA AtMostOne == ASSUME NEW S, \A x, y \in S : x = y PROVE Cardinality(S) <= 1
<1>1. CASE S = {}
  BY <1>1, FS_EmptySet
<1>2. CASE S # {}
  <2>1. PICK x \in S : S = {x}
    BY <1>2
  <2> QED BY <2>1, FS_Singleton
<1> QED BY <1>1, <1>2
-----------------------------------------------------------------------------
(***************************************************************************)
(* Registration: the verification codes and the accounts                   *)
(* (VerificationService, AuthService).                                     *)
(***************************************************************************)
\* A contact has one row at most, which counts the codes asked for; a send in
\* flight for it is alone, and has read the row as it is.
RegisteringCodesOf(c) ==
    /\ sent[c] <= MaxCodes
    /\ Registering!RowsOf(c) = {} => sent[c] = 0
    /\ \A i, j \in Registering!RowsOf(c) : row[i].count = sent[c] /\ i = j
    /\ \A k \in Calls : call[k].op = "send" /\ call[k].contact = c =>
          /\ call[k].id = Null => Registering!RowsOf(c) = {}
          /\ call[k].id # Null => call[k].id \in Registering!RowsOf(c)
          /\ call[k].count = sent[c] /\ call[k].count < MaxCodes
          /\ \A j \in Calls : call[j].op = "send" /\ call[j].contact = c => j = k

RegisteringCodesCounted == \A c \in Registering!Contacts \ overlapped : RegisteringCodesOf(c)

\* A row never changes its contact, deleted and written back or not.
RegisteringIdsKnown ==
    \A k \in Calls : call[k].op = "send" /\ call[k].id # Null =>
        /\ row[call[k].id] # Null
        /\ Registering!Live(call[k].id) => row[call[k].id].contact = call[k].contact
        /\ \A j \in Calls :
              call[j].op = "send" /\ call[j].id = call[k].id => call[j].contact = call[k].contact

\* A request that an approved row has let through knows the contact of the row,
\* and is the only one at work with it.
RegisteringUses(k) == call[k].op \in {"approved", "reset"}

RegisteringUseKnown(k, i) ==
    /\ row[i] # Null
    /\ Registering!Live(i) => row[i].contact = call[k].by
    /\ \A j \in Calls : call[j].op = "send" /\ call[j].id = i => call[j].contact = call[k].by
    /\ \A j \in Calls : RegisteringUses(j) /\ call[j].id = i =>
          call[j].by = call[k].by /\ (j = k \/ call[k].by \in overlapped)

RegisteringUsesKnown ==
    \A k \in Calls, i \in Verifications :
        RegisteringUses(k) /\ call[k].id = i => RegisteringUseKnown(k, i)

\* A row that has let a request through is deleted, and no save will write it
\* back, nor has another request read it.
RegisteringGone(i) ==
    /\ row[i] # Null
    /\ Registering!Live(i) => row[i].contact \in overlapped
    /\ \A k \in Calls : call[k].op = "send" /\ call[k].id = i => call[k].contact \in overlapped
    /\ \A k \in Calls : RegisteringUses(k) /\ call[k].id = i => call[k].by \in overlapped

RegisteringSpentGone == \A i \in Verifications : i \in spent => RegisteringGone(i)

RegisteringUsedOnce ==
    RegisteringUsesKnown /\ RegisteringSpentGone /\ Registering!ApprovalsUsedOnce

\* What is approved for an address was proven, in a row and in flight, and a
\* request goes on with a contact that it names.
RegisteringApprovedWasProven ==
    /\ \A i \in Verifications : Registering!Live(i) /\ row[i].status = "approved" /\ row[i].contact \in Emails =>
          row[i].contact \in proven
    /\ \A k \in Calls : call[k].op = "send" /\ call[k].status = "approved" /\ call[k].contact \in Emails =>
          call[k].contact \in proven
    /\ \A k \in Calls : call[k].op = "status" /\ call[k].status = "approved" => call[k].email \in proven
    /\ \A k \in Calls : call[k].op \in {"approved", "reset", "spent", "free", "renew"} =>
          /\ call[k].by \in Emails => call[k].by \in proven
          /\ call[k].by \in Registering!Named(call[k].email, call[k].phone)

RegisteringIInv ==
    /\ Registering!TypeOK
    /\ RegisteringCodesCounted
    /\ RegisteringIdsKnown
    /\ RegisteringUsedOnce
    /\ RegisteringApprovedWasProven
    /\ Registering!PasswordsWereApproved

RegisteringAssumption == Registering!MaxAssumption /\ Registering!ContactAssumption /\
    Registering!NullAssumption
-----------------------------------------------------------------------------
\* The initial states satisfy the invariant.
LEMMA RegisteringInitial == ASSUME RegisteringAssumption PROVE Registering!Init => RegisteringIInv
<1> SUFFICES ASSUME Registering!Init PROVE RegisteringIInv
  OBVIOUS
<1>1. Registering!TypeOK
  BY DEF Registering!Init, Registering!TypeOK, Registering!CallRecords, Registering!NoCall,
    Registering!Idle
<1>2. \A i \in Verifications : ~Registering!Live(i)
  BY DEF Registering!Init, Registering!Live
<1>3. \A c \in Registering!Contacts : Registering!RowsOf(c) = {}
  BY <1>2 DEF Registering!RowsOf
<1>4. RegisteringCodesCounted
  BY <1>3 DEF Registering!Init, RegisteringCodesCounted, RegisteringCodesOf, RegisteringAssumption,
    Registering!MaxAssumption, Registering!Idle
<1>5. RegisteringIdsKnown /\ RegisteringApprovedWasProven /\ Registering!PasswordsWereApproved
  BY <1>2 DEF Registering!Init, RegisteringIdsKnown, RegisteringApprovedWasProven,
    Registering!PasswordsWereApproved, Registering!Registered, Registering!Idle
<1>6. RegisteringUsedOnce
  BY DEF Registering!Init, RegisteringUsedOnce, RegisteringUsesKnown, RegisteringSpentGone,
    Registering!ApprovalsUsedOnce, RegisteringUses, Registering!Idle
<1> QED BY <1>1, <1>4, <1>5, <1>6 DEF RegisteringIInv

\* What the fields of a call in flight are, by its op.
LEMMA RegisteringCallShapes ==
    ASSUME Registering!TypeOK, NEW k \in Calls
    PROVE  /\ call[k].op = "none" => call[k] = Registering!Idle
           /\ call[k].op \in {"none", "send", "status", "approved", "reset", "spent", "free", "renew"}
           /\ call[k].op = "send" => /\ call[k].contact \in Registering!Contacts
                                     /\ call[k].id \in Verifications \cup {Null}
                                     /\ call[k].count \in Nat
                                     /\ call[k].status \in Registering!CheckStatus
           /\ call[k].op = "status" => call[k].email \in Emails /\ call[k].status \in Registering!CheckStatus
           /\ call[k].op \in {"approved", "reset"} =>
                  call[k].id \in Verifications
           /\ call[k].op \in {"approved", "spent", "free"} =>
                  /\ call[k].by \in Registering!Contacts
                  /\ call[k].email \in Emails /\ call[k].phone \in Registering!Phones
           /\ call[k].op \in {"reset", "renew"} =>
                  /\ call[k].by \in Registering!Contacts
                  /\ call[k].email \in Emails \cup {Null}
                  /\ call[k].phone \in Registering!Phones \cup {Null}
           /\ call[k].op \in {"spent", "free"} => call[k] \in Registering!RegisterCall
<1>1. call[k] \in Registering!CallRecords
  BY DEF Registering!TypeOK
<1>2. CASE call[k] \in Registering!NoCall
  BY <1>2 DEF Registering!NoCall, Registering!Idle
<1>3. CASE call[k] \in Registering!SendCall
  BY <1>3 DEF Registering!SendCall
<1>4. CASE call[k] \in Registering!StatusCall
  BY <1>4 DEF Registering!StatusCall
<1>5. CASE call[k] \in Registering!ApprovedCall
  BY <1>5 DEF Registering!ApprovedCall
<1>6. CASE call[k] \in Registering!ResetCall
  BY <1>6 DEF Registering!ResetCall
<1>7. CASE call[k] \in Registering!RegisterCall
  BY <1>7 DEF Registering!RegisterCall
<1>8. CASE call[k] \in Registering!RenewCall
  BY <1>8 DEF Registering!RenewCall
<1> QED BY <1>1, <1>2, <1>3, <1>4, <1>5, <1>6, <1>7, <1>8 DEF Registering!CallRecords

\* The record of a handler that is not at work.
LEMMA RegisteringIdleShape == Registering!Idle.op = "none" /\
  Registering!Idle \in Registering!NoCall /\ Registering!Idle \in Registering!CallRecords
  BY DEF Registering!Idle, Registering!NoCall, Registering!CallRecords

\* The fields of a row that is there.
LEMMA RegisteringRowShapes ==
    ASSUME Registering!NullAssumption, Registering!TypeOK, NEW i \in Verifications
    PROVE  /\ Registering!Live(i) <=> row[i] \in Registering!Verification
           /\ Registering!Live(i) => /\ row[i].contact \in Registering!Contacts
                                     /\ row[i].count \in Nat
                                     /\ row[i].status \in Registering!CheckStatus
           /\ Registering!Deleted \notin Registering!Verification /\ Registering!Deleted # Null
<1>1. Registering!Deleted \notin Registering!Verification
  <2>1. Registering!Deleted \in Registering!Verification =>
          Registering!Deleted.contact \in Registering!Contacts
    BY DEF Registering!Verification
  <2> QED BY <2>1 DEF Registering!Deleted, Registering!NullAssumption
<1> QED BY <1>1 DEF Registering!TypeOK, Registering!Live, Registering!NullAssumption,
    Registering!Verification

\* What find answers.
LEMMA RegisteringFound ==
    ASSUME RegisteringAssumption, Registering!TypeOK, NEW k \in Calls,
           NEW c \in Registering!Contacts, Registering!FindRow(k, c)
    PROVE  /\ call[k] = Registering!Idle
           /\ call' = [call EXCEPT ![k] = call'[k]]
           /\ call'[k] \in Registering!SendCall
           /\ call'[k].op = "send" /\ call'[k].contact = c /\ call'[k].count < MaxCodes
           /\ \/ /\ call'[k].id \in Registering!RowsOf(c) /\ call'[k].id # Null
                 /\ call'[k].count = row[call'[k].id].count
                 /\ call'[k].status = row[call'[k].id].status
              \/ /\ call'[k].id = Null /\ Registering!RowsOf(c) = {} /\ call'[k].count = 0
                 /\ c \in Emails => call'[k].status = "pending"
<1> USE DEF Registering!TypeOK
<1>1. ASSUME NEW i \in Registering!RowsOf(c), row[i].count < MaxCodes,
             Registering!Start(k, [op |-> "send", contact |-> c, id |-> i,
                       count |-> row[i].count, status |-> row[i].status])
      PROVE  /\ call[k] = Registering!Idle /\ call' = [call EXCEPT ![k] = call'[k]]
             /\ call'[k] \in Registering!SendCall
             /\ call'[k].op = "send" /\ call'[k].contact = c /\ call'[k].count < MaxCodes
             /\ call'[k].id \in Registering!RowsOf(c) /\ call'[k].id # Null
             /\ call'[k].count = row[call'[k].id].count
             /\ call'[k].status = row[call'[k].id].status
  <2>1. i \in Verifications /\ row[i].count \in Nat /\ row[i].status \in Registering!CheckStatus
    BY RegisteringRowShapes DEF Registering!RowsOf, RegisteringAssumption
  <2>2. [op |-> "send", contact |-> c, id |-> i,
         count |-> row[i].count, status |-> row[i].status] \in Registering!SendCall
    BY <2>1 DEF Registering!SendCall
  <2> QED BY <1>1, <2>1, <2>2 DEF Registering!Start, RegisteringAssumption,
      Registering!NullAssumption
<1>2. ASSUME Registering!RowsOf(c) = {},
             Registering!Start(k, [op |-> "send", contact |-> c, id |-> Null,
                       count |-> 0, status |-> IF c \in Numbers THEN "approved" ELSE "pending"])
      PROVE  /\ call[k] = Registering!Idle /\ call' = [call EXCEPT ![k] = call'[k]]
             /\ call'[k] \in Registering!SendCall
             /\ call'[k].op = "send" /\ call'[k].contact = c /\ call'[k].count < MaxCodes
             /\ call'[k].id = Null /\ Registering!RowsOf(c) = {} /\ call'[k].count = 0
             /\ c \in Emails => call'[k].status = "pending"
  <2>1. [op |-> "send", contact |-> c, id |-> Null,
         count |-> 0, status |-> IF c \in Numbers THEN "approved" ELSE "pending"] \in Registering!SendCall
    BY DEF Registering!SendCall, Registering!CheckStatus
  <2> QED BY <1>2, <2>1 DEF Registering!Start, RegisteringAssumption, Registering!MaxAssumption,
      Registering!ContactAssumption
<1> QED BY <1>1, <1>2 DEF Registering!FindRow

\* What save writes: the row that was read, or a new one.
LEMMA RegisteringSaved ==
    ASSUME RegisteringAssumption, RegisteringIInv, NEW k \in Calls, call[k].op = "send",
           Registering!SaveRow(k)
    PROVE  \E i \in Verifications :
               /\ row' \in [Verifications -> Registering!Verification \cup {Null, Registering!Deleted}]
               /\ row'[i].contact = call[k].contact /\ row'[i].count = call[k].count + 1
               /\ row'[i].status = call[k].status
               /\ row'[i] \in Registering!Verification
               /\ \A j \in Verifications \ {i} : row'[j] = row[j]
               /\ call[k].id # Null => i = call[k].id
               /\ call[k].id = Null => row[i] = Null
<1> USE DEF RegisteringIInv
<1> DEFINE saved == [contact |-> call[k].contact, count |-> call[k].count + 1, status |-> call[k].status]
<1>1. saved \in Registering!Verification
  BY RegisteringCallShapes DEF Registering!Verification
<1>2. CASE call[k].id # Null
  <2>1. call[k].id \in Verifications /\ row' = [row EXCEPT ![call[k].id] = saved]
    BY <1>2, RegisteringCallShapes DEF Registering!SaveRow
  <2> QED BY <1>1, <1>2, <2>1 DEF Registering!TypeOK
<1>3. CASE call[k].id = Null
  <2>1. PICK i \in Verifications : row[i] = Null /\ row' = [row EXCEPT ![i] = saved]
    BY <1>3 DEF Registering!SaveRow
  <2> QED BY <1>1, <1>3, <2>1 DEF Registering!TypeOK
<1> QED BY <1>2, <1>3

\* Every step keeps the types.
LEMMA RegisteringTypeStep ==
    ASSUME RegisteringAssumption, RegisteringIInv, [Registering!Next]_(Registering!vars)
    PROVE  Registering!TypeOK'
<1> USE DEF RegisteringIInv, Registering!TypeOK, Registering!mailVars, Registering!useVars
<1>1. ASSUME NEW k \in Calls, NEW e \in Emails, Registering!ReadForEmail(k, e)
      PROVE  Registering!TypeOK'
  BY <1>1, RegisteringFound DEF Registering!ReadForEmail, Registering!Contacts,
    Registering!CallRecords
<1>2. ASSUME NEW k \in Calls, NEW p \in Registering!Phones, Registering!ReadForPhone(k, p)
      PROVE  Registering!TypeOK'
  <2>1. p.number \in Registering!Contacts
    BY DEF Registering!Phones, Registering!Contacts
  <2> QED BY <1>2, <2>1, RegisteringFound DEF Registering!ReadForPhone, Registering!CallRecords
<1>3. ASSUME NEW k \in Calls, NEW e \in Emails, Registering!CheckCode(k, e)
      PROVE  Registering!TypeOK'
  <2>1. \A s \in Registering!CheckStatus : [op |-> "status", email |-> e, status |-> s] \in Registering!CallRecords
    BY DEF Registering!StatusCall, Registering!CallRecords
  <2> QED BY <1>3, <2>1 DEF Registering!CheckCode, Registering!Start, Registering!CheckStatus,
      Registering!Contacts
<1>4. ASSUME NEW k \in Calls, NEW e \in Emails, NEW p \in Registering!Phones,
             Registering!CheckForAccount(k, e, p)
      PROVE  Registering!TypeOK'
  <2>1. PICK i \in Registering!ApprovedRow(e, p) :
            /\ Registering!Start(k, [op |-> "approved", id |-> i, by |-> row[i].contact,
                                     email |-> e, phone |-> p])
            /\ overlapped' \subseteq overlapped \cup {row[i].contact}
    BY <1>4 DEF Registering!CheckForAccount
  <2>2. i \in Verifications /\ row[i].contact \in Registering!Contacts
    BY RegisteringRowShapes DEF Registering!ApprovedRow, RegisteringAssumption
  <2>3. [op |-> "approved", id |-> i, by |-> row[i].contact, email |-> e, phone |-> p]
            \in Registering!CallRecords
    BY <2>2 DEF Registering!ApprovedCall, Registering!CallRecords
  <2> QED BY <1>4, <2>1, <2>2, <2>3 DEF Registering!CheckForAccount, Registering!Start
<1>5. ASSUME NEW k \in Calls, NEW e \in Emails \cup {Null}, NEW p \in Registering!Phones \cup {Null},
             Registering!CheckForPassword(k, e, p)
      PROVE  Registering!TypeOK'
  <2>1. PICK i \in Registering!ApprovedRow(e, p) :
            /\ Registering!Start(k, [op |-> "reset", id |-> i, by |-> row[i].contact,
                                     email |-> e, phone |-> p])
            /\ overlapped' \subseteq overlapped \cup {row[i].contact}
    BY <1>5 DEF Registering!CheckForPassword
  <2>2. i \in Verifications /\ row[i].contact \in Registering!Contacts
    BY RegisteringRowShapes DEF Registering!ApprovedRow, RegisteringAssumption
  <2>3. [op |-> "reset", id |-> i, by |-> row[i].contact, email |-> e, phone |-> p]
            \in Registering!CallRecords
    BY <2>2 DEF Registering!ResetCall, Registering!CallRecords
  <2> QED BY <1>5, <2>1, <2>2, <2>3 DEF Registering!CheckForPassword, Registering!Start
<1>6. ASSUME NEW k \in Calls, Registering!RefuseUser(k) \/ Registering!Abandon(k)
      PROVE  Registering!TypeOK'
  BY <1>6, RegisteringIdleShape DEF Registering!RefuseUser, Registering!Abandon, Registering!End
<1>7. ASSUME NEW k \in Calls, NEW u \in Users, Registering!InsertUser(k, u)
      PROVE  Registering!TypeOK'
  <2>1. [email |-> call[k].email, phone |-> call[k].phone, by |-> call[k].by] \in Registering!Account
    BY <1>7, RegisteringCallShapes DEF Registering!InsertUser, Registering!Account
  <2> QED BY <1>7, <2>1, RegisteringIdleShape DEF Registering!InsertUser, Registering!End
<1>8. ASSUME NEW k \in Calls, Registering!SendEmail(k) \/ Registering!SendPhone(k)
      PROVE  Registering!TypeOK'
  <2>1. call[k].op = "send" /\ Registering!SaveRow(k) /\ call[k].contact \in Registering!Contacts
    BY <1>8, RegisteringCallShapes DEF Registering!SendEmail, Registering!SendPhone
  <2>2. row' \in [Verifications -> Registering!Verification \cup {Null, Registering!Deleted}]
    BY <2>1, RegisteringSaved
  <2>3. sent' \in [Registering!Contacts -> Nat] /\ call' \in [Calls -> Registering!CallRecords]
    BY <1>8, <2>1, RegisteringIdleShape DEF Registering!SendEmail, Registering!SendPhone,
      Registering!End
  <2> QED BY <1>8, <2>1, <2>2, <2>3 DEF Registering!SendEmail, Registering!SendPhone
<1>9. ASSUME NEW k \in Calls, Registering!SetStatus(k) PROVE Registering!TypeOK'
  <2>1. \A i \in Registering!RowsOf(call[k].email) : [row[i] EXCEPT !.status = call[k].status] \in Registering!Verification
    BY <1>9, RegisteringCallShapes, RegisteringRowShapes DEF Registering!SetStatus,
      Registering!RowsOf, Registering!Verification, RegisteringAssumption
  <2> QED BY <1>9, <2>1, RegisteringIdleShape DEF Registering!SetStatus, Registering!End
<1>10. ASSUME NEW k \in Calls, Registering!Spend(k) PROVE Registering!TypeOK'
  <2>1. /\ call[k].op \in {"approved", "reset"}
        /\ call[k].id \in Verifications /\ call[k].by \in Registering!Contacts
    BY <1>10, RegisteringCallShapes DEF Registering!Spend
  <2>2. /\ sent' \in [Registering!Contacts -> Nat] /\ overlapped' \subseteq Registering!Contacts
        /\ row' \in [Verifications -> Registering!Verification \cup {Null, Registering!Deleted}]
    BY <1>10, <2>1, RegisteringRowShapes DEF Registering!Spend, Registering!DeleteRow,
      RegisteringAssumption
  <2>3. [op |-> IF call[k].op = "reset" THEN "renew" ELSE "spent", by |-> call[k].by,
         email |-> call[k].email, phone |-> call[k].phone] \in Registering!CallRecords
    <3>1. CASE call[k].op = "approved"
      BY <2>1, <3>1, RegisteringCallShapes DEF Registering!RegisterCall, Registering!CallRecords
    <3>2. CASE call[k].op = "reset"
      BY <2>1, <3>2, RegisteringCallShapes DEF Registering!RenewCall, Registering!CallRecords
    <3> QED BY <2>1, <3>1, <3>2
  <2>4. spent' \subseteq Verifications /\ reused' \subseteq Registering!Contacts
    BY <1>10, <2>1 DEF Registering!Spend
  <2> QED BY <1>10, <2>1, <2>2, <2>3, <2>4 DEF Registering!Spend, Registering!Continue
<1>11. ASSUME NEW k \in Calls, Registering!CheckFree(k) PROVE Registering!TypeOK'
  <2>1. [call[k] EXCEPT !.op = "free"] \in Registering!CallRecords
    BY <1>11, RegisteringCallShapes DEF Registering!CheckFree, Registering!RegisterCall,
      Registering!CallRecords
  <2> QED BY <1>11, <2>1, RegisteringIdleShape DEF Registering!CheckFree, Registering!End,
      Registering!Continue
<1>12. ASSUME NEW e \in Emails, Registering!MailCode(e) PROVE Registering!TypeOK'
  BY <1>12 DEF Registering!MailCode
<1>13. ASSUME NEW u \in Users, Registering!StorePreference(u) PROVE Registering!TypeOK'
  BY <1>13 DEF Registering!StorePreference
<1>14. CASE Registering!Cleanup
  BY <1>14 DEF Registering!Cleanup
<1>15. CASE UNCHANGED Registering!vars
  BY <1>15 DEF Registering!vars
<1>16. ASSUME NEW k \in Calls, Registering!UpdatePassword(k) PROVE Registering!TypeOK'
  <2>1. call[k].by \in Registering!Contacts
    BY <1>16, RegisteringCallShapes DEF Registering!UpdatePassword
  <2>2. \A u \in Registering!Registered : [user[u] EXCEPT !.by = call[k].by] \in Registering!Account
    BY <2>1 DEF Registering!Registered, Registering!Account
  <2>3. user' \in [Users -> Registering!Account \cup {Null}] /\ crossed' \subseteq Users
    BY <1>16, <2>2 DEF Registering!UpdatePassword, Registering!AccountsOf, Registering!Registered
  <2> QED BY <1>16, <2>3, RegisteringIdleShape DEF Registering!UpdatePassword, Registering!End
<1> HIDE DEF Registering!TypeOK
<1> QED BY <1>1, <1>2, <1>3, <1>4, <1>5, <1>6, <1>7, <1>8, <1>9, <1>10, <1>11, <1>12, <1>13, <1>14,
    <1>15, <1>16 DEF Registering!Next
-----------------------------------------------------------------------------
\* The codes and the rows they are counted in.
RegisteringCounted == RegisteringCodesCounted /\ RegisteringIdsKnown

\* Rows keep their contacts and counts, and a call goes on as it was or is not a send.
LEMMA RegisteringCountedKeeps ==
    ASSUME RegisteringIInv, sent' = sent, overlapped \subseteq overlapped',
           \A i \in Verifications : /\ row'[i] = Null <=> row[i] = Null
                                    /\ row'[i] = Registering!Deleted <=> row[i] = Registering!Deleted
                                    /\ Registering!Live(i) => row'[i].contact = row[i].contact /\
                                         row'[i].count = row[i].count,
           \A k \in Calls : call'[k] = call[k] \/ call'[k].op # "send"
    PROVE  RegisteringCounted'
<1> USE DEF RegisteringIInv
<1>1. \A i \in Verifications : Registering!Live(i)' <=> Registering!Live(i)
  BY DEF Registering!Live
<1>2. \A c \in Registering!Contacts : Registering!RowsOf(c)' = Registering!RowsOf(c)
  BY <1>1 DEF Registering!RowsOf
<1>3. \A c \in Registering!Contacts : \A i \in Registering!RowsOf(c) : row'[i].count = row[i].count
  BY DEF Registering!RowsOf
<1>4. \A k \in Calls : call'[k].op = "send" => call'[k] = call[k]
  OBVIOUS
<1>5. \A c \in Registering!Contacts : RegisteringCodesOf(c) => RegisteringCodesOf(c)'
  BY <1>2, <1>3, <1>4 DEF RegisteringCodesOf
<1>6. RegisteringIdsKnown'
  <2>1. \A k \in Calls : call[k].op = "send" /\ call[k].id # Null => call[k].id \in Verifications
    BY RegisteringCallShapes
  <2>2. \A i \in Verifications : Registering!Live(i)' => Registering!Live(i) /\
          row'[i].contact = row[i].contact
    BY <1>1
  <2> QED BY <1>4, <2>1, <2>2 DEF RegisteringIdsKnown, Registering!Live
<1> QED BY <1>5, <1>6 DEF RegisteringCounted, RegisteringCodesCounted

\* A request for a code finds its row.
LEMMA RegisteringCountedFind ==
    ASSUME RegisteringAssumption, RegisteringIInv, NEW k \in Calls, NEW c \in Registering!Contacts,
           Registering!FindRow(k, c),
           UNCHANGED <<row, sent>>,
           overlapped' = IF Registering!Sending(c) THEN overlapped \cup {c} ELSE overlapped
    PROVE  RegisteringCounted'
<1> USE DEF RegisteringIInv
<1>1. /\ call[k] = Registering!Idle
      /\ call'[k].op = "send" /\ call'[k].contact = c /\ call'[k].count < MaxCodes
      /\ \A j \in Calls \ {k} : call'[j] = call[j]
      /\ \/ /\ call'[k].id \in Registering!RowsOf(c) /\ call'[k].id # Null
            /\ call'[k].count = row[call'[k].id].count
         \/ call'[k].id = Null /\ Registering!RowsOf(c) = {} /\ call'[k].count = 0
  BY RegisteringFound DEF Registering!TypeOK
<1>2. \A d \in Registering!Contacts : Registering!RowsOf(d)' = Registering!RowsOf(d)
  BY DEF Registering!RowsOf, Registering!Live
<1>3. \A d \in Registering!Contacts \ {c} : RegisteringCodesOf(d) => RegisteringCodesOf(d)'
  BY <1>1, <1>2 DEF RegisteringCodesOf
<1>4. ASSUME c \notin overlapped' PROVE RegisteringCodesOf(c)'
  <2>1. c \notin overlapped /\ \A j \in Calls : ~(call[j].op = "send" /\ call[j].contact = c)
    BY <1>4 DEF Registering!Sending
  <2>2. RegisteringCodesOf(c)
    BY <2>1 DEF RegisteringCodesCounted
  <2> QED BY <1>1, <1>2, <2>1, <2>2 DEF RegisteringCodesOf
<1>5. RegisteringCodesCounted'
  BY <1>3, <1>4 DEF RegisteringCodesCounted
<1>6. RegisteringIdsKnown'
  <2>1. \A i \in Registering!RowsOf(c) : row[i] # Null /\ Registering!Live(i) /\ row[i].contact = c
    BY DEF Registering!RowsOf, Registering!Live
  <2>2. \A i \in Verifications : Registering!Live(i)' <=> Registering!Live(i)
    BY DEF Registering!Live
  <2> QED BY <1>1, <2>1, <2>2 DEF RegisteringIdsKnown, Registering!Live
<1> QED BY <1>5, <1>6 DEF RegisteringCounted

\* A code is sent and counted.
LEMMA RegisteringCountedSend ==
    ASSUME RegisteringAssumption, RegisteringIInv, NEW k \in Calls, call[k].op = "send",
           Registering!SaveRow(k),
           sent' = [sent EXCEPT ![call[k].contact] = @ + 1], Registering!End(k), UNCHANGED overlapped
    PROVE  RegisteringCounted'
<1> USE DEF RegisteringIInv
<1>0. PICK c \in Registering!Contacts : c = call[k].contact
  BY RegisteringCallShapes
<1>1. PICK i \in Verifications : /\ row'[i] \in Registering!Verification
                                 /\ row'[i].contact = c /\ row'[i].count = call[k].count + 1
                                 /\ \A j \in Verifications \ {i} : row'[j] = row[j]
                                 /\ call[k].id # Null => i = call[k].id
                                 /\ call[k].id = Null => row[i] = Null
  BY <1>0, RegisteringSaved
<1>2. /\ call'[k].op = "none" /\ \A j \in Calls \ {k} : call'[j] = call[j]
      /\ sent'[c] = sent[c] + 1 /\ sent[c] \in Nat
      /\ \A d \in Registering!Contacts \ {c} : sent'[d] = sent[d]
  BY <1>0, RegisteringIdleShape DEF Registering!End, Registering!TypeOK
<1>3. Registering!Live(i)' /\ \A j \in Verifications \ {i} : Registering!Live(j)' <=> Registering!Live(j)
  BY <1>1, RegisteringRowShapes DEF Registering!Live, RegisteringAssumption,
    Registering!NullAssumption
<1>4. Registering!Live(i) => row[i].contact = c
  BY <1>0, <1>1 DEF RegisteringIdsKnown, Registering!Live
<1>5. /\ \A d \in Registering!Contacts \ {c} : Registering!RowsOf(d)' = Registering!RowsOf(d) /\
           i \notin Registering!RowsOf(d)
      /\ Registering!RowsOf(c)' = Registering!RowsOf(c) \cup {i}
  BY <1>1, <1>3, <1>4 DEF Registering!RowsOf
<1>6. ASSUME NEW d \in Registering!Contacts \ {c}, RegisteringCodesOf(d)
      PROVE  RegisteringCodesOf(d)'
  <2>1. \A j \in Registering!RowsOf(d) : row'[j] = row[j]
    BY <1>1, <1>5 DEF Registering!RowsOf
  <2> QED BY <1>2, <1>5, <1>6, <2>1 DEF RegisteringCodesOf
<1>7. ASSUME c \notin overlapped PROVE RegisteringCodesOf(c)'
  <2>1. RegisteringCodesOf(c)
    BY <1>7 DEF RegisteringCodesCounted
  <2>2. Registering!RowsOf(c)' = {i}
    BY <1>0, <1>1, <1>5, <2>1 DEF RegisteringCodesOf
  <2>3. call[k].count = sent[c] /\ call[k].count < MaxCodes /\ sent[c] \in Nat
    BY <1>0, <1>2, <2>1 DEF RegisteringCodesOf
  <2>4. row'[i].count = sent'[c] /\ sent'[c] <= MaxCodes
    BY <1>1, <1>2, <2>3 DEF RegisteringAssumption, Registering!MaxAssumption
  <2>5. \A j \in Calls : ~(call'[j].op = "send" /\ call'[j].contact = c)
    BY <1>0, <1>2, <2>1 DEF RegisteringCodesOf
  <2> QED BY <2>2, <2>4, <2>5 DEF RegisteringCodesOf
<1>8. RegisteringCodesCounted'
  BY <1>6, <1>7 DEF RegisteringCodesCounted
<1>9. RegisteringIdsKnown'
  <2>1. row'[i] # Null
    BY <1>1 DEF RegisteringAssumption, Registering!NullAssumption
  <2>2. \A j \in Calls : call'[j].op = "send" /\ call'[j].id # Null =>
            /\ call'[j] = call[j] /\ call[j].id \in Verifications
            /\ call[j].id = i => call[j].contact = c
    <3> SUFFICES ASSUME NEW j \in Calls, call'[j].op = "send", call'[j].id # Null
                 PROVE  /\ call'[j] = call[j] /\ call[j].id \in Verifications
                        /\ call[j].id = i => call[j].contact = c
      OBVIOUS
    <3>1. call'[j] = call[j] /\ call[j].id \in Verifications
      BY <1>2, RegisteringCallShapes
    <3>2. row[call[j].id] # Null
      BY <3>1 DEF RegisteringIdsKnown
    <3> QED BY <1>0, <1>1, <3>1, <3>2 DEF RegisteringIdsKnown
  <2> QED BY <1>1, <1>2, <1>3, <2>1, <2>2 DEF RegisteringIdsKnown
<1> QED BY <1>8, <1>9 DEF RegisteringCounted

\* Rows that are deleted: their contacts count anew, but for those being sent to.
LEMMA RegisteringCountedDelete ==
    ASSUME RegisteringAssumption, RegisteringIInv, NEW S \in SUBSET Verifications,
           \A i \in S : row[i] # Null /\ row'[i] = Registering!Deleted,
           \A i \in Verifications \ S : row'[i] = row[i],
           \A c \in Registering!Contacts \ overlapped' :
               sent'[c] = IF \E i \in S : Registering!Live(i) /\ row[i].contact = c THEN 0 ELSE sent[c],
           overlapped \subseteq overlapped',
           \A c \in Registering!Contacts : (\E i \in S : Registering!Live(i) /\ row[i].contact = c) /\ Registering!Sending(c) => c \in overlapped',
           \A k \in Calls : call'[k] = call[k] \/ call'[k].op # "send"
    PROVE  RegisteringCounted'
<1> USE DEF RegisteringIInv
<1>1. /\ \A i \in S : ~Registering!Live(i)'
      /\ \A i \in Verifications \ S : Registering!Live(i)' <=> Registering!Live(i)
  BY DEF Registering!Live
<1>2. \A c \in Registering!Contacts : Registering!RowsOf(c)' = Registering!RowsOf(c) \ S
  BY <1>1 DEF Registering!RowsOf
<1>3. \A k \in Calls : call'[k].op = "send" => call'[k] = call[k]
  OBVIOUS
<1>4. ASSUME NEW c \in Registering!Contacts \ overlapped' PROVE RegisteringCodesOf(c)'
  <2>1. RegisteringCodesOf(c)
    BY <1>4 DEF RegisteringCodesCounted
  <2>2. CASE \E i \in S : Registering!Live(i) /\ row[i].contact = c
    <3>1. Registering!RowsOf(c) \cap S # {}
      BY <2>2 DEF Registering!RowsOf
    <3>2. Registering!RowsOf(c)' = {} /\ sent'[c] = 0
      BY <1>2, <2>1, <2>2, <3>1 DEF RegisteringCodesOf
    <3>3. \A k \in Calls : ~(call'[k].op = "send" /\ call'[k].contact = c)
      BY <1>3, <1>4, <2>2 DEF Registering!Sending
    <3> QED BY <3>2, <3>3 DEF RegisteringCodesOf, RegisteringAssumption, Registering!MaxAssumption
  <2>3. CASE ~\E i \in S : Registering!Live(i) /\ row[i].contact = c
    <3>1. Registering!RowsOf(c)' = Registering!RowsOf(c) /\ sent'[c] = sent[c] /\
            \A i \in Registering!RowsOf(c) : row'[i] = row[i]
      BY <1>2, <2>3 DEF Registering!RowsOf
    <3> QED BY <1>3, <2>1, <3>1 DEF RegisteringCodesOf
  <2> QED BY <2>2, <2>3
<1>5. RegisteringIdsKnown'
  <2>1. \A i \in Verifications : row[i] # Null => row'[i] # Null
    BY RegisteringRowShapes DEF RegisteringAssumption
  <2>2. \A k \in Calls : call[k].op = "send" /\ call[k].id # Null => call[k].id \in Verifications
    BY RegisteringCallShapes
  <2>3. \A i \in Verifications : Registering!Live(i)' => Registering!Live(i) /\ row'[i] = row[i]
    BY <1>1
  <2> QED BY <1>3, <2>1, <2>2, <2>3 DEF RegisteringIdsKnown
<1> QED BY <1>4, <1>5 DEF RegisteringCounted, RegisteringCodesCounted
-----------------------------------------------------------------------------
\* A row is used once while no row comes back but by the save of a send, and no
\* request is let through.
LEMMA RegisteringUsesKeep ==
    ASSUME RegisteringIInv, overlapped \subseteq overlapped', UNCHANGED <<spent, reused>>,
           \A i \in Verifications :
               /\ row[i] # Null => row'[i] # Null
               /\ Registering!Live(i)' =>
                      \/ Registering!Live(i) /\ row'[i].contact = row[i].contact
                      \/ row[i] = Null
                      \/ \E k \in Calls : call[k].op = "send" /\ call[k].id = i /\
                           row'[i].contact = call[k].contact,
           \A k \in Calls :
               \/ call'[k] = call[k]
               \/ call'[k].op \notin {"send", "approved", "reset"}
               \/ /\ call'[k].op = "send"
                  /\ call'[k].id \in Verifications => /\ Registering!Live(call'[k].id)
                                                    /\ call'[k].contact = row[call'[k].id].contact
    PROVE  RegisteringUsedOnce'
<1> USE DEF RegisteringIInv, RegisteringUsedOnce
<1>1. \A k \in Calls : RegisteringUses(k)' =>
          call'[k] = call[k] /\ RegisteringUses(k) /\ call[k].id \in Verifications
  BY RegisteringCallShapes DEF RegisteringUses
<1>2. ASSUME NEW j \in Calls, NEW i \in Verifications, call'[j].op = "send", call'[j].id = i
      PROVE  \/ call'[j] = call[j]
             \/ Registering!Live(i) /\ call'[j].contact = row[i].contact
  BY <1>2
<1>3. ASSUME NEW i \in Verifications, row[i] # Null, Registering!Live(i)'
      PROVE  \/ Registering!Live(i) /\ row'[i].contact = row[i].contact
             \/ \E k \in Calls : call[k].op = "send" /\ call[k].id = i /\
                  row'[i].contact = call[k].contact
  BY <1>3
<1>4. RegisteringUsesKnown'
  <2> SUFFICES ASSUME NEW k \in Calls, NEW i \in Verifications, RegisteringUses(k)', call'[k].id = i
               PROVE  RegisteringUseKnown(k, i)'
    BY DEF RegisteringUsesKnown
  <2>1. call'[k] = call[k] /\ RegisteringUseKnown(k, i)
    BY <1>1 DEF RegisteringUsesKnown
  <2>2. row'[i] # Null /\ (Registering!Live(i)' => row'[i].contact = call[k].by)
    BY <1>3, <2>1 DEF RegisteringUseKnown
  <2>3. \A j \in Calls : call'[j].op = "send" /\ call'[j].id = i => call'[j].contact = call[k].by
    BY <1>2, <2>1 DEF RegisteringUseKnown
  <2>4. \A j \in Calls : RegisteringUses(j)' /\ call'[j].id = i =>
            call'[j].by = call[k].by /\ (j = k \/ call[k].by \in overlapped')
    BY <1>1, <2>1 DEF RegisteringUseKnown
  <2> QED BY <2>1, <2>2, <2>3, <2>4 DEF RegisteringUseKnown
<1>5. RegisteringSpentGone'
  <2> SUFFICES ASSUME NEW i \in Verifications, i \in spent PROVE RegisteringGone(i)'
    BY DEF RegisteringSpentGone
  <2>1. RegisteringGone(i)
    BY DEF RegisteringSpentGone
  <2>2. row'[i] # Null /\ (Registering!Live(i)' => row'[i].contact \in overlapped')
    BY <1>3, <2>1 DEF RegisteringGone
  <2>3. \A k \in Calls : call'[k].op = "send" /\ call'[k].id = i => call'[k].contact \in overlapped'
    BY <1>2, <2>1 DEF RegisteringGone
  <2>4. \A k \in Calls : RegisteringUses(k)' /\ call'[k].id = i => call'[k].by \in overlapped'
    BY <1>1, <2>1 DEF RegisteringGone
  <2> QED BY <2>2, <2>3, <2>4 DEF RegisteringGone
<1>6. Registering!ApprovalsUsedOnce'
  BY DEF Registering!ApprovalsUsedOnce
<1> QED BY <1>4, <1>5, <1>6

\* An approved row lets a request through.
LEMMA RegisteringUsesCheck ==
    ASSUME RegisteringAssumption, RegisteringIInv, NEW k \in Calls, NEW i \in Verifications,
           Registering!Live(i), RegisteringUses(k)', call'[k].id = i, call'[k].by = row[i].contact,
           \A j \in Calls \ {k} : call'[j] = call[j],
           overlapped' = IF Registering!Spending(i) THEN overlapped \cup {row[i].contact} ELSE overlapped,
           UNCHANGED <<row, spent, reused>>
    PROVE  RegisteringUsedOnce'
<1> USE DEF RegisteringIInv, RegisteringUsedOnce
<1>1. row[i] # Null /\ i # Null
  BY DEF Registering!Live, RegisteringAssumption, Registering!NullAssumption
<1>2. \A j \in Calls \ {k} : RegisteringUses(j)' <=> RegisteringUses(j)
  BY DEF RegisteringUses
<1>3. \A j \in Calls \ {k} : RegisteringUses(j) /\ call[j].id = i =>
          row[i].contact \in overlapped' /\ call[j].by = row[i].contact
  BY DEF RegisteringUses, RegisteringUsesKnown, RegisteringUseKnown, Registering!Spending
<1>4. \A j \in Calls : call'[j].op = "send" => call'[j] = call[j] /\ j # k
  BY DEF RegisteringUses
<1>5. \A j \in Calls : call[j].op = "send" /\ call[j].id = i => call[j].contact = row[i].contact
  BY <1>1 DEF RegisteringIdsKnown
<1>6. \A j \in Verifications : Registering!Live(j)' <=> Registering!Live(j)
  BY DEF Registering!Live
<1>7. RegisteringUsesKnown'
  <2>1. ASSUME NEW j \in Calls \ {k}, NEW m \in Verifications, RegisteringUses(j)', call'[j].id = m
        PROVE  RegisteringUseKnown(j, m)'
    <3>1. RegisteringUses(j) /\ call'[j] = call[j] /\ RegisteringUseKnown(j, m)
      BY <1>2, <2>1 DEF RegisteringUsesKnown
    <3>2. m = i => call'[k].by = call[j].by /\ call[j].by \in overlapped'
      BY <1>3, <2>1, <3>1
    <3>3. \A n \in Calls : RegisteringUses(n)' /\ call'[n].id = m =>
              call'[n].by = call[j].by /\ (n = j \/ call[j].by \in overlapped')
      BY <1>2, <3>1, <3>2 DEF RegisteringUseKnown
    <3> QED BY <1>4, <1>6, <3>1, <3>3 DEF RegisteringUseKnown
  <2>2. RegisteringUseKnown(k, i)'
    BY <1>1, <1>2, <1>3, <1>4, <1>5, <1>6 DEF RegisteringUseKnown
  <2> QED BY <2>1, <2>2 DEF RegisteringUsesKnown
<1>8. RegisteringSpentGone'
  <2>1. i \in spent => row[i].contact \in overlapped
    BY DEF RegisteringSpentGone, RegisteringGone
  <2> QED BY <1>2, <1>4, <1>6, <2>1 DEF RegisteringSpentGone, RegisteringGone
<1>9. Registering!ApprovalsUsedOnce'
  BY DEF Registering!ApprovalsUsedOnce
<1> QED BY <1>7, <1>8, <1>9

\* The row of a request that was let through is deleted.
LEMMA RegisteringUsesSpend ==
    ASSUME RegisteringAssumption, RegisteringIInv, NEW k \in Calls, RegisteringUses(k),
           NEW i \in Verifications, i = call[k].id,
           row'[i] = Registering!Deleted, \A j \in Verifications \ {i} : row'[j] = row[j],
           call'[k].op \notin {"send", "approved", "reset"},
           \A j \in Calls \ {k} : call'[j] = call[j],
           overlapped \subseteq overlapped',
           Registering!Live(i) /\ Registering!Sending(row[i].contact) => row[i].contact \in overlapped',
           spent' = spent \cup {i},
           reused' = IF i \in spent THEN reused \cup {call[k].by} ELSE reused
    PROVE  RegisteringUsedOnce'
<1> USE DEF RegisteringIInv, RegisteringUsedOnce
<1>1. /\ row[i] # Null
      /\ Registering!Live(i) => row[i].contact = call[k].by
      /\ \A j \in Calls : call[j].op = "send" /\ call[j].id = i => call[j].contact = call[k].by
      /\ \A j \in Calls : RegisteringUses(j) /\ call[j].id = i =>
            call[j].by = call[k].by /\ (j = k \/ call[k].by \in overlapped)
  BY DEF RegisteringUsesKnown, RegisteringUseKnown
<1>2. \A j \in Calls : RegisteringUses(j)' => RegisteringUses(j) /\ call'[j] = call[j] /\ j # k
  BY DEF RegisteringUses
<1>3. \A j \in Calls : call'[j].op = "send" => call'[j] = call[j]
  OBVIOUS
<1>4. /\ ~Registering!Live(i)' /\ row'[i] # Null /\ i # Null
      /\ \A j \in Verifications \ {i} : Registering!Live(j)' <=> Registering!Live(j)
  BY RegisteringRowShapes DEF Registering!Live, RegisteringAssumption, Registering!NullAssumption
<1>5. RegisteringUsesKnown'
  <2> SUFFICES ASSUME NEW j \in Calls, NEW m \in Verifications, RegisteringUses(j)', call'[j].id = m
               PROVE  RegisteringUseKnown(j, m)'
    BY DEF RegisteringUsesKnown
  <2>1. call'[j] = call[j] /\ RegisteringUseKnown(j, m)
    BY <1>2 DEF RegisteringUsesKnown
  <2> QED BY <1>2, <1>3, <1>4, <2>1 DEF RegisteringUseKnown
<1>6. ASSUME NEW j \in Calls, call[j].op = "send", call[j].id = i
      PROVE  call[j].contact \in overlapped'
  <2>1. call[j].contact = call[k].by /\ call[j].contact \in Registering!Contacts
    BY <1>1, <1>6, RegisteringCallShapes
  <2>2. CASE Registering!Live(i)
    BY <1>1, <1>6, <2>1, <2>2 DEF Registering!Sending
  <2>3. CASE ~Registering!Live(i)
    <3>1. i \notin Registering!RowsOf(call[j].contact)
      BY <2>3 DEF Registering!RowsOf
    <3> QED BY <1>4, <1>6, <2>1, <3>1 DEF RegisteringCodesCounted, RegisteringCodesOf
  <2> QED BY <2>2, <2>3
<1>7. RegisteringSpentGone'
  <2>1. RegisteringGone(i)'
    BY <1>1, <1>2, <1>3, <1>4, <1>6 DEF RegisteringGone
  <2>2. ASSUME NEW m \in Verifications, m \in spent, m # i PROVE RegisteringGone(m)'
    BY <1>2, <1>3, <1>4, <2>2 DEF RegisteringSpentGone, RegisteringGone
  <2> QED BY <2>1, <2>2 DEF RegisteringSpentGone
<1>8. Registering!ApprovalsUsedOnce'
  <2>1. i \in spent => call[k].by \in overlapped
    BY DEF RegisteringSpentGone, RegisteringGone
  <2> QED BY <2>1 DEF Registering!ApprovalsUsedOnce
<1> QED BY <1>5, <1>7, <1>8
-----------------------------------------------------------------------------
\* A request goes on with a contact that it names, which was proven if it is an
\* address.
RegisteringGoesOn(by, e, p, known) == (by \in Emails => by \in known) /\ by \in Registering!Named(e, p)

\* Nothing is approved that was not, and what was proven stays so.
LEMMA RegisteringProvenKeeps ==
    ASSUME RegisteringIInv, proven \subseteq proven',
           \A i \in Verifications : \/ row'[i] = row[i]
                                    \/ ~Registering!Live(i)'
                                    \/ Registering!Live(i) /\ row'[i].contact = row[i].contact /\
                                         row'[i].status = row[i].status
                                    \/ row'[i].status = "approved" /\ row'[i].contact \in Emails =>
                                         row'[i].contact \in proven',
           \A k \in Calls : \/ call'[k] = call[k]
                            \/ call'[k].op = "none"
                            \/ /\ call'[k].op = "send"
                               /\ call'[k].status = "approved" /\ call'[k].contact \in Emails =>
                                      call'[k].contact \in proven'
                            \/ /\ call'[k].op = "status"
                               /\ call'[k].status = "approved" => call'[k].email \in proven'
                            \/ /\ call'[k].op \in {"approved", "reset", "spent", "free", "renew"}
                               /\ RegisteringGoesOn(call'[k].by, call'[k].email, call'[k].phone, proven')
    PROVE  RegisteringApprovedWasProven'
<1> USE DEF RegisteringIInv, RegisteringGoesOn
<1>1. ASSUME NEW i \in Verifications, Registering!Live(i)', row'[i].status = "approved",
             row'[i].contact \in Emails
      PROVE  row'[i].contact \in proven'
  <2>1. CASE row'[i] = row[i]
    BY <1>1, <2>1 DEF RegisteringApprovedWasProven, Registering!Live
  <2>2. CASE Registering!Live(i) /\ row'[i].contact = row[i].contact /\ row'[i].status = row[i].status
    BY <1>1, <2>2 DEF RegisteringApprovedWasProven
  <2> QED BY <1>1, <2>1, <2>2
<1>2. ASSUME NEW k \in Calls, call'[k].op \in {"approved", "reset", "spent", "free", "renew"}
      PROVE  /\ call'[k].by \in Emails => call'[k].by \in proven'
             /\ call'[k].by \in Registering!Named(call'[k].email, call'[k].phone)
  BY <1>2 DEF RegisteringApprovedWasProven
<1>3. ASSUME NEW k \in Calls
      PROVE  /\ call'[k].op = "send" /\ call'[k].status = "approved" /\ call'[k].contact \in Emails =>
                    call'[k].contact \in proven'
             /\ call'[k].op = "status" /\ call'[k].status = "approved" => call'[k].email \in proven'
  BY <1>3 DEF RegisteringApprovedWasProven
<1>4. \A k \in Calls : Registering!Named(call[k].email, call[k].phone)' =
          Registering!Named(call'[k].email, call'[k].phone)
  BY DEF Registering!Named
<1> QED BY <1>1, <1>2, <1>3, <1>4 DEF RegisteringApprovedWasProven

\* Passwords stay justified when none is written.
LEMMA RegisteringPasswordsKeep ==
    ASSUME RegisteringIInv, proven \subseteq proven', user' = user, crossed' = crossed
    PROVE  Registering!PasswordsWereApproved'
  BY DEF RegisteringIInv, Registering!PasswordsWereApproved, Registering!Registered

\* A request finds its row.
LEMMA RegisteringFindStep ==
    ASSUME RegisteringAssumption, RegisteringIInv, NEW k \in Calls, NEW c \in Registering!Contacts,
           Registering!FindRow(k, c),
           UNCHANGED <<row, sent, user, proven, spent, reused, crossed>>,
           overlapped' = IF Registering!Sending(c) THEN overlapped \cup {c} ELSE overlapped
    PROVE  /\ RegisteringCounted' /\ RegisteringUsedOnce'
           /\ RegisteringApprovedWasProven' /\ Registering!PasswordsWereApproved'
<1>1. call'[k].op = "send" /\ call'[k].status = "approved" /\ call'[k].contact \in Emails =>
          call'[k].contact \in proven
  BY RegisteringFound DEF RegisteringIInv, RegisteringApprovedWasProven, Registering!RowsOf
<1>2. /\ call'[k].op = "send" /\ \A j \in Calls \ {k} : call'[j] = call[j]
      /\ call'[k].id \in Verifications => /\ Registering!Live(call'[k].id)
                                        /\ call'[k].contact = row[call'[k].id].contact
  BY RegisteringFound DEF RegisteringIInv, Registering!TypeOK, Registering!RowsOf,
    RegisteringAssumption, Registering!NullAssumption
<1>3. \A i \in Verifications : Registering!Live(i)' <=> Registering!Live(i)
  BY DEF Registering!Live
<1>4. RegisteringUsedOnce'
  BY <1>2, <1>3, RegisteringUsesKeep
<1> QED BY <1>1, <1>2, <1>4, RegisteringCountedFind, RegisteringProvenKeeps, RegisteringPasswordsKeep

\* A code is sent.
LEMMA RegisteringSendStep ==
    ASSUME RegisteringAssumption, RegisteringIInv, NEW k \in Calls,
           Registering!SendEmail(k) \/ Registering!SendPhone(k)
    PROVE  /\ RegisteringCounted' /\ RegisteringUsedOnce'
           /\ RegisteringApprovedWasProven' /\ Registering!PasswordsWereApproved'
<1> USE DEF RegisteringIInv
<1>1. /\ call[k].op = "send" /\ Registering!SaveRow(k) /\ Registering!End(k)
      /\ UNCHANGED <<overlapped, user, proven, spent, reused, crossed>>
      /\ sent' = [sent EXCEPT ![call[k].contact] = @ + 1]
  BY DEF Registering!SendEmail, Registering!SendPhone, Registering!useVars
<1>2. call[k].status = "approved" /\ call[k].contact \in Emails => call[k].contact \in proven
  BY <1>1 DEF RegisteringApprovedWasProven
<1>3. PICK i \in Verifications : /\ row'[i].contact = call[k].contact /\ row'[i].status = call[k].status
                                 /\ row'[i] \in Registering!Verification
                                 /\ \A j \in Verifications \ {i} : row'[j] = row[j]
                                 /\ call[k].id # Null => i = call[k].id
                                 /\ call[k].id = Null => row[i] = Null
  BY <1>1, RegisteringSaved
<1>4. \A j \in Calls : call'[j] = call[j] \/ call'[j].op = "none"
  BY <1>1, RegisteringIdleShape DEF Registering!End, Registering!TypeOK
<1>5. RegisteringUsedOnce'
  <2>1. row'[i] # Null /\ \A j \in Verifications \ {i} : Registering!Live(j)' <=> Registering!Live(j)
    BY <1>3 DEF Registering!Live, RegisteringAssumption, Registering!NullAssumption
  <2>2. \/ row[i] = Null
        \/ \E j \in Calls : call[j].op = "send" /\ call[j].id = i /\ row'[i].contact = call[j].contact
    BY <1>1, <1>3
  <2>3. \A j \in Calls : call'[j] = call[j] \/ call'[j].op \notin {"send", "approved", "reset"}
    BY <1>4
  <2> QED BY <1>1, <1>3, <2>1, <2>2, <2>3, RegisteringUsesKeep
<1> QED BY <1>1, <1>2, <1>3, <1>4, <1>5, RegisteringCountedSend, RegisteringProvenKeeps,
    RegisteringPasswordsKeep

\* What Twilio said of a code is stored.
LEMMA RegisteringSetStatusStep ==
    ASSUME RegisteringAssumption, RegisteringIInv, NEW k \in Calls, Registering!SetStatus(k)
    PROVE  /\ RegisteringCounted' /\ RegisteringUsedOnce'
           /\ RegisteringApprovedWasProven' /\ Registering!PasswordsWereApproved'
<1> USE DEF RegisteringIInv
<1>1. /\ call[k].op = "status" /\ call[k].email \in Emails
      /\ \A j \in Calls : call'[j] = call[j] \/ call'[j].op = "none"
      /\ UNCHANGED <<user, sent, proven, overlapped, spent, reused, crossed>>
  BY RegisteringCallShapes, RegisteringIdleShape DEF Registering!SetStatus, Registering!End,
    Registering!TypeOK, Registering!useVars
<1>2. \A i \in Verifications : row'[i] = IF i \in Registering!RowsOf(call[k].email)
                                THEN [row[i] EXCEPT !.status = call[k].status] ELSE row[i]
  BY DEF Registering!SetStatus
<1>3. \A i \in Registering!RowsOf(call[k].email) :
          /\ i \in Verifications /\ Registering!Live(i) /\ row[i] \in Registering!Verification /\
               row[i].contact = call[k].email
          /\ row'[i] = [row[i] EXCEPT !.status = call[k].status]
  BY <1>2, RegisteringRowShapes DEF Registering!RowsOf, RegisteringAssumption
<1>4. \A i \in Registering!RowsOf(call[k].email) :
          /\ row'[i] \in Registering!Verification
          /\ row'[i].contact = row[i].contact /\ row'[i].count = row[i].count
          /\ row'[i].status = call[k].status
  BY <1>1, <1>3, RegisteringCallShapes DEF Registering!Verification
<1>5. \A i \in Verifications \ Registering!RowsOf(call[k].email) : row'[i] = row[i]
  BY <1>2
<1>6. call[k].status = "approved" => call[k].email \in proven
  BY <1>1 DEF RegisteringApprovedWasProven
<1>7. \A i \in Registering!RowsOf(call[k].email) : row'[i] # Null /\
        row'[i] # Registering!Deleted /\ row[i] # Null /\ row[i] # Registering!Deleted
  BY <1>3, <1>4, RegisteringRowShapes DEF RegisteringAssumption, Registering!NullAssumption
<1>8. \A i \in Verifications : /\ row'[i] = Null <=> row[i] = Null
                               /\ row'[i] = Registering!Deleted <=> row[i] = Registering!Deleted
                               /\ Registering!Live(i) => row'[i].contact = row[i].contact /\
                                    row'[i].count = row[i].count
  BY <1>4, <1>5, <1>7
<1>9. \A j \in Calls : call'[j] = call[j] \/ call'[j].op \notin {"send", "approved", "reset"}
  BY <1>1
<1>10. RegisteringUsedOnce'
  <2>1. \A i \in Verifications : Registering!Live(i)' => Registering!Live(i) /\
          row'[i].contact = row[i].contact
    BY <1>8 DEF Registering!Live
  <2> QED BY <1>1, <1>8, <1>9, <2>1, RegisteringUsesKeep
<1>11. RegisteringCounted'
  BY <1>1, <1>8, <1>9, RegisteringCountedKeeps
<1>12. RegisteringApprovedWasProven'
  BY <1>1, <1>3, <1>4, <1>5, <1>6, RegisteringProvenKeeps
<1> QED BY <1>1, <1>10, <1>11, <1>12, RegisteringPasswordsKeep

\* The row of an approved code is spent, whatever comes of the request.
LEMMA RegisteringSpendStep ==
    ASSUME RegisteringAssumption, RegisteringIInv, NEW k \in Calls, Registering!Spend(k)
    PROVE  /\ RegisteringCounted' /\ RegisteringUsedOnce'
           /\ RegisteringApprovedWasProven' /\ Registering!PasswordsWereApproved'
<1> USE DEF RegisteringIInv
<1>0. PICK i \in Verifications : i = call[k].id
  BY RegisteringCallShapes DEF Registering!Spend
<1>1. /\ row[i] # Null /\ row'[i] = Registering!Deleted /\ \A j \in Verifications \ {i} : row'[j] = row[j]
      /\ RegisteringUses(k)
      /\ UNCHANGED <<user, proven, crossed>>
      /\ spent' = spent \cup {i}
      /\ reused' = IF i \in spent THEN reused \cup {call[k].by} ELSE reused
  BY <1>0 DEF Registering!Spend, Registering!DeleteRow, RegisteringUsedOnce, RegisteringUsesKnown,
    RegisteringUseKnown, RegisteringUses, Registering!TypeOK
<1>2. /\ \A j \in Calls \ {k} : call'[j] = call[j]
      /\ call'[k].op \in {"spent", "renew"} /\ call'[k].by = call[k].by
      /\ call'[k].email = call[k].email /\ call'[k].phone = call[k].phone
  BY DEF Registering!Spend, Registering!Continue, Registering!TypeOK
<1>3. overlapped \subseteq overlapped'
  BY DEF Registering!Spend
<1>4. \A c \in Registering!Contacts : sent'[c] = IF \E j \in {i} : Registering!Live(j) /\
        row[j].contact = c THEN 0 ELSE sent[c]
  <2>1. \A c \in Registering!Contacts : sent'[c] = IF Registering!Live(i) /\
          row[i].contact = c THEN 0 ELSE sent[c]
    BY <1>0, RegisteringRowShapes DEF Registering!Spend, Registering!TypeOK, RegisteringAssumption
  <2> QED BY <2>1
<1>5. \A c \in Registering!Contacts : (\E j \in {i} : Registering!Live(j) /\ row[j].contact = c) /\
        Registering!Sending(c) => c \in overlapped'
  BY <1>0 DEF Registering!Spend
<1>6. RegisteringCounted'
  <2>1. PICK S \in SUBSET Verifications : S = {i}
    OBVIOUS
  <2>2. /\ \A j \in S : row[j] # Null /\ row'[j] = Registering!Deleted
        /\ \A j \in Verifications \ S : row'[j] = row[j]
    BY <1>1, <2>1
  <2>3. \A j \in Calls : call'[j] = call[j] \/ call'[j].op # "send"
    BY <1>2
  <2> QED BY <1>3, <1>4, <1>5, <2>1, <2>2, <2>3, RegisteringCountedDelete
<1>7. RegisteringUsedOnce'
  <2>1. Registering!Live(i) /\ Registering!Sending(row[i].contact) => row[i].contact \in overlapped'
    BY <1>0 DEF Registering!Spend
  <2> QED BY <1>0, <1>1, <1>2, <1>3, <2>1, RegisteringUsesSpend
<1>8. RegisteringApprovedWasProven'
  <2>1. ~Registering!Live(i)'
    BY <1>1 DEF Registering!Live
  <2>2. RegisteringGoesOn(call'[k].by, call'[k].email, call'[k].phone, proven')
    BY <1>1, <1>2 DEF RegisteringApprovedWasProven, RegisteringUses, RegisteringGoesOn
  <2> QED BY <1>1, <1>2, <2>1, <2>2, RegisteringProvenKeeps
<1> QED BY <1>1, <1>6, <1>7, <1>8, RegisteringPasswordsKeep

\* The nightly job removes rows.
LEMMA RegisteringCleanupStep ==
    ASSUME RegisteringAssumption, RegisteringIInv, Registering!Cleanup
    PROVE  /\ RegisteringCounted' /\ RegisteringUsedOnce'
           /\ RegisteringApprovedWasProven' /\ Registering!PasswordsWereApproved'
<1> USE DEF RegisteringIInv
<1> DEFINE S == {i \in Verifications : Registering!Live(i)}
<1>1. PICK T \in SUBSET Verifications : T = S
  OBVIOUS
<1>2. /\ \A i \in T : Registering!Live(i) /\ row[i] # Null /\ row'[i] = Registering!Deleted
      /\ \A i \in Verifications \ T : row'[i] = row[i]
      /\ \A c \in Registering!Contacts : sent'[c] = 0
      /\ overlapped' = overlapped \cup {c \in Registering!Contacts : Registering!Sending(c)}
      /\ UNCHANGED <<user, call, proven, spent, reused, crossed>>
  BY <1>1 DEF Registering!Cleanup, Registering!Live, Registering!useVars
<1>3. \A c \in Registering!Contacts \ overlapped' : sent'[c] = IF \E i \in T : Registering!Live(i) /\ row[i].contact = c THEN 0 ELSE sent[c]
  <2> SUFFICES ASSUME NEW c \in Registering!Contacts \ overlapped',
                      ~\E i \in T : Registering!Live(i) /\ row[i].contact = c
               PROVE  sent[c] = 0
    BY <1>2
  <2>1. Registering!RowsOf(c) = {} /\ RegisteringCodesOf(c)
    BY <1>1, <1>2 DEF Registering!RowsOf, RegisteringCodesCounted
  <2> QED BY <2>1 DEF RegisteringCodesOf
<1>4. \A c \in Registering!Contacts : (\E i \in T : Registering!Live(i) /\ row[i].contact = c) /\
        Registering!Sending(c) => c \in overlapped'
  BY <1>2
<1>5. RegisteringCounted'
  <2>1. overlapped \subseteq overlapped'
    BY <1>2
  <2> HIDE DEF S
  <2> QED BY <1>2, <1>3, <1>4, <2>1, RegisteringCountedDelete
<1>6. \A i \in T : ~Registering!Live(i)'
  BY <1>2 DEF Registering!Live
<1>7. RegisteringApprovedWasProven'
  BY <1>2, <1>6, RegisteringProvenKeeps
<1>8. RegisteringUsedOnce'
  <2>1. \A i \in Verifications : row[i] # Null => row'[i] # Null
    BY <1>2, RegisteringRowShapes DEF RegisteringAssumption
  <2>2. \A i \in Verifications : Registering!Live(i)' => Registering!Live(i) /\ row'[i] = row[i]
    BY <1>2, <1>6 DEF Registering!Live
  <2> QED BY <1>2, <2>1, <2>2, RegisteringUsesKeep
<1> QED BY <1>2, <1>5, <1>7, <1>8, RegisteringPasswordsKeep

\* The handlers that change no row, and let no request through.
LEMMA RegisteringCallStep ==
    ASSUME RegisteringIInv, UNCHANGED <<row, sent, overlapped, spent, reused>>,
           proven \subseteq proven',
           \A k \in Calls :
               \/ call'[k] = call[k]
               \/ call'[k].op = "none"
               \/ /\ call'[k].op = "status"
                  /\ call'[k].status = "approved" => call'[k].email \in proven'
               \/ /\ call'[k].op \in {"spent", "free", "renew"}
                  /\ RegisteringGoesOn(call'[k].by, call'[k].email, call'[k].phone, proven')
    PROVE  RegisteringCounted' /\ RegisteringUsedOnce' /\ RegisteringApprovedWasProven'
<1>1. \A k \in Calls : call'[k] = call[k] \/ call'[k].op \notin {"send", "approved", "reset"}
  OBVIOUS
<1>2. RegisteringCounted'
  BY <1>1, RegisteringCountedKeeps
<1>3. RegisteringApprovedWasProven'
  BY RegisteringProvenKeeps
<1>4. RegisteringUsedOnce'
  <2>1. \A i \in Verifications : Registering!Live(i)' <=> Registering!Live(i)
    BY DEF Registering!Live
  <2> QED BY <1>1, <2>1, RegisteringUsesKeep
<1> QED BY <1>2, <1>3, <1>4

\* checkVerify finds an approved row.
LEMMA RegisteringCheckStep ==
    ASSUME RegisteringAssumption, RegisteringIInv, NEW k \in Calls, NEW e, NEW p,
           NEW i \in Registering!ApprovedRow(e, p), NEW op \in {"approved", "reset"},
           Registering!Start(k, [op |-> op, id |-> i, by |-> row[i].contact, email |-> e, phone |-> p]),
           overlapped' = IF Registering!Spending(i) THEN overlapped \cup {row[i].contact} ELSE overlapped,
           UNCHANGED <<row, user, sent, proven, spent, reused, crossed>>
    PROVE  /\ RegisteringCounted' /\ RegisteringUsedOnce'
           /\ RegisteringApprovedWasProven' /\ Registering!PasswordsWereApproved'
<1>1. /\ i \in Verifications /\ Registering!Live(i) /\ row[i].status = "approved"
      /\ row[i].contact \in Registering!Named(e, p)
  BY DEF Registering!ApprovedRow
<1>2. /\ call'[k].op = op /\ call'[k].id = i /\ call'[k].by = row[i].contact
      /\ call'[k].email = e /\ call'[k].phone = p
      /\ \A j \in Calls \ {k} : call'[j] = call[j]
  BY DEF Registering!Start, RegisteringIInv, Registering!TypeOK
<1>3. RegisteringUsedOnce'
  <2>1. RegisteringUses(k)'
    BY <1>2 DEF RegisteringUses
  <2> QED BY <1>1, <1>2, <2>1, RegisteringUsesCheck
<1>4. RegisteringGoesOn(call'[k].by, call'[k].email, call'[k].phone, proven')
  BY <1>1, <1>2 DEF RegisteringIInv, RegisteringApprovedWasProven, RegisteringGoesOn
<1>5. RegisteringApprovedWasProven'
  BY <1>2, <1>4, RegisteringProvenKeeps
<1>6. RegisteringCounted'
  <2>1. \A j \in Calls : call'[j] = call[j] \/ call'[j].op # "send"
    BY <1>2
  <2> QED BY <2>1, RegisteringCountedKeeps
<1> QED BY <1>3, <1>5, <1>6, RegisteringPasswordsKeep

\* The password of the accounts that are found is written.
LEMMA RegisteringPasswordStep ==
    ASSUME RegisteringAssumption, RegisteringIInv, NEW k \in Calls, Registering!UpdatePassword(k)
    PROVE  /\ RegisteringCounted' /\ RegisteringUsedOnce'
           /\ RegisteringApprovedWasProven' /\ Registering!PasswordsWereApproved'
<1> USE DEF RegisteringIInv
<1> DEFINE renewed == Registering!AccountsOf(call[k].email, call[k].phone)
<1>1. /\ \A j \in Calls : call'[j] = call[j] \/ call'[j].op = "none"
      /\ UNCHANGED <<row, sent, overlapped, spent, reused, proven>>
  BY RegisteringIdleShape DEF Registering!UpdatePassword, Registering!End, Registering!TypeOK
<1>2. RegisteringCounted' /\ RegisteringUsedOnce' /\ RegisteringApprovedWasProven'
  BY <1>1, RegisteringCallStep
<1>3. /\ call[k].op = "renew"
      /\ call[k].by \in Emails => call[k].by \in proven
      /\ call[k].by \in Registering!Named(call[k].email, call[k].phone)
  BY DEF Registering!UpdatePassword, RegisteringApprovedWasProven
<1>4. /\ \A u \in Users : user'[u] = IF u \in renewed THEN [user[u] EXCEPT !.by = call[k].by] ELSE user[u]
      /\ crossed' = IF Null \in {call[k].email, call[k].phone} THEN crossed \ renewed
                                                               ELSE crossed \cup renewed
  BY DEF Registering!UpdatePassword
<1>5. ASSUME NEW u \in Users, u \in renewed
      PROVE  /\ user'[u].by \in Emails => user'[u].by \in proven'
             /\ user'[u].by \in {user'[u].email, user'[u].phone.number} \/ u \in crossed'
  <2>1. /\ user[u] \in Registering!Account
        /\ IF call[k].email # Null THEN user[u].email = call[k].email ELSE user[u].phone = call[k].phone
    BY <1>5 DEF Registering!AccountsOf, Registering!Registered, Registering!TypeOK
  <2>2. /\ user'[u].by = call[k].by /\ user'[u].email = user[u].email
        /\ user'[u].phone = user[u].phone
    BY <1>4, <1>5, <2>1 DEF Registering!Account
  <2>3. CASE call[k].email # Null /\ call[k].phone # Null
    BY <1>1, <1>3, <1>4, <1>5, <2>2, <2>3
  <2>4. CASE call[k].phone = Null
    <3>1. call[k].by = call[k].email /\ call[k].email # Null
      BY <1>3, <2>4 DEF Registering!Named
    <3> QED BY <1>1, <1>3, <2>1, <2>2, <3>1
  <2>5. CASE call[k].email = Null
    <3>1. call[k].phone # Null /\ call[k].by = call[k].phone.number
      BY <1>3, <2>5 DEF Registering!Named
    <3> QED BY <1>1, <1>3, <2>1, <2>2, <2>5, <3>1
  <2> QED BY <2>3, <2>4, <2>5
<1>6. ASSUME NEW u \in Users, u \notin renewed, user'[u] # Null
      PROVE  /\ user'[u].by \in Emails => user'[u].by \in proven'
             /\ user'[u].by \in {user'[u].email, user'[u].phone.number} \/ u \in crossed'
  BY <1>1, <1>4, <1>6 DEF Registering!PasswordsWereApproved, Registering!Registered
<1>7. Registering!PasswordsWereApproved'
  BY <1>5, <1>6 DEF Registering!PasswordsWereApproved, Registering!Registered
<1> QED BY <1>2, <1>7

\* Every step keeps the invariant.
LEMMA RegisteringStep ==
    ASSUME RegisteringAssumption, RegisteringIInv, [Registering!Next]_(Registering!vars)
    PROVE  RegisteringIInv'
<1> USE DEF Registering!mailVars, Registering!useVars
<1> DEFINE Rest == /\ RegisteringCounted /\ RegisteringUsedOnce
                   /\ RegisteringApprovedWasProven /\ Registering!PasswordsWereApproved
<1>0. Registering!TypeOK'
  BY RegisteringTypeStep
<1>1. ASSUME NEW k \in Calls, NEW e \in Emails, Registering!ReadForEmail(k, e) PROVE Rest'
  BY <1>1, RegisteringFindStep DEF Registering!ReadForEmail, Registering!Contacts
<1>2. ASSUME NEW k \in Calls, NEW p \in Registering!Phones, Registering!ReadForPhone(k, p)
      PROVE  Rest'
  <2>1. p.number \in Registering!Contacts
    BY DEF Registering!Phones, Registering!Contacts
  <2> QED BY <1>2, <2>1, RegisteringFindStep DEF Registering!ReadForPhone
<1>3. ASSUME NEW k \in Calls, NEW e \in Emails, Registering!CheckCode(k, e) PROVE Rest'
  <2>1. /\ call'[k].op = "status" /\ call'[k].status = "approved" => call'[k].email \in proven'
        /\ call'[k].op = "status"
        /\ \A j \in Calls \ {k} : call'[j] = call[j]
        /\ UNCHANGED <<row, sent, overlapped, user, spent, reused, crossed>> /\ proven \subseteq proven'
    BY <1>3 DEF Registering!CheckCode, Registering!Start, RegisteringIInv, Registering!TypeOK
  <2> QED BY <2>1, RegisteringCallStep, RegisteringPasswordsKeep
<1>4. ASSUME NEW k \in Calls, NEW e \in Emails, NEW p \in Registering!Phones,
             Registering!CheckForAccount(k, e, p)
      PROVE  Rest'
  BY <1>4, RegisteringCheckStep DEF Registering!CheckForAccount
<1>5. ASSUME NEW k \in Calls, NEW e \in Emails \cup {Null}, NEW p \in Registering!Phones \cup {Null},
             Registering!CheckForPassword(k, e, p)
      PROVE  Rest'
  BY <1>5, RegisteringCheckStep DEF Registering!CheckForPassword
<1>6. ASSUME NEW k \in Calls, Registering!RefuseUser(k) \/ Registering!Abandon(k) PROVE Rest'
  <2>1. \A j \in Calls : call'[j] = call[j] \/ call'[j].op = "none"
    BY <1>6, RegisteringIdleShape DEF Registering!RefuseUser, Registering!Abandon, Registering!End,
      RegisteringIInv, Registering!TypeOK
  <2> QED BY <1>6, <2>1, RegisteringCallStep, RegisteringPasswordsKeep DEF Registering!RefuseUser,
      Registering!Abandon
<1>7. ASSUME NEW k \in Calls, NEW u \in Users, Registering!InsertUser(k, u)
      PROVE  Rest'
  <2>1. /\ \A j \in Calls : call'[j] = call[j] \/ call'[j].op = "none"
        /\ UNCHANGED <<row, sent, overlapped, proven, spent, reused, crossed>>
    BY <1>7, RegisteringIdleShape DEF Registering!InsertUser, Registering!End, RegisteringIInv,
      Registering!TypeOK
  <2>2. RegisteringCounted' /\ RegisteringUsedOnce' /\ RegisteringApprovedWasProven'
    BY <2>1, RegisteringCallStep DEF RegisteringIInv
  <2>3. /\ call[k].by \in Emails => call[k].by \in proven
        /\ call[k].by \in {call[k].email, call[k].phone.number}
    BY <1>7 DEF Registering!InsertUser, RegisteringIInv, RegisteringApprovedWasProven,
      Registering!Named
  <2>4. /\ user'[u] = [email |-> call[k].email, phone |-> call[k].phone, by |-> call[k].by]
        /\ \A v \in Users \ {u} : user'[v] = user[v]
    BY <1>7 DEF Registering!InsertUser, RegisteringIInv, Registering!TypeOK
  <2>5. Registering!PasswordsWereApproved'
    BY <2>1, <2>3, <2>4 DEF Registering!PasswordsWereApproved, Registering!Registered, RegisteringIInv
  <2> QED BY <2>2, <2>5
<1>8. ASSUME NEW k \in Calls, Registering!CheckFree(k) PROVE Rest'
  <2>1. \/ call'[k].op = "none"
        \/ /\ call'[k].op = "free" /\ call'[k].by = call[k].by
           /\ call'[k].email = call[k].email /\ call'[k].phone = call[k].phone
    BY <1>8, RegisteringCallShapes, RegisteringIdleShape DEF Registering!CheckFree, Registering!End,
      Registering!Continue, RegisteringIInv, Registering!TypeOK, Registering!RegisterCall
  <2>2. \A j \in Calls \ {k} : call'[j] = call[j]
    BY <1>8 DEF Registering!CheckFree, Registering!End, Registering!Continue, RegisteringIInv,
      Registering!TypeOK
  <2>3. RegisteringGoesOn(call[k].by, call[k].email, call[k].phone, proven)
    BY <1>8 DEF Registering!CheckFree, RegisteringIInv, RegisteringApprovedWasProven,
      RegisteringGoesOn
  <2> QED BY <1>8, <2>1, <2>2, <2>3, RegisteringCallStep, RegisteringPasswordsKeep DEF
        Registering!CheckFree
<1>9. ASSUME UNCHANGED <<row, sent, overlapped, user, proven, call, spent, reused, crossed>> PROVE Rest'
  BY <1>9, RegisteringCallStep, RegisteringPasswordsKeep DEF RegisteringIInv
<1>10. Rest'
  BY <1>1, <1>2, <1>3, <1>4, <1>5, <1>6, <1>7, <1>8, <1>9, RegisteringSendStep,
    RegisteringSetStatusStep, RegisteringSpendStep, RegisteringPasswordStep,
     RegisteringCleanupStep DEF Registering!Next, Registering!MailCode, Registering!StorePreference,
         Registering!vars
<1> QED BY <1>0, <1>10 DEF RegisteringIInv, RegisteringCounted

\* The invariant implies the promise.
LEMMA RegisteringAccounts == ASSUME RegisteringIInv PROVE Registering!AccountsProven
  BY DEF RegisteringIInv, RegisteringCodesCounted, RegisteringCodesOf, RegisteringUsedOnce,
    Registering!CodesWithinLimit, Registering!AccountsProven
-----------------------------------------------------------------------------
\* In its scene a step of the services is one of Registration.
LEMMA RegisteringSteps ==
    ASSUME scene = "registration", [Next]_vars
    PROVE  scene' = "registration" /\ [Registering!Next]_(Registering!vars)
<1>1. CASE Next
  BY <1>1 DEF Next
<1>2. CASE UNCHANGED vars
  BY <1>2 DEF vars, vRegistering, Registering!vars, Registering!mailVars, Registering!useVars
<1> QED BY <1>1, <1>2

RegisteringHolds == scene = "registration" => RegisteringIInv

\* The invariant of the scene holds of every behaviour of the services.
LEMMA RegisteringInvariant == Spec => []RegisteringHolds
<1>0. RegisteringAssumption
  BY ServicesAssumption DEF ServicesAssumption, RegisteringAssumption
<1>1. Init => RegisteringHolds
  BY <1>0, RegisteringInitial DEF Init, RegisteringHolds
<1>2. RegisteringHolds /\ [Next]_vars => RegisteringHolds'
  <2> SUFFICES ASSUME RegisteringHolds, [Next]_vars, scene' = "registration" PROVE RegisteringIInv'
    BY DEF RegisteringHolds
  <2>1. scene = "registration"
    BY DEF Next, vars
  <2>2. RegisteringIInv /\ [Registering!Next]_(Registering!vars)
    BY <2>1, RegisteringSteps DEF RegisteringHolds
  <2> QED BY <1>0, <2>2, RegisteringStep
<1> QED BY <1>1, <1>2, PTL DEF Spec
-----------------------------------------------------------------------------
(***************************************************************************)
(* FarmOnboarding: farms, their certificates and the role of a farmer      *)
(* (FarmService).                                                          *)
(***************************************************************************)
OnboardingBiometric == {"biometric", "card", "face"}
OnboardingAtFarm == OnboardingBiometric \cup {"images", "locked", "saved"}

\* Handlers, certificates and decisions are about farms that are there, and
\* an identity is checked only of the owner of a PENDING farm.
OnboardingAboutFarms ==
    /\ \A k \in Calls : call[k].op \in OnboardingAtFarm => call[k].farm \in Onboarding!Registered
    /\ \A k \in Calls : call[k].op \in OnboardingBiometric => call[k].status = "PENDING"
    /\ \A c \in Certs : cert[c] # Null => cert[c].farm \in Onboarding!Registered
    /\ \A f \in Farms : verdict[f] # Null => f \in Onboarding!Registered

OnboardingOneFarm == \A f, g \in Onboarding!Registered : farm[f].owner = farm[g].owner => f = g

OnboardingFarmersIdentified ==
    \A u \in Users : role[u] = "FARMER" /\ u \notin granted =>
        \E f \in identified : farm[f].owner = u

OnboardingIInv ==
    /\ Onboarding!TypeOK
    /\ OnboardingAboutFarms
    /\ OnboardingOneFarm
    /\ OnboardingFarmersIdentified
    /\ Onboarding!VerdictStands
    /\ Onboarding!CertificatesAwaited
-----------------------------------------------------------------------------
\* The initial states satisfy the invariant.
LEMMA OnboardingInitial == ASSUME Onboarding!NullAssumption PROVE Onboarding!Init => OnboardingIInv
<1> SUFFICES ASSUME Onboarding!NullAssumption, Onboarding!Init PROVE OnboardingIInv
  OBVIOUS
<1>1. Onboarding!Registered = {} /\ \A k \in Calls : call[k] = Onboarding!Idle /\ call[k].op = "none"
  BY DEF Onboarding!Init, Onboarding!Idle, Onboarding!Registered
<1>2. Onboarding!TypeOK
  BY <1>1 DEF Onboarding!Init, Onboarding!TypeOK, Onboarding!CallRecords, Onboarding!NoCall,
    Onboarding!Idle, Onboarding!Roles
<1>3. OnboardingAboutFarms /\ OnboardingOneFarm
  BY <1>1 DEF Onboarding!Init, OnboardingAboutFarms, OnboardingOneFarm, OnboardingAtFarm,
    OnboardingBiometric
<1>4. OnboardingFarmersIdentified /\ Onboarding!VerdictStands /\ Onboarding!CertificatesAwaited
  BY DEF Onboarding!Init, OnboardingFarmersIdentified, Onboarding!VerdictStands,
    Onboarding!CertificatesAwaited
<1> QED BY <1>2, <1>3, <1>4 DEF OnboardingIInv

\* What a call in flight is, by its op.
LEMMA OnboardingCallShapes ==
    ASSUME Onboarding!TypeOK, NEW k \in Calls
    PROVE  /\ call[k].op = "none" <=> call[k] = Onboarding!Idle
           /\ call[k].op \in OnboardingAtFarm \cup {"none", "register"}
           /\ call[k].op = "register" =>
                 /\ call[k] \in Onboarding!RegisterCall
                 /\ call[k].user \in Users /\ call[k].profile \in Profiles
           /\ call[k].op \in OnboardingAtFarm => call[k].farm \in Farms
           /\ call[k].op \in OnboardingBiometric \cup {"images"} =>
                 /\ call[k] \in Onboarding!CopyCall
                 /\ call[k].status \in Onboarding!FarmStatus /\ call[k].profile \in Profiles
           /\ call[k].op \in {"locked", "saved"} => call[k] \in Onboarding!CertCall
<1> USE DEF OnboardingAtFarm, OnboardingBiometric
<1>1. call[k] \in Onboarding!CallRecords
  BY DEF Onboarding!TypeOK
<1>2. CASE call[k] \in Onboarding!NoCall
  BY <1>2 DEF Onboarding!NoCall, Onboarding!Idle
<1>3. CASE call[k] \in Onboarding!RegisterCall
  BY <1>3 DEF Onboarding!RegisterCall, Onboarding!Idle
<1>4. CASE call[k] \in Onboarding!CopyCall
  BY <1>4 DEF Onboarding!CopyCall, Onboarding!Idle
<1>5. CASE call[k] \in Onboarding!CertCall
  BY <1>5 DEF Onboarding!CertCall, Onboarding!Idle
<1> QED BY <1>1, <1>2, <1>3, <1>4, <1>5 DEF Onboarding!CallRecords

\* The fields of a row.
LEMMA OnboardingFarmShapes ==
    ASSUME Onboarding!TypeOK, NEW f \in Onboarding!Registered
    PROVE  /\ f \in Farms /\ farm[f] \in Onboarding!FarmRow
           /\ farm[f].owner \in Users /\ farm[f].status \in Onboarding!FarmStatus
           /\ farm[f].profile \in Profiles
  BY DEF Onboarding!TypeOK, Onboarding!Registered, Onboarding!FarmRow

\* The record of a handler that is not at work.
LEMMA OnboardingIdleCall == Onboarding!Idle \in Onboarding!CallRecords
  BY DEF Onboarding!Idle, Onboarding!CallRecords, Onboarding!NoCall

\* A row written over by status and profile is a row.
LEMMA OnboardingSaveCopyRow ==
    ASSUME Onboarding!NullAssumption, Onboarding!TypeOK, NEW f \in Onboarding!Registered,
           NEW s \in Onboarding!FarmStatus, NEW p \in Profiles,
           Onboarding!SaveCopy(f, s, p)
    PROVE  /\ farm' \in [Farms -> Onboarding!FarmRow \cup {Null}]
           /\ farm'[f].owner = farm[f].owner /\ farm'[f].status = s
           /\ \A g \in Farms \ {f} : farm'[g] = farm[g]
           /\ Onboarding!Registered' = Onboarding!Registered
<1>1. farm' = [farm EXCEPT ![f] = [farm[f] EXCEPT !.status = s, !.profile = p]]
  BY DEF Onboarding!SaveCopy
<1>2. [farm[f] EXCEPT !.status = s, !.profile = p] \in Onboarding!FarmRow
  BY OnboardingFarmShapes DEF Onboarding!FarmRow
<1>3. /\ farm'[f] \in Onboarding!FarmRow /\ f \in Farms
      /\ farm'[f].owner = farm[f].owner /\ farm'[f].status = s
      /\ \A g \in Farms \ {f} : farm'[g] = farm[g]
  BY <1>1, <1>2, OnboardingFarmShapes DEF Onboarding!TypeOK, Onboarding!FarmRow
<1>4. Onboarding!Registered' = Onboarding!Registered
  BY <1>3 DEF Onboarding!Registered, Onboarding!NullAssumption
<1> QED BY <1>1, <1>2, <1>3, <1>4 DEF Onboarding!TypeOK
-----------------------------------------------------------------------------
\* Every step keeps the types.
LEMMA OnboardingTypeStep ==
    ASSUME Onboarding!NullAssumption, OnboardingIInv, [Onboarding!Next]_(Onboarding!vars)
    PROVE  Onboarding!TypeOK'
<1> USE OnboardingIdleCall DEF OnboardingIInv, Onboarding!TypeOK, Onboarding!End
<1>0. identified \subseteq Onboarding!Registered /\ Onboarding!Registered \subseteq Farms
  BY DEF Onboarding!Registered
<1>1. ASSUME NEW k \in Calls, NEW u \in Users, NEW p \in Profiles, Onboarding!CheckNoFarm(k, u, p)
      PROVE Onboarding!TypeOK'
  <2>1. [op |-> "register", user |-> u, profile |-> p] \in Onboarding!CallRecords
    BY DEF Onboarding!CallRecords, Onboarding!RegisterCall
  <2> QED BY <1>1, <2>1 DEF Onboarding!CheckNoFarm, Onboarding!Start, Onboarding!farmVars,
      Onboarding!userVars, Onboarding!historyVars, Onboarding!Registered
<1>2. ASSUME NEW k \in Calls, NEW f \in Farms, Onboarding!InsertFarm(k, f) PROVE Onboarding!TypeOK'
  <2>1. [owner |-> call[k].user, status |-> "PENDING", profile |-> call[k].profile] \in Onboarding!FarmRow
    BY <1>2, OnboardingCallShapes DEF Onboarding!InsertFarm, Onboarding!FarmRow,
      Onboarding!FarmStatus
  <2>2. identified \subseteq Onboarding!Registered'
    BY <1>0, <1>2, <2>1 DEF Onboarding!InsertFarm, Onboarding!Registered
  <2> QED BY <1>2, <2>1, <2>2 DEF Onboarding!InsertFarm, Onboarding!userVars, Onboarding!historyVars
<1>3. ASSUME NEW k \in Calls, NEW f \in Farms, Onboarding!ReadForBiometric(k, f)
      PROVE  Onboarding!TypeOK'
  <2>1. [op |-> "biometric", farm |-> f, status |-> farm[f].status, profile |-> farm[f].profile]
            \in Onboarding!CallRecords
    BY <1>3, OnboardingFarmShapes DEF Onboarding!ReadForBiometric, Onboarding!CallRecords,
      Onboarding!CopyCall
  <2> QED BY <1>3, <2>1 DEF Onboarding!ReadForBiometric, Onboarding!Start, Onboarding!farmVars,
      Onboarding!userVars, Onboarding!historyVars, Onboarding!Registered
<1>4. ASSUME NEW k \in Calls, Onboarding!CardRead(k) \/ Onboarding!FaceMatched(k)
      PROVE  Onboarding!TypeOK'
  <2>1. \A op \in {"card", "face"} :
            call[k].op \in OnboardingBiometric => [call[k] EXCEPT !.op = op] \in Onboarding!CallRecords
    BY OnboardingCallShapes DEF Onboarding!CallRecords, Onboarding!CopyCall, OnboardingBiometric
  <2>2. call' \in [Calls -> Onboarding!CallRecords]
    BY <1>4, <2>1 DEF Onboarding!CardRead, Onboarding!FaceMatched, Onboarding!Continue,
      OnboardingBiometric
  <2> QED BY <1>4, <2>2 DEF Onboarding!CardRead, Onboarding!FaceMatched, Onboarding!farmVars,
      Onboarding!userVars, Onboarding!historyVars, Onboarding!Registered
<1>5. ASSUME NEW k \in Calls, Onboarding!SaveIdentified(k) PROVE Onboarding!TypeOK'
  <2>1. /\ call[k].farm \in Onboarding!Registered /\ call[k].profile \in Profiles
        /\ Onboarding!SaveCopy(call[k].farm, "VERIFIED", call[k].profile)
    BY <1>5, OnboardingCallShapes DEF Onboarding!SaveIdentified, OnboardingAboutFarms,
      OnboardingAtFarm, OnboardingBiometric
  <2>2. /\ farm' \in [Farms -> Onboarding!FarmRow \cup {Null}] /\
             Onboarding!Registered' = Onboarding!Registered
    BY <2>1, OnboardingSaveCopyRow DEF Onboarding!FarmStatus
  <2>3. farm[call[k].farm].owner \in Users
    BY <2>1, OnboardingFarmShapes
  <2>4. role' \in [Users -> Onboarding!Roles]
    BY <1>5, <2>3 DEF Onboarding!SaveIdentified, Onboarding!Roles
  <2> QED BY <1>0, <1>5, <2>1, <2>2, <2>4 DEF Onboarding!SaveIdentified, Onboarding!Overruled
<1>6. ASSUME NEW u \in Users, NEW p \in Profiles, Onboarding!UpdateFarm(u, p)
      PROVE  Onboarding!TypeOK'
  <2>1. PICK f \in Onboarding!FarmsOf(u) : farm' = [farm EXCEPT ![f].profile = p]
    BY <1>6 DEF Onboarding!UpdateFarm
  <2>2. f \in Onboarding!Registered
    BY DEF Onboarding!FarmsOf
  <2>3. [farm[f] EXCEPT !.profile = p] \in Onboarding!FarmRow
    BY <2>2, OnboardingFarmShapes DEF Onboarding!FarmRow
  <2>4. /\ farm' \in [Farms -> Onboarding!FarmRow \cup {Null}] /\
             Onboarding!Registered' = Onboarding!Registered
    BY <2>1, <2>2, <2>3 DEF Onboarding!Registered, Onboarding!NullAssumption
  <2> QED BY <1>0, <1>6, <2>4 DEF Onboarding!UpdateFarm, Onboarding!userVars, Onboarding!historyVars
<1>7. ASSUME NEW k \in Calls, NEW u \in Users, Onboarding!ReadForImages(k, u)
      PROVE  Onboarding!TypeOK'
  <2>1. \A f \in Onboarding!FarmsOf(u) : [op |-> "images", farm |-> f, status |-> farm[f].status,
                               profile |-> farm[f].profile] \in Onboarding!CallRecords
    BY OnboardingFarmShapes DEF Onboarding!CallRecords, Onboarding!CopyCall, Onboarding!FarmsOf
  <2> QED BY <1>7, <2>1 DEF Onboarding!ReadForImages, Onboarding!Start, Onboarding!farmVars,
      Onboarding!userVars, Onboarding!historyVars, Onboarding!Registered
<1>8. ASSUME NEW k \in Calls, Onboarding!SaveImages(k) PROVE Onboarding!TypeOK'
  <2>1. /\ call[k].farm \in Onboarding!Registered /\ call[k].profile \in Profiles
        /\ call[k].status \in Onboarding!FarmStatus
        /\ Onboarding!SaveCopy(call[k].farm, call[k].status, call[k].profile)
    BY <1>8, OnboardingCallShapes DEF Onboarding!SaveImages, OnboardingAboutFarms, OnboardingAtFarm,
      OnboardingBiometric
  <2>2. /\ farm' \in [Farms -> Onboarding!FarmRow \cup {Null}] /\
             Onboarding!Registered' = Onboarding!Registered
    BY <2>1, OnboardingSaveCopyRow
  <2> QED BY <1>0, <1>8, <2>1, <2>2 DEF Onboarding!SaveImages, Onboarding!Overruled,
      Onboarding!userVars
<1>9. ASSUME NEW k \in Calls, NEW u \in Users, Onboarding!LockStatus(k, u) PROVE Onboarding!TypeOK'
  <2>1. \A f \in Onboarding!FarmsOf(u) : [op |-> "locked", farm |-> f] \in Onboarding!CallRecords
    BY OnboardingFarmShapes DEF Onboarding!CallRecords, Onboarding!CertCall, Onboarding!FarmsOf
  <2> QED BY <1>9, <2>1 DEF Onboarding!LockStatus, Onboarding!Start, Onboarding!farmVars,
      Onboarding!userVars, Onboarding!historyVars, Onboarding!Registered
<1>10. ASSUME NEW k \in Calls, NEW c \in Certs, Onboarding!SaveCertificate(k, c)
       PROVE  Onboarding!TypeOK'
  <2>1. /\ [farm |-> call[k].farm, status |-> "PENDING"] \in Onboarding!CertRow
        /\ [call[k] EXCEPT !.op = "saved"] \in Onboarding!CallRecords
    BY <1>10, OnboardingCallShapes DEF Onboarding!SaveCertificate, Onboarding!CertRow,
      Onboarding!CertStatus, Onboarding!CallRecords, Onboarding!CertCall, OnboardingAtFarm
  <2> QED BY <1>10, <2>1
          DEF Onboarding!SaveCertificate, Onboarding!Continue, Onboarding!farmVars,
            Onboarding!userVars, Onboarding!historyVars, Onboarding!Registered
<1>11. ASSUME NEW k \in Calls, Onboarding!CommitStatus(k) PROVE Onboarding!TypeOK'
  <2>1. call[k].farm \in Onboarding!Registered
    BY <1>11 DEF Onboarding!CommitStatus, OnboardingAboutFarms, OnboardingAtFarm
  <2>2. [farm[call[k].farm] EXCEPT !.status = "PENDING_APPROVE"] \in Onboarding!FarmRow
    BY <2>1, OnboardingFarmShapes DEF Onboarding!FarmRow, Onboarding!FarmStatus
  <2>3. /\ farm' \in [Farms -> Onboarding!FarmRow \cup {Null}] /\
             Onboarding!Registered' = Onboarding!Registered
    BY <1>11, <2>1, <2>2 DEF Onboarding!CommitStatus, Onboarding!Registered,
      Onboarding!NullAssumption
  <2> QED BY <1>0, <1>11, <2>3 DEF Onboarding!CommitStatus, Onboarding!userVars
<1>12. ASSUME NEW f \in Farms, NEW a \in Onboarding!Verdicts, Onboarding!Approve(f, a)
       PROVE  Onboarding!TypeOK'
  <2>1. [farm[f] EXCEPT !.status = a] \in Onboarding!FarmRow
    BY <1>12, OnboardingFarmShapes DEF Onboarding!Approve, Onboarding!FarmRow,
      Onboarding!FarmStatus, Onboarding!Verdicts
  <2>2. /\ farm' \in [Farms -> Onboarding!FarmRow \cup {Null}] /\
             Onboarding!Registered' = Onboarding!Registered
    BY <1>12, <2>1 DEF Onboarding!Approve, Onboarding!Registered, Onboarding!NullAssumption
  <2>3. a # "BLOCKED" => [farm |-> f, status |-> a] \in Onboarding!CertRow
    BY DEF Onboarding!CertRow, Onboarding!CertStatus, Onboarding!Verdicts
  <2>4. cert' \in [Certs -> Onboarding!CertRow \cup {Null}]
    BY <1>12, <2>3 DEF Onboarding!Approve, Onboarding!DecideCerts
  <2> QED BY <1>0, <1>12, <2>2, <2>4 DEF Onboarding!Approve, Onboarding!userVars
<1>13. ASSUME NEW u \in Users, NEW r \in Onboarding!Roles, Onboarding!UpdateRole(u, r)
       PROVE  Onboarding!TypeOK'
  BY <1>13 DEF Onboarding!UpdateRole, Onboarding!farmVars, Onboarding!historyVars,
    Onboarding!Registered
<1>14. ASSUME NEW u \in Users, Onboarding!UpdateUserStatus(u) PROVE Onboarding!TypeOK'
  BY <1>14 DEF Onboarding!UpdateUserStatus, Onboarding!farmVars, Onboarding!historyVars,
    Onboarding!Registered
<1>15. ASSUME NEW u \in Users, Onboarding!Login(u) \/ Onboarding!RefreshToken(u)
       PROVE  Onboarding!TypeOK'
  <2>1. \A b \in BOOLEAN : [role |-> role[u], farm |-> b] \in Onboarding!Token
    BY DEF Onboarding!Token
  <2>2. (role[u] = "FARMER") \in BOOLEAN
    OBVIOUS
  <2>3. token' \in [Users -> Onboarding!Token \cup {Null}]
    BY <1>15, <2>1, <2>2 DEF Onboarding!Login, Onboarding!RefreshToken
  <2> QED BY <1>15, <2>3 DEF Onboarding!Login, Onboarding!RefreshToken, Onboarding!farmVars,
      Onboarding!historyVars, Onboarding!Registered
<1>16. ASSUME NEW k \in Calls, Onboarding!Fail(k) PROVE Onboarding!TypeOK'
  <2>1. call[k].op = "saved" => call[k].farm \in Farms
    BY OnboardingCallShapes DEF OnboardingAtFarm
  <2> QED BY <1>16, <2>1 DEF Onboarding!Fail, Onboarding!farmVars, Onboarding!userVars,
      Onboarding!Registered
<1>17. CASE UNCHANGED Onboarding!vars
  BY <1>17 DEF Onboarding!vars, Onboarding!Registered
<1> HIDE DEF Onboarding!TypeOK, OnboardingIInv
<1> QED BY <1>1, <1>2, <1>3, <1>4, <1>5, <1>6, <1>7, <1>8, <1>9, <1>10, <1>11, <1>12, <1>13,
           <1>14, <1>15, <1>16, <1>17
        DEF Onboarding!Next
-----------------------------------------------------------------------------
OnboardingOthers == OnboardingAboutFarms /\ OnboardingOneFarm /\ OnboardingFarmersIdentified /\
    Onboarding!VerdictStands /\ Onboarding!CertificatesAwaited

\* What handlers do between two statements, and what only concerns users: no
\* farm, certificate or decision changes, and a saved certificate stays known.
OnboardingQuiet ==
    /\ UNCHANGED <<Onboarding!farmVars, cert, verdict, overruled>>
    /\ uncommitted \subseteq uncommitted'
    /\ \A k \in Calls :
          /\ call'[k].op \in OnboardingAtFarm =>
                /\ call'[k].farm \in Onboarding!Registered
                /\ call'[k].op \in OnboardingBiometric => call'[k].status = "PENDING"
          /\ call[k].op = "saved" =>
                \/ call'[k].op = "saved" /\ call'[k].farm = call[k].farm
                \/ call[k].farm \in uncommitted'
    /\ \A u \in Users : role'[u] = "FARMER" /\ u \notin granted' =>
          role[u] = "FARMER" /\ u \notin granted

\* What the steps that write neither farms nor roles keep.
LEMMA OnboardingQuietKeeps == ASSUME OnboardingIInv, OnboardingQuiet PROVE OnboardingOthers'
<1> USE DEF OnboardingIInv, OnboardingQuiet
<1>1. Onboarding!Registered' = Onboarding!Registered
  BY DEF Onboarding!Registered, Onboarding!farmVars
<1>2. OnboardingAboutFarms'
  BY <1>1 DEF OnboardingAboutFarms, OnboardingAtFarm
<1>3. OnboardingOneFarm'
  BY <1>1 DEF OnboardingOneFarm, Onboarding!farmVars
<1>4. OnboardingFarmersIdentified'
  BY DEF OnboardingFarmersIdentified, Onboarding!farmVars
<1>5. Onboarding!VerdictStands'
  BY DEF Onboarding!VerdictStands, Onboarding!farmVars
<1>6. Onboarding!CertificatesAwaited'
  BY DEF Onboarding!CertificatesAwaited, Onboarding!farmVars
<1> QED BY <1>2, <1>3, <1>4, <1>5, <1>6 DEF OnboardingOthers

\* A handler that starts, goes on or fails without having saved anything.
LEMMA OnboardingCallGoesOn ==
    ASSUME OnboardingIInv, NEW k \in Calls, NEW record,
           call' = [call EXCEPT ![k] = record], call[k].op # "saved",
           record.op \in OnboardingAtFarm =>
               /\ record.farm \in Onboarding!Registered
               /\ record.op \in OnboardingBiometric => record.status = "PENDING",
           UNCHANGED <<Onboarding!farmVars, cert, Onboarding!userVars, Onboarding!historyVars>>
    PROVE  OnboardingOthers'
<1>1. /\ call'[k] = record
      /\ \A j \in Calls \ {k} : call'[j] = call[j]
  BY DEF OnboardingIInv, Onboarding!TypeOK
<1>2. OnboardingQuiet
  BY <1>1 DEF OnboardingQuiet, OnboardingIInv, OnboardingAboutFarms, Onboarding!userVars,
    Onboarding!historyVars
<1> QED BY <1>2, OnboardingQuietKeeps

\* The steps of handlers that only read.
LEMMA OnboardingHandlerSteps ==
    ASSUME OnboardingIInv, NEW k \in Calls,
           \/ \E u \in Users, p \in Profiles : Onboarding!CheckNoFarm(k, u, p)
           \/ \E f \in Farms : Onboarding!ReadForBiometric(k, f)
           \/ Onboarding!CardRead(k) \/ Onboarding!FaceMatched(k)
           \/ \E u \in Users : Onboarding!ReadForImages(k, u) \/ Onboarding!LockStatus(k, u)
    PROVE  OnboardingOthers'
<1> USE DEF OnboardingAtFarm, OnboardingBiometric
<1>1. ASSUME NEW u \in Users, NEW p \in Profiles, Onboarding!CheckNoFarm(k, u, p)
      PROVE  OnboardingOthers'
  <2> DEFINE record == [op |-> "register", user |-> u, profile |-> p]
  <2>1. record.op = "register"
    OBVIOUS
  <2>2. /\ call[k].op = "none" /\ call' = [call EXCEPT ![k] = record]
        /\ UNCHANGED <<Onboarding!farmVars, cert, Onboarding!userVars, Onboarding!historyVars>>
    BY <1>1 DEF Onboarding!CheckNoFarm, Onboarding!Start, Onboarding!Idle
  <2> HIDE DEF record
  <2> QED BY <2>1, <2>2, OnboardingCallGoesOn
<1>2. ASSUME NEW f \in Farms, Onboarding!ReadForBiometric(k, f) PROVE OnboardingOthers'
  <2> DEFINE record == [op |-> "biometric", farm |-> f, status |-> farm[f].status,
                        profile |-> farm[f].profile]
  <2>1. record.op = "biometric" /\ record.farm = f /\ record.status = farm[f].status
    OBVIOUS
  <2>2. /\ call[k].op = "none" /\ call' = [call EXCEPT ![k] = record]
        /\ f \in Onboarding!Registered /\ farm[f].status = "PENDING"
        /\ UNCHANGED <<Onboarding!farmVars, cert, Onboarding!userVars, Onboarding!historyVars>>
    BY <1>2 DEF Onboarding!ReadForBiometric, Onboarding!Start, Onboarding!Idle
  <2> HIDE DEF record
  <2> QED BY <2>1, <2>2, OnboardingCallGoesOn
<1>3. CASE Onboarding!CardRead(k) \/ Onboarding!FaceMatched(k)
  <2>1. PICK op \in {"card", "face"} :
            /\ call' = [call EXCEPT ![k] = [call[k] EXCEPT !.op = op]]
            /\ call[k].op \in OnboardingBiometric
            /\ UNCHANGED <<Onboarding!farmVars, cert, Onboarding!userVars, Onboarding!historyVars>>
    BY <1>3 DEF Onboarding!CardRead, Onboarding!FaceMatched, Onboarding!Continue
  <2>2. call[k].farm \in Onboarding!Registered /\ call[k].status = "PENDING" /\
          call[k] \in Onboarding!CopyCall
    BY <2>1, OnboardingCallShapes DEF OnboardingIInv, OnboardingAboutFarms
  <2>3. [call[k] EXCEPT !.op = op].farm = call[k].farm
        /\ [call[k] EXCEPT !.op = op].status = call[k].status
    BY <2>2 DEF Onboarding!CopyCall
  <2> QED BY <2>1, <2>2, <2>3, OnboardingCallGoesOn
<1>4. ASSUME NEW u \in Users, Onboarding!ReadForImages(k, u) PROVE OnboardingOthers'
  <2>1. PICK f \in Onboarding!FarmsOf(u) :
            Onboarding!Start(k, [op |-> "images", farm |-> f, status |-> farm[f].status,
                      profile |-> farm[f].profile])
    BY <1>4 DEF Onboarding!ReadForImages
  <2> DEFINE record == [op |-> "images", farm |-> f, status |-> farm[f].status,
                        profile |-> farm[f].profile]
  <2>2. record.op = "images" /\ record.farm = f /\ f \in Onboarding!Registered
    BY DEF Onboarding!FarmsOf
  <2>3. call[k].op = "none" /\ call' = [call EXCEPT ![k] = record]
    BY <2>1 DEF Onboarding!Start, Onboarding!Idle
  <2>4. UNCHANGED <<Onboarding!farmVars, cert, Onboarding!userVars, Onboarding!historyVars>>
    BY <1>4 DEF Onboarding!ReadForImages
  <2> HIDE DEF record
  <2> QED BY <2>2, <2>3, <2>4, OnboardingCallGoesOn
<1>5. ASSUME NEW u \in Users, Onboarding!LockStatus(k, u) PROVE OnboardingOthers'
  <2>1. PICK f \in Onboarding!FarmsOf(u) : Onboarding!Start(k, [op |-> "locked", farm |-> f])
    BY <1>5 DEF Onboarding!LockStatus
  <2> DEFINE record == [op |-> "locked", farm |-> f]
  <2>2. record.op = "locked" /\ record.farm = f /\ f \in Onboarding!Registered
    BY DEF Onboarding!FarmsOf
  <2>3. call[k].op = "none" /\ call' = [call EXCEPT ![k] = record]
    BY <2>1 DEF Onboarding!Start, Onboarding!Idle
  <2>4. UNCHANGED <<Onboarding!farmVars, cert, Onboarding!userVars, Onboarding!historyVars>>
    BY <1>5 DEF Onboarding!LockStatus
  <2> HIDE DEF record
  <2> QED BY <2>2, <2>3, <2>4, OnboardingCallGoesOn
<1> QED BY <1>1, <1>2, <1>3, <1>4, <1>5

\* A handler that fails.
LEMMA OnboardingFailStep ==
    ASSUME OnboardingIInv, NEW k \in Calls, Onboarding!Fail(k)
    PROVE  OnboardingOthers'
<1>1. /\ call'[k] = Onboarding!Idle
      /\ \A j \in Calls \ {k} : call'[j] = call[j]
  BY DEF Onboarding!Fail, Onboarding!End, OnboardingIInv, Onboarding!TypeOK
<1>2. OnboardingQuiet
  BY <1>1 DEF OnboardingQuiet, Onboarding!Fail, Onboarding!Idle, OnboardingIInv,
    OnboardingAboutFarms, OnboardingAtFarm, OnboardingBiometric, Onboarding!userVars
<1> QED BY <1>2, OnboardingQuietKeeps

\* What administrators and sessions do to users.
LEMMA OnboardingUserSteps ==
    ASSUME OnboardingIInv, NEW u \in Users,
           (\E r \in Onboarding!Roles : Onboarding!UpdateRole(u, r)) \/
             Onboarding!UpdateUserStatus(u) \/ Onboarding!Login(u) \/ Onboarding!RefreshToken(u)
    PROVE  OnboardingOthers'
<1>1. \A v \in Users : role'[v] = "FARMER" /\ v \notin granted' =>
          role[v] = "FARMER" /\ v \notin granted
  BY DEF Onboarding!UpdateRole, Onboarding!UpdateUserStatus, Onboarding!Login,
    Onboarding!RefreshToken, OnboardingIInv, Onboarding!TypeOK
<1>2. UNCHANGED <<Onboarding!farmVars, cert, call, Onboarding!historyVars>>
  BY DEF Onboarding!UpdateRole, Onboarding!UpdateUserStatus, Onboarding!Login,
    Onboarding!RefreshToken
<1>3. OnboardingQuiet
  BY <1>1, <1>2 DEF OnboardingQuiet, OnboardingIInv, OnboardingAboutFarms, Onboarding!historyVars
<1> QED BY <1>3, OnboardingQuietKeeps

\* A handler ends, and with it nobody but it is forgotten.
LEMMA OnboardingCallEnds ==
    ASSUME Onboarding!TypeOK, OnboardingAboutFarms, NEW k \in Calls, Onboarding!End(k),
           Onboarding!Registered \subseteq Onboarding!Registered'
    PROVE  /\ call'[k] = Onboarding!Idle /\ \A j \in Calls \ {k} : call'[j] = call[j]
           /\ \A j \in Calls : call'[j].op \in OnboardingAtFarm =>
                 /\ call'[j].farm \in Onboarding!Registered'
                 /\ call'[j].op \in OnboardingBiometric => call'[j].status = "PENDING"
  BY DEF Onboarding!End, Onboarding!TypeOK, OnboardingAboutFarms, OnboardingAtFarm,
    OnboardingBiometric, Onboarding!Idle

\* A farm is inserted for a user without one.
LEMMA OnboardingInsertFarmStep ==
    ASSUME Onboarding!NullAssumption, OnboardingIInv, NEW k \in Calls, NEW f \in Farms,
           Onboarding!InsertFarm(k, f)
    PROVE  OnboardingOthers'
<1> USE DEF OnboardingIInv
<1> DEFINE r == [owner |-> call[k].user, status |-> "PENDING", profile |-> call[k].profile]
<1>1. r \in Onboarding!FarmRow /\ r.owner = call[k].user
  BY OnboardingCallShapes DEF Onboarding!InsertFarm, Onboarding!FarmRow, Onboarding!FarmStatus
<1>2. /\ call[k].op = "register" /\ farm[f] = Null /\ Onboarding!FarmsOf(call[k].user) = {}
      /\ farm'[f] = r /\ \A g \in Farms \ {f} : farm'[g] = farm[g]
      /\ Onboarding!End(k)
      /\ UNCHANGED <<identified, cert, role, granted, verdict, overruled, uncommitted>>
  BY DEF Onboarding!InsertFarm, Onboarding!TypeOK, Onboarding!userVars, Onboarding!historyVars
<1> HIDE DEF r
<1>3. Onboarding!Registered' = Onboarding!Registered \cup {f} /\ f \notin Onboarding!Registered
  BY <1>1, <1>2 DEF Onboarding!Registered, Onboarding!NullAssumption
<1>4. OnboardingAboutFarms'
  BY <1>2, <1>3, OnboardingCallEnds DEF OnboardingAboutFarms, OnboardingAtFarm
<1>5. OnboardingOneFarm'
  <2>1. \A g \in Onboarding!Registered : farm'[g] = farm[g] /\ farm[g].owner # call[k].user
    BY <1>2, <1>3 DEF Onboarding!Registered, Onboarding!FarmsOf
  <2> QED BY <1>1, <1>2, <1>3, <2>1 DEF OnboardingOneFarm
<1>6. OnboardingFarmersIdentified'
  <2>1. \A g \in identified : farm'[g] = farm[g]
    BY <1>2, <1>3 DEF Onboarding!TypeOK, Onboarding!Registered
  <2> QED BY <1>2, <2>1 DEF OnboardingFarmersIdentified
<1>7. Onboarding!VerdictStands'
  BY <1>2, <1>3 DEF Onboarding!VerdictStands, OnboardingAboutFarms
<1>8. Onboarding!CertificatesAwaited'
  <2>1. \A c \in Certs : cert[c] # Null => cert[c].farm # f /\ cert[c].farm \in Farms
    BY <1>3 DEF OnboardingAboutFarms, Onboarding!Registered
  <2>2. \A j \in Calls : call[j].op = "saved" => call'[j] = call[j]
    BY <1>2, <1>3, OnboardingCallEnds
  <2> QED BY <1>2, <2>1, <2>2 DEF Onboarding!CertificatesAwaited
<1> QED BY <1>4, <1>5, <1>6, <1>7, <1>8 DEF OnboardingOthers

\* A farm the status of which becomes s: owners and the other farms stay.
OnboardingBecomes(f, s) ==
    /\ Onboarding!Registered' = Onboarding!Registered
    /\ farm'[f].owner = farm[f].owner /\ farm'[f].status = s
    /\ \A g \in Farms \ {f} : farm'[g] = farm[g]

\* A row that is written keeps its owner.
LEMMA OnboardingOwnersStay ==
    ASSUME Onboarding!TypeOK, OnboardingOneFarm, NEW f \in Onboarding!Registered, NEW s,
           OnboardingBecomes(f, s)
    PROVE  OnboardingOneFarm' /\ \A g \in Onboarding!Registered : farm'[g].owner = farm[g].owner
  BY DEF OnboardingBecomes, OnboardingOneFarm, Onboarding!Registered

\* save() of a farm that was read before.
LEMMA OnboardingSaveSteps ==
    ASSUME Onboarding!NullAssumption, OnboardingIInv, NEW k \in Calls,
           Onboarding!SaveIdentified(k) \/ Onboarding!SaveImages(k)
    PROVE  OnboardingOthers'
<1> USE DEF OnboardingIInv
<1>1. PICK f \in Onboarding!Registered, s \in Onboarding!FarmStatus :
          /\ f = call[k].farm /\ call[k].op \in {"face", "images"}
          /\ OnboardingBecomes(f, s) /\ ~Onboarding!Locked(f)
          /\ \/ s = call[k].status
             \/ s = "VERIFIED" /\ call[k].status = "PENDING"
          /\ overruled' = IF farm[f].status = call[k].status THEN overruled ELSE overruled \cup {f}
          /\ Onboarding!End(k)
          /\ UNCHANGED <<cert, verdict, granted, uncommitted>>
          /\ \/ UNCHANGED <<role, identified>>
             \/ /\ identified' = identified \cup {f}
                /\ role' = [role EXCEPT ![farm[f].owner] = "FARMER"]
  <2>1. /\ call[k].op \in {"face", "images"} /\ call[k].farm \in Onboarding!Registered
        /\ call[k].status \in Onboarding!FarmStatus /\ call[k].profile \in Profiles
        /\ call[k].op = "face" => call[k].status = "PENDING"
    BY OnboardingCallShapes DEF OnboardingAboutFarms, OnboardingAtFarm, OnboardingBiometric,
      Onboarding!SaveIdentified, Onboarding!SaveImages
  <2>2. CASE Onboarding!SaveIdentified(k)
    <3>1. Onboarding!SaveCopy(call[k].farm, "VERIFIED", call[k].profile) /\
            "VERIFIED" \in Onboarding!FarmStatus
      BY <2>2 DEF Onboarding!SaveIdentified, Onboarding!FarmStatus
    <3>2. OnboardingBecomes(call[k].farm, "VERIFIED") /\ ~Onboarding!Locked(call[k].farm)
      BY <2>1, <3>1, OnboardingSaveCopyRow DEF OnboardingBecomes, Onboarding!SaveCopy
    <3> QED BY <2>1, <2>2, <3>1, <3>2 DEF Onboarding!SaveIdentified, Onboarding!Overruled
  <2>3. CASE Onboarding!SaveImages(k)
    <3>1. OnboardingBecomes(call[k].farm, call[k].status) /\ ~Onboarding!Locked(call[k].farm)
      BY <2>1, <2>3, OnboardingSaveCopyRow DEF Onboarding!SaveImages, OnboardingBecomes,
        Onboarding!SaveCopy
    <3> QED BY <2>1, <2>3, <3>1 DEF Onboarding!SaveImages, Onboarding!Overruled, Onboarding!userVars
  <2> QED BY <2>2, <2>3
<1>2. /\ OnboardingOneFarm' /\ \A g \in Onboarding!Registered : farm'[g].owner = farm[g].owner
      /\ Onboarding!Registered' = Onboarding!Registered /\ f \in Farms
  BY <1>1, OnboardingOwnersStay DEF OnboardingBecomes, Onboarding!Registered
<1>3. OnboardingAboutFarms'
  BY <1>1, <1>2, OnboardingCallEnds DEF OnboardingAboutFarms, OnboardingAtFarm
<1>4. OnboardingFarmersIdentified'
  <2>1. \A u \in Users : role'[u] = "FARMER" =>
            role[u] = "FARMER" \/ (u = farm[f].owner /\ f \in identified')
    BY <1>1 DEF Onboarding!TypeOK
  <2>2. identified \subseteq Onboarding!Registered /\ identified \subseteq identified'
    BY <1>1 DEF Onboarding!TypeOK
  <2> QED BY <1>1, <1>2, <2>1, <2>2 DEF OnboardingFarmersIdentified
<1>5. Onboarding!VerdictStands'
  <2>1. ASSUME NEW g \in Farms \ overruled', verdict[g] # Null PROVE farm'[g].status = verdict[g]
    <3>1. g \notin overruled /\ farm[g].status = verdict[g] /\ verdict[g] \in Onboarding!Verdicts
      BY <1>1, <2>1 DEF Onboarding!VerdictStands, Onboarding!TypeOK
    <3>2. CASE g = f
      <4>1. farm[f].status = call[k].status
        BY <1>1, <2>1, <3>2
      <4> QED BY <1>1, <3>1, <3>2, <4>1 DEF OnboardingBecomes, Onboarding!Verdicts
    <3>3. CASE g # f
      BY <1>1, <3>1, <3>3 DEF OnboardingBecomes
    <3> QED BY <3>2, <3>3
  <2> QED BY <1>1, <2>1 DEF Onboarding!VerdictStands
<1>6. Onboarding!CertificatesAwaited'
  <2>1. \A j \in Calls : call[j].op = "saved" => call'[j] = call[j]
    BY <1>1, <1>2, OnboardingCallEnds
  <2>2. ASSUME NEW c \in Certs, cert[c] # Null, cert[c].status = "PENDING"
        PROVE  \/ farm'[cert[c].farm].status \in {"PENDING_APPROVE", "BLOCKED"}
               \/ \E j \in Calls : call'[j].op = "saved" /\ call'[j].farm = cert[c].farm
               \/ cert[c].farm \in uncommitted' \cup overruled'
    <3>1. cert[c].farm \in Farms
      BY <2>2 DEF OnboardingAboutFarms, Onboarding!Registered
    <3>2. CASE cert[c].farm = f
      <4>1. \/ farm[f].status \in {"PENDING_APPROVE", "BLOCKED"}
            \/ f \in uncommitted \cup overruled
        BY <1>1, <2>2, <3>2 DEF Onboarding!CertificatesAwaited, Onboarding!Locked
      <4> QED BY <1>1, <3>2, <4>1 DEF OnboardingBecomes
    <3>3. CASE cert[c].farm # f
      BY <1>1, <2>1, <2>2, <3>1, <3>3 DEF Onboarding!CertificatesAwaited, OnboardingBecomes
    <3> QED BY <3>2, <3>3
  <2> QED BY <1>1, <2>2 DEF Onboarding!CertificatesAwaited
<1> QED BY <1>2, <1>3, <1>4, <1>5, <1>6 DEF OnboardingOthers

\* addCertificates saves a certificate.
LEMMA OnboardingSaveCertificateStep ==
    ASSUME Onboarding!NullAssumption, OnboardingIInv, NEW k \in Calls, NEW c \in Certs,
           Onboarding!SaveCertificate(k, c)
    PROVE  OnboardingOthers'
<1> USE DEF OnboardingIInv
<1>1. /\ call[k].op = "locked" /\ cert[c] = Null /\ call[k] \in Onboarding!CertCall
      /\ call[k].farm \in Onboarding!Registered
      /\ cert'[c] = [farm |-> call[k].farm, status |-> "PENDING"]
      /\ \A d \in Certs \ {c} : cert'[d] = cert[d]
      /\ call'[k] = [call[k] EXCEPT !.op = "saved"]
      /\ \A j \in Calls \ {k} : call'[j] = call[j]
      /\ UNCHANGED <<farm, identified, role, granted, verdict, overruled, uncommitted>>
  BY OnboardingCallShapes
     DEF Onboarding!SaveCertificate, Onboarding!Continue, Onboarding!TypeOK, OnboardingAboutFarms,
       OnboardingAtFarm, Onboarding!farmVars, Onboarding!userVars, Onboarding!historyVars
<1>2. /\ call'[k].op = "saved" /\ call'[k].farm = call[k].farm
      /\ cert'[c].farm = call[k].farm
  BY <1>1 DEF Onboarding!CertCall
<1>3. Onboarding!Registered' = Onboarding!Registered
  BY <1>1 DEF Onboarding!Registered
<1>4. OnboardingAboutFarms'
  <2>1. \A j \in Calls : call'[j].op \in OnboardingAtFarm => call'[j].farm \in Onboarding!Registered
    BY <1>1, <1>2 DEF OnboardingAboutFarms
  <2>2. \A j \in Calls : call'[j].op \in OnboardingBiometric => call'[j].status = "PENDING"
    <3>1. "saved" \notin OnboardingBiometric
      BY DEF OnboardingBiometric
    <3> QED BY <1>1, <1>2, <3>1 DEF OnboardingAboutFarms
  <2>3. \A d \in Certs : cert'[d] # Null => cert'[d].farm \in Onboarding!Registered
    BY <1>1, <1>2 DEF OnboardingAboutFarms
  <2> QED BY <1>1, <1>3, <2>1, <2>2, <2>3 DEF OnboardingAboutFarms
<1>5. OnboardingOneFarm' /\ OnboardingFarmersIdentified' /\ Onboarding!VerdictStands'
  BY <1>1, <1>3 DEF OnboardingOneFarm, OnboardingFarmersIdentified, Onboarding!VerdictStands
<1>6. Onboarding!CertificatesAwaited'
  <2>1. \A j \in Calls : call[j].op = "saved" => call'[j] = call[j]
    BY <1>1
  <2>2. ASSUME NEW d \in Certs, cert'[d] # Null, cert'[d].status = "PENDING"
        PROVE  \/ farm[cert'[d].farm].status \in {"PENDING_APPROVE", "BLOCKED"}
               \/ \E j \in Calls : call'[j].op = "saved" /\ call'[j].farm = cert'[d].farm
               \/ cert'[d].farm \in uncommitted \cup overruled
    <3>1. CASE d = c
      BY <1>2, <3>1
    <3>2. CASE d # c
      BY <1>1, <2>1, <2>2, <3>2 DEF Onboarding!CertificatesAwaited
    <3> QED BY <3>1, <3>2
  <2> QED BY <1>1, <2>2 DEF Onboarding!CertificatesAwaited
<1> QED BY <1>4, <1>5, <1>6 DEF OnboardingOthers

\* ... and commits the status of the farm.
LEMMA OnboardingCommitStatusStep ==
    ASSUME Onboarding!NullAssumption, OnboardingIInv, NEW k \in Calls, Onboarding!CommitStatus(k)
    PROVE  OnboardingOthers'
<1> USE DEF OnboardingIInv
<1>1. PICK f \in Onboarding!Registered :
          /\ f = call[k].farm /\ call[k].op = "saved"
          /\ farm' = [farm EXCEPT ![f].status = "PENDING_APPROVE"]
          /\ verdict' = [verdict EXCEPT ![f] = Null]
          /\ Onboarding!End(k)
          /\ UNCHANGED <<identified, cert, role, granted, overruled, uncommitted>>
  BY DEF Onboarding!CommitStatus, OnboardingAboutFarms, OnboardingAtFarm, Onboarding!userVars
<1>2. OnboardingBecomes(f, "PENDING_APPROVE")
  <2>1. /\ farm'[f] = [farm[f] EXCEPT !.status = "PENDING_APPROVE"]
        /\ \A g \in Farms \ {f} : farm'[g] = farm[g]
        /\ f \in Farms /\ farm[f] \in Onboarding!FarmRow
    BY <1>1, OnboardingFarmShapes DEF Onboarding!TypeOK
  <2>2. /\ farm'[f].owner = farm[f].owner /\ farm'[f].status = "PENDING_APPROVE"
        /\ farm'[f] \in Onboarding!FarmRow
    BY <2>1 DEF Onboarding!FarmRow, Onboarding!FarmStatus
  <2> QED BY <2>1, <2>2 DEF OnboardingBecomes, Onboarding!Registered, Onboarding!NullAssumption
<1>3. /\ OnboardingOneFarm' /\ \A g \in Onboarding!Registered : farm'[g].owner = farm[g].owner
      /\ Onboarding!Registered' = Onboarding!Registered /\ f \in Farms
  BY <1>1, <1>2, OnboardingOwnersStay DEF OnboardingBecomes, Onboarding!Registered
<1>4. OnboardingAboutFarms'
  BY <1>1, <1>3, OnboardingCallEnds DEF OnboardingAboutFarms, OnboardingAtFarm, Onboarding!TypeOK
<1>5. OnboardingFarmersIdentified'
  BY <1>1, <1>3 DEF OnboardingFarmersIdentified, Onboarding!TypeOK
<1>6. Onboarding!VerdictStands'
  BY <1>1, <1>2 DEF Onboarding!VerdictStands, OnboardingBecomes, Onboarding!TypeOK
<1>7. Onboarding!CertificatesAwaited'
  <2>1. \A j \in Calls \ {k} : call'[j] = call[j]
    BY <1>1, <1>3, OnboardingCallEnds
  <2>2. \A c \in Certs : cert[c] # Null => cert[c].farm \in Farms
    BY DEF OnboardingAboutFarms, Onboarding!Registered
  <2> QED BY <1>1, <1>2, <2>1, <2>2 DEF Onboarding!CertificatesAwaited, OnboardingBecomes
<1> QED BY <1>3, <1>4, <1>5, <1>6, <1>7 DEF OnboardingOthers

\* The verdict of an administrator.
LEMMA OnboardingApproveStep ==
    ASSUME Onboarding!NullAssumption, OnboardingIInv, NEW f \in Farms,
           NEW a \in Onboarding!Verdicts, Onboarding!Approve(f, a)
    PROVE  OnboardingOthers'
<1> USE DEF OnboardingIInv
<1>1. /\ f \in Onboarding!Registered /\ ~Onboarding!Locked(f)
      /\ farm' = [farm EXCEPT ![f].status = a]
      /\ verdict' = [verdict EXCEPT ![f] = a]
      /\ UNCHANGED <<identified, role, granted, call, overruled, uncommitted>>
  BY DEF Onboarding!Approve, Onboarding!userVars
<1>2. OnboardingBecomes(f, a)
  <2>1. /\ farm'[f] = [farm[f] EXCEPT !.status = a]
        /\ \A g \in Farms \ {f} : farm'[g] = farm[g]
        /\ f \in Farms /\ farm[f] \in Onboarding!FarmRow
    BY <1>1, OnboardingFarmShapes DEF Onboarding!TypeOK
  <2>2. farm'[f].owner = farm[f].owner /\ farm'[f].status = a /\ farm'[f] \in Onboarding!FarmRow
    BY <2>1 DEF Onboarding!FarmRow, Onboarding!FarmStatus, Onboarding!Verdicts
  <2> QED BY <2>1, <2>2 DEF OnboardingBecomes, Onboarding!Registered, Onboarding!NullAssumption
<1>3. \A c \in Certs :
          \/ cert'[c] = cert[c]
             /\ (a # "BLOCKED" => cert[c] # [farm |-> f, status |-> "PENDING"])
          \/ /\ a # "BLOCKED" /\ cert[c] = [farm |-> f, status |-> "PENDING"]
             /\ cert'[c] = [farm |-> f, status |-> a]
  BY DEF Onboarding!Approve, Onboarding!DecideCerts
<1>4. /\ OnboardingOneFarm' /\ \A g \in Onboarding!Registered : farm'[g].owner = farm[g].owner
      /\ Onboarding!Registered' = Onboarding!Registered
  BY <1>1, <1>2, OnboardingOwnersStay DEF OnboardingBecomes
<1>5. OnboardingAboutFarms'
  <2>1. \A c \in Certs : cert'[c] # Null => cert'[c].farm \in Onboarding!Registered
    BY <1>1, <1>3 DEF OnboardingAboutFarms
  <2> QED BY <1>1, <1>4, <2>1 DEF OnboardingAboutFarms, Onboarding!TypeOK
<1>6. OnboardingFarmersIdentified'
  BY <1>1, <1>4 DEF OnboardingFarmersIdentified, Onboarding!TypeOK
<1>7. Onboarding!VerdictStands'
  BY <1>1, <1>2 DEF Onboarding!VerdictStands, OnboardingBecomes, Onboarding!TypeOK
<1>8. Onboarding!CertificatesAwaited'
  <2>1. ASSUME NEW c \in Certs, cert'[c] # Null, cert'[c].status = "PENDING"
        PROVE  \/ farm'[cert'[c].farm].status \in {"PENDING_APPROVE", "BLOCKED"}
               \/ \E j \in Calls : call'[j].op = "saved" /\ call'[j].farm = cert'[c].farm
               \/ cert'[c].farm \in uncommitted' \cup overruled'
    <3>1. cert'[c] = cert[c] /\ cert[c].farm \in Farms /\ cert[c] \in Onboarding!CertRow
      BY <1>3, <2>1 DEF OnboardingAboutFarms, Onboarding!Registered, Onboarding!TypeOK,
        Onboarding!Verdicts
    <3>2. CASE cert[c].farm = f
      <4>1. cert[c] = [farm |-> f, status |-> "PENDING"]
        BY <2>1, <3>1, <3>2 DEF Onboarding!CertRow
      <4>2. a = "BLOCKED"
        BY <1>3, <2>1, <3>1, <4>1 DEF Onboarding!Verdicts
      <4> QED BY <1>2, <3>1, <3>2, <4>2 DEF OnboardingBecomes
    <3>3. CASE cert[c].farm # f
      BY <1>1, <1>2, <2>1, <3>1, <3>3 DEF Onboarding!CertificatesAwaited, OnboardingBecomes
    <3> QED BY <3>2, <3>3
  <2> QED BY <2>1 DEF Onboarding!CertificatesAwaited
<1> QED BY <1>4, <1>5, <1>6, <1>7, <1>8 DEF OnboardingOthers

\* updateFarm leaves the status alone.
LEMMA OnboardingUpdateFarmStep ==
    ASSUME Onboarding!NullAssumption, OnboardingIInv, NEW u \in Users, NEW p \in Profiles,
           Onboarding!UpdateFarm(u, p)
    PROVE  OnboardingOthers'
<1> USE DEF OnboardingIInv
<1>1. PICK f \in Onboarding!FarmsOf(u) : farm' = [farm EXCEPT ![f].profile = p]
  BY DEF Onboarding!UpdateFarm
<1>2. UNCHANGED <<identified, cert, role, granted, call, verdict, overruled, uncommitted>>
  BY DEF Onboarding!UpdateFarm, Onboarding!userVars, Onboarding!historyVars
<1>3. f \in Onboarding!Registered /\ f \in Farms /\ farm[f] \in Onboarding!FarmRow
  BY OnboardingFarmShapes DEF Onboarding!FarmsOf
<1>4. OnboardingBecomes(f, farm[f].status)
  <2>1. /\ farm'[f] = [farm[f] EXCEPT !.profile = p]
        /\ \A g \in Farms \ {f} : farm'[g] = farm[g]
    BY <1>1, <1>3 DEF Onboarding!TypeOK
  <2>2. farm'[f].owner = farm[f].owner /\ farm'[f].status = farm[f].status /\ farm'[f] \in Onboarding!FarmRow
    BY <1>3, <2>1 DEF Onboarding!FarmRow
  <2> QED BY <1>3, <2>1, <2>2 DEF OnboardingBecomes, Onboarding!Registered,
      Onboarding!NullAssumption
<1>5. /\ OnboardingOneFarm' /\ \A g \in Onboarding!Registered : farm'[g].owner = farm[g].owner
      /\ Onboarding!Registered' = Onboarding!Registered
      /\ \A g \in Farms : farm'[g].status = farm[g].status
  BY <1>3, <1>4, OnboardingOwnersStay DEF OnboardingBecomes
<1>6. OnboardingAboutFarms' /\ OnboardingFarmersIdentified' /\ Onboarding!VerdictStands'
  BY <1>2, <1>5 DEF OnboardingAboutFarms, OnboardingFarmersIdentified, Onboarding!VerdictStands,
    Onboarding!TypeOK
<1>7. Onboarding!CertificatesAwaited'
  <2>1. \A c \in Certs : cert[c] # Null => cert[c].farm \in Farms
    BY DEF OnboardingAboutFarms, Onboarding!Registered
  <2> QED BY <1>2, <1>5, <2>1 DEF Onboarding!CertificatesAwaited
<1> QED BY <1>5, <1>6, <1>7 DEF OnboardingOthers

\* Nor does a stuttering step change anything.
LEMMA OnboardingStutterStep ==
    ASSUME OnboardingIInv, UNCHANGED Onboarding!vars
    PROVE  OnboardingOthers'
  BY OnboardingQuietKeeps DEF Onboarding!vars, OnboardingQuiet, OnboardingIInv,
    OnboardingAboutFarms, Onboarding!farmVars
-----------------------------------------------------------------------------
\* Every step keeps the invariant.
LEMMA OnboardingStep ==
    ASSUME Onboarding!NullAssumption, OnboardingIInv, [Onboarding!Next]_(Onboarding!vars)
    PROVE  OnboardingIInv'
<1>1. OnboardingOthers'
  BY OnboardingHandlerSteps, OnboardingInsertFarmStep, OnboardingSaveSteps,
    OnboardingSaveCertificateStep, OnboardingCommitStatusStep,
     OnboardingFailStep, OnboardingUpdateFarmStep, OnboardingApproveStep, OnboardingUserSteps, OnboardingStutterStep
  DEF Onboarding!Next
<1> QED BY <1>1, OnboardingTypeStep DEF OnboardingIInv, OnboardingOthers

\* A farmer no administrator made is the owner of one farm.
LEMMA OnboardingOwned == ASSUME OnboardingIInv PROVE Onboarding!FarmerHasOneFarm
<1>1. ASSUME NEW u \in Users, role[u] = "FARMER", u \notin granted
      PROVE  \E f \in identified : Onboarding!FarmsOf(u) = {f}
  <2>1. PICK f \in identified : farm[f].owner = u /\ f \in Onboarding!Registered
    BY <1>1 DEF OnboardingIInv, OnboardingFarmersIdentified, Onboarding!TypeOK
  <2>2. Onboarding!FarmsOf(u) = {f}
    BY <2>1 DEF OnboardingIInv, OnboardingOneFarm, Onboarding!FarmsOf
  <2> QED BY <2>2
<1> QED BY <1>1 DEF Onboarding!FarmerHasOneFarm
-----------------------------------------------------------------------------
\* In its scene a step of the services is one of FarmOnboarding.
LEMMA OnboardingSteps ==
    ASSUME scene = "farm", [Next]_vars
    PROVE  scene' = "farm" /\ [Onboarding!Next]_(Onboarding!vars)
<1>1. CASE Next
  BY <1>1 DEF Next
<1>2. CASE UNCHANGED vars
  BY <1>2 DEF vars, vOnboarding, Onboarding!vars
<1> QED BY <1>1, <1>2

OnboardingHolds == scene = "farm" => OnboardingIInv

\* The invariant of the scene holds of every behaviour of the services.
LEMMA OnboardingInvariant == Spec => []OnboardingHolds
<1>0. Onboarding!NullAssumption
  BY ServicesAssumption DEF ServicesAssumption
<1>1. Init => OnboardingHolds
  BY <1>0, OnboardingInitial DEF Init, OnboardingHolds
<1>2. OnboardingHolds /\ [Next]_vars => OnboardingHolds'
  <2> SUFFICES ASSUME OnboardingHolds, [Next]_vars, scene' = "farm" PROVE OnboardingIInv'
    BY DEF OnboardingHolds
  <2>1. scene = "farm"
    BY DEF Next, vars
  <2>2. OnboardingIInv /\ [Onboarding!Next]_(Onboarding!vars)
    BY <2>1, OnboardingSteps DEF OnboardingHolds
  <2> QED BY <1>0, <2>2, OnboardingStep
<1> QED BY <1>1, <1>2, PTL DEF Spec
-----------------------------------------------------------------------------
(***************************************************************************)
(* QrCodes: the QR codes of products (QrService).                          *)
(***************************************************************************)
\* The row counts the scans that were answered, tells whether one was, and how
\* often; nothing was scanned before the code was activated.
ScanningCountsAgree ==
    \A i \in Qrs \ overlapped :
        /\ scans[i] = IF qr[i] = Null THEN 0 ELSE qr[i].scan_count
        /\ genuine[i] <= 1 /\ genuine[i] <= scans[i]
        /\ scans[i] > 1 => qr[i].status = "BLOCKED"
        /\ qr[i] # Null /\ qr[i].status = "CREATED" => qr[i].scan_count = 0

\* The copy of the only handler at work on a code is the row, in a status in
\* which the handler goes on.
ScanningCopiesAreFresh ==
    \A k \in Scanners : call[k] # Scanning!Idle /\ call[k].id \notin overlapped =>
        /\ qr[call[k].id] = call[k].row
        /\ call[k].op = "activate" => call[k].row.status = "CREATED"
        /\ call[k].op = "verify" => call[k].row.status # "BLOCKED"

ScanningOneAtWork ==
    \A j, k \in Scanners :
        call[j] # Scanning!Idle /\ call[k] # Scanning!Idle /\ call[j].id = call[k].id /\ j # k =>
            call[j].id \in overlapped

\* A handler is at work on a row.
ScanningRowsExist == \A k \in Scanners : call[k] # Scanning!Idle => qr[call[k].id] # Null

ScanningIInv ==
    /\ Scanning!TypeOK
    /\ ScanningCountsAgree
    /\ ScanningCopiesAreFresh
    /\ ScanningOneAtWork
    /\ ScanningRowsExist
-----------------------------------------------------------------------------
\* The initial states satisfy the invariant.
LEMMA ScanningInitial == ASSUME Scanning!NullAssumption PROVE Scanning!Init => ScanningIInv
  BY DEF Scanning!Init, ScanningIInv, Scanning!TypeOK, ScanningCountsAgree, ScanningCopiesAreFresh,
    ScanningOneAtWork, ScanningRowsExist, Scanning!Idle, Scanning!NoCall

\* What a call in flight is, by its op.
LEMMA ScanningCallShapes ==
    ASSUME Scanning!TypeOK, NEW k \in Scanners
    PROVE  /\ call[k].op = "none" <=> call[k] = Scanning!Idle
           /\ call[k] # Scanning!Idle => /\ call[k] \in Scanning!CopyCall
                                         /\ call[k].id \in Qrs
                                         /\ call[k].row \in Scanning!Qr
                                         /\ call[k].row.status \in Scanning!QrStatus
                                         /\ call[k].row.scan_count \in Nat
  BY DEF Scanning!TypeOK, Scanning!NoCall, Scanning!CopyCall, Scanning!Qr, Scanning!Idle

\* Every step keeps the types.
LEMMA ScanningTypeStep ==
    ASSUME Scanning!NullAssumption, ScanningIInv, [Scanning!Next]_(Scanning!vars)
    PROVE  Scanning!TypeOK'
<1> USE DEF ScanningIInv, Scanning!TypeOK
<1>0. Scanning!Idle \in Scanning!NoCall
  BY DEF Scanning!Idle, Scanning!NoCall
<1>1. ASSUME NEW i \in Qrs, Scanning!CreateProductQr(i) PROVE Scanning!TypeOK'
  BY <1>1 DEF Scanning!CreateProductQr, Scanning!Qr, Scanning!QrStatus
<1>2. ASSUME NEW k \in Scanners, NEW i \in Qrs, NEW op \in {"activate", "verify"},
             qr[i] # Null, Scanning!Read(k, i, op)
      PROVE Scanning!TypeOK'
  <2>1. [op |-> op, id |-> i, row |-> qr[i]] \in Scanning!CopyCall
    BY <1>2 DEF Scanning!CopyCall
  <2> QED BY <1>2, <2>1 DEF Scanning!Read
<1>3. ASSUME NEW k \in Scanners, Scanning!Activate(k) PROVE Scanning!TypeOK'
  <2>1. [call[k].row EXCEPT !.status = "ACTIVATED"] \in Scanning!Qr
    BY <1>3, ScanningCallShapes DEF Scanning!Activate, Scanning!Qr, Scanning!QrStatus, Scanning!Idle
  <2> QED BY <1>0, <1>3, <2>1 DEF Scanning!Activate, Scanning!Save
<1>4. ASSUME NEW k \in Scanners, Scanning!Verify(k) PROVE Scanning!TypeOK'
  <2>1. Scanning!Scanned(call[k].row) \in Scanning!Qr /\ call[k].id \in Qrs
    BY <1>4, ScanningCallShapes DEF Scanning!Verify, Scanning!Scanned, Scanning!Qr,
      Scanning!QrStatus, Scanning!Idle
  <2> QED BY <1>0, <1>4, <2>1 DEF Scanning!Verify, Scanning!Save
<1>5. ASSUME NEW k \in Scanners, Scanning!Abandon(k) PROVE Scanning!TypeOK'
  BY <1>0, <1>5 DEF Scanning!Abandon
<1>6. CASE UNCHANGED Scanning!vars
  BY <1>6 DEF Scanning!vars
<1> HIDE DEF Scanning!TypeOK
<1> QED BY <1>1, <1>2, <1>3, <1>4, <1>5, <1>6 DEF Scanning!Next, Scanning!ReadToActivate,
    Scanning!ReadToVerify

\* A handler that reads works with the row, and alone unless others do already.
LEMMA ScanningReadKeeps ==
    ASSUME Scanning!NullAssumption, ScanningIInv, NEW k \in Scanners, NEW i \in Qrs,
           NEW op \in {"activate", "verify"},
           qr[i] # Null, Scanning!Read(k, i, op),
           op = "activate" => qr[i].status = "CREATED",
           op = "verify" => qr[i].status # "BLOCKED"
    PROVE  ScanningCountsAgree' /\ ScanningCopiesAreFresh' /\ ScanningOneAtWork' /\ ScanningRowsExist'
<1> USE DEF ScanningIInv
<1>1. /\ call'[k] = [op |-> op, id |-> i, row |-> qr[i]]
      /\ \A j \in Scanners \ {k} : call'[j] = call[j]
      /\ call[k] = Scanning!Idle
      /\ overlapped \subseteq overlapped'
      /\ UNCHANGED <<qr, scans, genuine>>
  BY DEF Scanning!Read, Scanning!TypeOK
<1>2. \A j \in Scanners : call[j] # Scanning!Idle /\ call[j].id = i => i \in overlapped'
  BY DEF Scanning!Read, Scanning!AtWork
<1>3. ScanningCountsAgree'
  BY <1>1 DEF ScanningCountsAgree
<1>4. ScanningCopiesAreFresh'
  BY <1>1 DEF ScanningCopiesAreFresh
<1>5. ScanningOneAtWork'
  BY <1>1, <1>2 DEF ScanningOneAtWork, Scanning!Idle
<1>6. ScanningRowsExist'
  BY <1>1 DEF ScanningRowsExist
<1> QED BY <1>3, <1>4, <1>5, <1>6

\* A handler that saves r over the row it works on, and ends.
LEMMA ScanningSaveKeeps ==
    ASSUME Scanning!NullAssumption, ScanningIInv, NEW k \in Scanners, call[k] # Scanning!Idle,
           NEW r \in Scanning!Qr, Scanning!Save(k, r),
           UNCHANGED overlapped,
           \A i \in Qrs \ {call[k].id} : scans'[i] = scans[i] /\ genuine'[i] = genuine[i],
           call[k].id \notin overlapped =>
              /\ scans'[call[k].id] = r.scan_count
              /\ genuine'[call[k].id] <= 1 /\ genuine'[call[k].id] <= r.scan_count
              /\ r.scan_count > 1 => r.status = "BLOCKED"
              /\ r.status = "CREATED" => r.scan_count = 0
    PROVE  ScanningCountsAgree' /\ ScanningCopiesAreFresh' /\ ScanningOneAtWork' /\ ScanningRowsExist'
<1> USE DEF ScanningIInv
<1>1. /\ call'[k] = Scanning!Idle
      /\ \A j \in Scanners \ {k} : call'[j] = call[j]
      /\ call[k].id \in Qrs
      /\ qr'[call[k].id] = r /\ r # Null
      /\ \A i \in Qrs \ {call[k].id} : qr'[i] = qr[i]
  BY ScanningCallShapes DEF Scanning!Save, Scanning!TypeOK, Scanning!NullAssumption
<1>2. ScanningCountsAgree'
  BY <1>1 DEF ScanningCountsAgree
<1>3. ScanningCopiesAreFresh'
  BY <1>1, ScanningCallShapes DEF ScanningCopiesAreFresh, ScanningOneAtWork
<1>4. ScanningOneAtWork'
  BY <1>1 DEF ScanningOneAtWork
<1>5. ScanningRowsExist'
  BY <1>1, ScanningCallShapes DEF ScanningRowsExist
<1> QED BY <1>2, <1>3, <1>4, <1>5

\* Every step keeps the other parts of the invariant.
LEMMA ScanningOthersStep ==
    ASSUME Scanning!NullAssumption, ScanningIInv, [Scanning!Next]_(Scanning!vars)
    PROVE  ScanningCountsAgree' /\ ScanningCopiesAreFresh' /\ ScanningOneAtWork' /\ ScanningRowsExist'
<1> USE DEF ScanningIInv
<1>1. ASSUME NEW i \in Qrs, Scanning!CreateProductQr(i)
      PROVE  ScanningCountsAgree' /\ ScanningCopiesAreFresh' /\ ScanningOneAtWork' /\ ScanningRowsExist'
  <2>1. /\ qr'[i] = [status |-> "CREATED", scan_count |-> 0] /\ qr'[i] # Null
        /\ qr[i] = Null
        /\ \A j \in Qrs \ {i} : qr'[j] = qr[j]
        /\ UNCHANGED <<call, scans, genuine, overlapped>>
    BY <1>1 DEF Scanning!CreateProductQr, Scanning!TypeOK, Scanning!NullAssumption, Scanning!Qr,
      Scanning!QrStatus
  <2>2. ScanningCountsAgree'
    BY <2>1 DEF ScanningCountsAgree
  <2>3. \A k \in Scanners : call[k] # Scanning!Idle => call[k].id # i /\ call[k].id \in Qrs
    BY <2>1, ScanningCallShapes DEF ScanningRowsExist
  <2>4. ScanningCopiesAreFresh' /\ ScanningOneAtWork' /\ ScanningRowsExist'
    BY <2>1, <2>3 DEF ScanningCopiesAreFresh, ScanningOneAtWork, ScanningRowsExist
  <2> QED BY <2>2, <2>4
<1>2. ASSUME NEW k \in Scanners, Scanning!Activate(k)
      PROVE  ScanningCountsAgree' /\ ScanningCopiesAreFresh' /\ ScanningOneAtWork' /\ ScanningRowsExist'
  <2>1. call[k] # Scanning!Idle /\ call[k].id \in Qrs /\ call[k].row \in Scanning!Qr
    BY <1>2, ScanningCallShapes DEF Scanning!Activate, Scanning!Idle
  <2> DEFINE r == [call[k].row EXCEPT !.status = "ACTIVATED"]
  <2>2. r \in Scanning!Qr /\ r.status = "ACTIVATED" /\ r.scan_count = call[k].row.scan_count
    BY <2>1 DEF Scanning!Qr, Scanning!QrStatus
  <2>3. call[k].id \notin overlapped =>
            qr[call[k].id] = call[k].row /\ call[k].row.scan_count = 0 /\ call[k].row # Null
    BY <1>2, <2>1 DEF ScanningCopiesAreFresh, ScanningCountsAgree, Scanning!Activate,
      Scanning!NullAssumption
  <2>4. call[k].id \notin overlapped =>
            /\ scans[call[k].id] = 0
            /\ genuine[call[k].id] <= 1 /\ genuine[call[k].id] <= 0
    BY <2>1, <2>3 DEF ScanningCountsAgree
  <2> HIDE DEF r
  <2>5. Scanning!Save(k, r) /\ UNCHANGED <<scans, genuine, overlapped>>
    BY <1>2 DEF Scanning!Activate, r
  <2> QED BY <2>1, <2>2, <2>3, <2>4, <2>5, ScanningSaveKeeps
<1>3. ASSUME NEW k \in Scanners, Scanning!Verify(k)
      PROVE  ScanningCountsAgree' /\ ScanningCopiesAreFresh' /\ ScanningOneAtWork' /\ ScanningRowsExist'
  <2>1. call[k] # Scanning!Idle /\ call[k].id \in Qrs /\ call[k].row \in Scanning!Qr /\ call[k].op = "verify"
    BY <1>3, ScanningCallShapes DEF Scanning!Verify, Scanning!Idle
  <2> DEFINE r == Scanning!Scanned(call[k].row)
  <2>2. /\ r \in Scanning!Qr /\ r.scan_count = call[k].row.scan_count + 1
        /\ r.status = IF r.scan_count > 1 THEN "BLOCKED" ELSE "VERIFIED"
        /\ call[k].row.scan_count \in Nat
    BY <2>1 DEF Scanning!Scanned, Scanning!Qr, Scanning!QrStatus
  <2>3. call[k].id \notin overlapped => qr[call[k].id] = call[k].row /\ call[k].row # Null
    BY <2>1 DEF ScanningCopiesAreFresh, Scanning!NullAssumption
  <2>4. /\ scans'[call[k].id] = scans[call[k].id] + 1
        /\ genuine'[call[k].id] = IF r.status = "VERIFIED" THEN genuine[call[k].id] + 1
                                  ELSE genuine[call[k].id]
        /\ scans[call[k].id] \in Nat /\ genuine[call[k].id] \in Nat
        /\ \A i \in Qrs \ {call[k].id} : scans'[i] = scans[i] /\ genuine'[i] = genuine[i]
        /\ Scanning!Save(k, r) /\ UNCHANGED overlapped
    BY <1>3, <2>1 DEF Scanning!Verify, Scanning!TypeOK
  <2>5. call[k].id \notin overlapped =>
            /\ scans[call[k].id] = call[k].row.scan_count
            /\ genuine[call[k].id] <= 1 /\ genuine[call[k].id] <= scans[call[k].id]
    BY <2>1, <2>3 DEF ScanningCountsAgree
  <2> HIDE DEF r
  <2>6. call[k].id \notin overlapped =>
            /\ scans'[call[k].id] = r.scan_count
            /\ genuine'[call[k].id] <= 1 /\ genuine'[call[k].id] <= r.scan_count
            /\ r.scan_count > 1 => r.status = "BLOCKED"
            /\ r.status # "CREATED"
    BY <2>2, <2>4, <2>5
  <2> QED BY <2>1, <2>2, <2>4, <2>6, ScanningSaveKeeps
<1>4. ASSUME NEW k \in Scanners, Scanning!Abandon(k)
      PROVE  ScanningCountsAgree' /\ ScanningCopiesAreFresh' /\ ScanningOneAtWork' /\ ScanningRowsExist'
  <2>1. /\ call'[k] = Scanning!Idle
        /\ \A j \in Scanners \ {k} : call'[j] = call[j]
        /\ UNCHANGED <<qr, scans, genuine, overlapped>>
    BY <1>4 DEF Scanning!Abandon, Scanning!TypeOK
  <2> QED BY <2>1 DEF ScanningCountsAgree, ScanningCopiesAreFresh, ScanningOneAtWork,
      ScanningRowsExist
<1>5. CASE UNCHANGED Scanning!vars
  BY <1>5 DEF Scanning!vars, ScanningCountsAgree, ScanningCopiesAreFresh, ScanningOneAtWork,
    ScanningRowsExist
<1>6. ASSUME NEW k \in Scanners, NEW i \in Qrs,
             Scanning!ReadToActivate(k, i) \/ Scanning!ReadToVerify(k, i)
      PROVE  ScanningCountsAgree' /\ ScanningCopiesAreFresh' /\ ScanningOneAtWork' /\ ScanningRowsExist'
  BY <1>6, ScanningReadKeeps DEF Scanning!ReadToActivate, Scanning!ReadToVerify
<1> HIDE DEF ScanningIInv
<1> QED BY <1>1, <1>2, <1>3, <1>4, <1>5, <1>6 DEF Scanning!Next
-----------------------------------------------------------------------------
\* Every step keeps the invariant.
LEMMA ScanningStep ==
    ASSUME Scanning!NullAssumption, ScanningIInv, [Scanning!Next]_(Scanning!vars)
    PROVE  ScanningIInv'
  BY ScanningTypeStep, ScanningOthersStep DEF ScanningIInv
-----------------------------------------------------------------------------
\* In its scene a step of the services is one of QrCodes.
LEMMA ScanningSteps ==
    ASSUME scene = "qr", [Next]_vars
    PROVE  scene' = "qr" /\ [Scanning!Next]_(Scanning!vars)
<1>1. CASE Next
  BY <1>1 DEF Next
<1>2. CASE UNCHANGED vars
  BY <1>2 DEF vars, vScanning, Scanning!vars
<1> QED BY <1>1, <1>2

ScanningHolds == scene = "qr" => ScanningIInv

\* The invariant of the scene holds of every behaviour of the services.
LEMMA ScanningInvariant == Spec => []ScanningHolds
<1>0. Scanning!NullAssumption
  BY ServicesAssumption DEF ServicesAssumption
<1>1. Init => ScanningHolds
  BY <1>0, ScanningInitial DEF Init, ScanningHolds
<1>2. ScanningHolds /\ [Next]_vars => ScanningHolds'
  <2> SUFFICES ASSUME ScanningHolds, [Next]_vars, scene' = "qr" PROVE ScanningIInv'
    BY DEF ScanningHolds
  <2>1. scene = "qr"
    BY DEF Next, vars
  <2>2. ScanningIInv /\ [Scanning!Next]_(Scanning!vars)
    BY <2>1, ScanningSteps DEF ScanningHolds
  <2> QED BY <1>0, <2>2, ScanningStep
<1> QED BY <1>1, <1>2, PTL DEF Spec
-----------------------------------------------------------------------------
(***************************************************************************)
(* AddressBook: the address book (DeliveryAddressService).                 *)
(***************************************************************************)
AddressingAtMostOne(u) == \A a, b \in Addressing!PrimaryOf(u) : a = b
AddressingSettled(u) == Addressing!AddressesOf(u) # {} => Addressing!PrimaryOf(u) # {} \/ u \in cleared

\* A row a handler is going to write by its id is the user's, or gone.
AddressingRowsStay ==
    \A k \in Calls : call[k].op \in {"delete", "search", "promote"} =>
        /\ address[call[k].id] # Null
        /\ address[call[k].id].user \in {call[k].user, Null}

AddressingOneAtWork(u) ==
    \A j, k \in Calls :
        /\ call[j] # Addressing!Idle /\ call[j].user = u
        /\ call[k] # Addressing!Idle /\ call[k].user = u
        => j = k

\* What the handler at work for u has read is still so.
AddressingFits(k, u) ==
    /\ call[k].op = "add" =>
          IF call[k].value THEN Addressing!PrimaryOf(u) = {} ELSE Addressing!PrimaryOf(u) # {}
    /\ call[k].op = "set" =>
          IF call[k].change = "primary"
          THEN Addressing!PrimaryOf(u) = {} /\
            (call[k].id \in Addressing!AddressesOf(u) \/ AddressingSettled(u))
          ELSE Addressing!PrimaryOf(u) # {}
    /\ call[k].op = "delete" =>
          /\ call[k].id \in Addressing!AddressesOf(u)
          /\ call[k].value = address[call[k].id].is_primary
          /\ AddressingSettled(u)
    /\ call[k].op \in {"search", "promote"} => Addressing!PrimaryOf(u) = {}
    /\ call[k].op = "promote" => call[k].id \in Addressing!AddressesOf(u)

AddressingOrderly(u) ==
    /\ AddressingAtMostOne(u)
    /\ AddressingOneAtWork(u)
    /\ \A k \in Calls : call[k] # Addressing!Idle /\ call[k].user = u => AddressingFits(k, u)
    /\ ~Addressing!AtWork(u) => AddressingSettled(u)

AddressingIInv ==
    /\ Addressing!TypeOK
    /\ AddressingRowsStay
    /\ \A u \in Users \ disturbed : AddressingOrderly(u)
-----------------------------------------------------------------------------
\* The initial states satisfy the invariant.
LEMMA AddressingInitial == ASSUME Addressing!NullAssumption PROVE Addressing!Init => AddressingIInv
<1> SUFFICES ASSUME Addressing!NullAssumption, Addressing!Init PROVE AddressingIInv
  OBVIOUS
<1>1. \A k \in Calls : call[k] = Addressing!Idle /\ call[k].op = "none"
  BY DEF Addressing!Init, Addressing!Idle
<1>2. Addressing!TypeOK
  BY DEF Addressing!Init, Addressing!TypeOK, Addressing!CallRecords, Addressing!NoCall,
    Addressing!Idle
<1>3. AddressingRowsStay
  BY <1>1 DEF AddressingRowsStay
<1>4. \A u \in Users : Addressing!AddressesOf(u) = {} /\ Addressing!PrimaryOf(u) = {}
  BY DEF Addressing!Init, Addressing!AddressesOf, Addressing!PrimaryOf
<1>5. \A u \in Users : AddressingOrderly(u)
  BY <1>1, <1>4 DEF AddressingOrderly, AddressingAtMostOne, AddressingOneAtWork, AddressingSettled
<1> QED BY <1>2, <1>3, <1>5 DEF AddressingIInv

\* What a call in flight is, by its op.
LEMMA AddressingCallShapes ==
    ASSUME Addressing!TypeOK, NEW k \in Calls
    PROVE  /\ call[k].op = "none" <=> call[k] = Addressing!Idle
           /\ call[k].op \in {"none", "add", "set", "delete", "search", "promote"}
           /\ call[k] # Addressing!Idle => call[k].user \in Users
           /\ call[k].op = "add" => call[k] \in Addressing!AddCall /\ call[k].value \in BOOLEAN
           /\ call[k].op = "set" => call[k] \in Addressing!SetCall /\ call[k].id \in Addresses
           /\ call[k].op = "delete" => /\ call[k] \in Addressing!DeleteCall
                                       /\ call[k].id \in Addresses /\ call[k].value \in BOOLEAN
           /\ call[k].op \in {"search", "promote"} =>
                 call[k] \in Addressing!NextCall /\ call[k].id \in Addresses
<1>1. call[k] \in Addressing!CallRecords
  BY DEF Addressing!TypeOK
<1>2. CASE call[k] \in Addressing!NoCall
  BY <1>2 DEF Addressing!NoCall, Addressing!Idle
<1>3. CASE call[k] \in Addressing!AddCall
  BY <1>3 DEF Addressing!AddCall, Addressing!Idle
<1>4. CASE call[k] \in Addressing!SetCall
  BY <1>4 DEF Addressing!SetCall, Addressing!Idle
<1>5. CASE call[k] \in Addressing!DeleteCall
  BY <1>5 DEF Addressing!DeleteCall, Addressing!Idle
<1>6. CASE call[k] \in Addressing!NextCall
  BY <1>6 DEF Addressing!NextCall, Addressing!Idle
<1> QED BY <1>1, <1>2, <1>3, <1>4, <1>5, <1>6 DEF Addressing!CallRecords

\* The fields of a row.
LEMMA AddressingRowShapes ==
    ASSUME Addressing!TypeOK, NEW a \in Addresses, address[a] # Null
    PROVE  address[a].user \in Users \cup {Null} /\ address[a].is_primary \in BOOLEAN
  BY DEF Addressing!TypeOK, Addressing!Address

\* The record of a handler that is not at work.
LEMMA AddressingIdleCall == Addressing!Idle \in Addressing!CallRecords
  BY DEF Addressing!Idle, Addressing!CallRecords, Addressing!NoCall

\* Every step keeps the types.
LEMMA AddressingTypeStep ==
    ASSUME Addressing!NullAssumption, AddressingIInv, [Addressing!Next]_(Addressing!vars)
    PROVE  Addressing!TypeOK'
<1> USE DEF AddressingIInv, Addressing!TypeOK
<1>1. ASSUME NEW k \in Calls, NEW u \in Users, Addressing!UnsetForAdd(k, u) PROVE Addressing!TypeOK'
  <2>1. address' \in [Addresses -> Addressing!Address \cup {Null}]
    BY <1>1 DEF Addressing!UnsetForAdd, Addressing!UnsetAll, Addressing!Address,
      Addressing!AddressesOf
  <2>2. [op |-> "add", user |-> u, value |-> TRUE] \in Addressing!CallRecords
    BY DEF Addressing!CallRecords, Addressing!AddCall
  <2> QED BY <1>1, <2>1, <2>2 DEF Addressing!UnsetForAdd, Addressing!Start
<1>2. ASSUME NEW k \in Calls, NEW u \in Users, Addressing!CheckForAdd(k, u) PROVE Addressing!TypeOK'
  <2>1. [op |-> "add", user |-> u, value |-> Addressing!PrimaryOf(u) = {}] \in Addressing!CallRecords
    BY DEF Addressing!CallRecords, Addressing!AddCall
  <2> QED BY <1>2, <2>1 DEF Addressing!CheckForAdd, Addressing!Start
<1>3. ASSUME NEW k \in Calls, NEW u \in Users, NEW a \in Addresses,
             Addressing!UnsetForUpdate(k, u, a)
      PROVE Addressing!TypeOK'
  <2>1. address' \in [Addresses -> Addressing!Address \cup {Null}]
    BY <1>3 DEF Addressing!UnsetForUpdate, Addressing!UnsetAll, Addressing!Address,
      Addressing!AddressesOf
  <2>2. [op |-> "set", user |-> u, id |-> a, change |-> "primary"] \in Addressing!CallRecords
    BY DEF Addressing!CallRecords, Addressing!SetCall
  <2> QED BY <1>3, <2>1, <2>2 DEF Addressing!UnsetForUpdate, Addressing!Start
<1>4. ASSUME NEW k \in Calls, NEW u \in Users, NEW a \in Addresses,
             Addressing!CheckForUpdate(k, u, a)
      PROVE Addressing!TypeOK'
  <2>1. \A change \in {"other", "kept"} :
            [op |-> "set", user |-> u, id |-> a,
             change |-> IF Addressing!PrimaryOf(u) = {} THEN "primary" ELSE change] \in Addressing!CallRecords
    BY DEF Addressing!CallRecords, Addressing!SetCall
  <2> QED BY <1>4, <2>1 DEF Addressing!CheckForUpdate, Addressing!Start
<1>5. ASSUME NEW k \in Calls, NEW u \in Users, NEW a \in Addresses,
             Addressing!ReadForDelete(k, u, a)
      PROVE Addressing!TypeOK'
  <2>1. address[a].is_primary \in BOOLEAN
    BY <1>5, AddressingRowShapes DEF Addressing!ReadForDelete, Addressing!AddressesOf
  <2>2. [op |-> "delete", user |-> u, id |-> a, value |-> address[a].is_primary] \in Addressing!CallRecords
    BY <2>1 DEF Addressing!CallRecords, Addressing!DeleteCall
  <2> QED BY <1>5, <2>2 DEF Addressing!ReadForDelete, Addressing!Start
<1>6. ASSUME NEW k \in Calls, NEW a \in Addresses, Addressing!AddUserAddress(k, a)
      PROVE  Addressing!TypeOK'
  <2>1. [user |-> call[k].user, is_primary |-> call[k].value] \in Addressing!Address
    BY <1>6, AddressingCallShapes DEF Addressing!AddUserAddress, Addressing!Address,
      Addressing!AddCall
  <2> QED BY <1>6, <2>1, AddressingIdleCall DEF Addressing!AddUserAddress, Addressing!End
<1>7. ASSUME NEW a \in Addresses, Addressing!AddFarmAddress(a) PROVE Addressing!TypeOK'
  BY <1>7 DEF Addressing!AddFarmAddress, Addressing!Nobodys, Addressing!Address
<1>8. ASSUME NEW k \in Calls, Addressing!UpdateUserAddress(k) PROVE Addressing!TypeOK'
  <2>1. /\ call[k].id \in Addresses /\ call[k].user \in Users
        /\ call' \in [Calls -> Addressing!CallRecords]
        /\ disturbed' = disturbed
    BY <1>8, AddressingCallShapes, AddressingIdleCall DEF Addressing!UpdateUserAddress,
      Addressing!End, Addressing!SetCall
  <2>2. cleared' \subseteq Users
    BY <1>8, <2>1 DEF Addressing!UpdateUserAddress
  <2>3. ASSUME NEW value \in BOOLEAN, call[k].id \in Addressing!AddressesOf(call[k].user),
               Addressing!SetPrimary(call[k].id, value)
        PROVE  address' \in [Addresses -> Addressing!Address \cup {Null}]
    BY <2>3 DEF Addressing!SetPrimary, Addressing!Address, Addressing!AddressesOf
  <2>4. address' \in [Addresses -> Addressing!Address \cup {Null}]
    BY <1>8, <2>3 DEF Addressing!UpdateUserAddress
  <2> QED BY <2>1, <2>2, <2>4
<1>9. ASSUME NEW k \in Calls, Addressing!DeleteUserLocation(k) PROVE Addressing!TypeOK'
  <2>1. [op |-> "search", user |-> call[k].user, id |-> call[k].id] \in Addressing!CallRecords
    BY <1>9, AddressingCallShapes DEF Addressing!DeleteUserLocation, Addressing!DeleteCall,
      Addressing!CallRecords, Addressing!NextCall
  <2> QED BY <1>9, <2>1, AddressingIdleCall DEF Addressing!DeleteUserLocation, Addressing!End,
      Addressing!Nobodys, Addressing!Address
<1>10. ASSUME NEW k \in Calls, Addressing!FindSuccessor(k) PROVE Addressing!TypeOK'
  <2>1. \A a \in Addressing!AddressesOf(call[k].user) :
            [op |-> "promote", user |-> call[k].user, id |-> a] \in Addressing!CallRecords
    BY <1>10, AddressingCallShapes DEF Addressing!FindSuccessor, Addressing!NextCall,
      Addressing!CallRecords, Addressing!AddressesOf
  <2> QED BY <1>10, <2>1, AddressingIdleCall DEF Addressing!FindSuccessor, Addressing!End
<1>11. ASSUME NEW k \in Calls, Addressing!PromoteSuccessor(k) PROVE Addressing!TypeOK'
  <2>1. address[call[k].id] # Null /\ call[k].id \in Addresses
    BY <1>11, AddressingCallShapes DEF Addressing!PromoteSuccessor, AddressingRowsStay
  <2>2. address' \in [Addresses -> Addressing!Address \cup {Null}]
    BY <1>11, <2>1 DEF Addressing!PromoteSuccessor, Addressing!SetPrimary, Addressing!Address
  <2> QED BY <1>11, <2>2, AddressingIdleCall DEF Addressing!PromoteSuccessor, Addressing!End
<1>12. ASSUME NEW k \in Calls, Addressing!BreakOff(k) PROVE Addressing!TypeOK'
  BY <1>12, AddressingCallShapes, AddressingIdleCall DEF Addressing!BreakOff, Addressing!End
<1>13. CASE UNCHANGED Addressing!vars
  BY <1>13 DEF Addressing!vars
<1> HIDE DEF Addressing!TypeOK, AddressingIInv
<1> QED BY <1>1, <1>2, <1>3, <1>4, <1>5, <1>6, <1>7, <1>8, <1>9, <1>10, <1>11, <1>12, <1>13
        DEF Addressing!Next

\* Rows keep their user until they are gone, and handlers their address.
LEMMA AddressingRowsStayOn ==
    ASSUME AddressingRowsStay,
           \A a \in Addresses : address[a] # Null =>
               address'[a] # Null /\ address'[a].user \in {address[a].user, Null},
           \A k \in Calls : call'[k].op \in {"delete", "search", "promote"} =>
               /\ call'[k].id \in Addresses
               /\ \/ /\ call[k].op \in {"delete", "search", "promote"}
                     /\ call'[k].id = call[k].id /\ call'[k].user = call[k].user
                  \/ call'[k].id \in Addressing!AddressesOf(call'[k].user)
    PROVE  AddressingRowsStay'
<1> SUFFICES ASSUME NEW k \in Calls, call'[k].op \in {"delete", "search", "promote"}
             PROVE  /\ address'[call'[k].id] # Null
                    /\ address'[call'[k].id].user \in {call'[k].user, Null}
  BY DEF AddressingRowsStay
<1>1. /\ address[call'[k].id] # Null
      /\ address[call'[k].id].user \in {call'[k].user, Null}
  BY DEF AddressingRowsStay, Addressing!AddressesOf
<1> QED BY <1>1

\* A user whose rows and handlers stay as they are.
LEMMA AddressingFrame ==
    ASSUME NEW v \in Users, AddressingOrderly(v),
           Addressing!AddressesOf(v)' = Addressing!AddressesOf(v),
           \A a \in Addressing!AddressesOf(v) : address'[a] = address[a],
           \A k \in Calls : \/ call'[k] = call[k]
                            \/ /\ call[k] = Addressing!Idle \/ call[k].user # v
                               /\ call'[k] = Addressing!Idle \/ call'[k].user # v,
           v \in cleared <=> v \in cleared'
    PROVE  AddressingOrderly(v)'
<1>1. Addressing!PrimaryOf(v)' = Addressing!PrimaryOf(v)
  BY DEF Addressing!PrimaryOf
<1>2. AddressingSettled(v)' <=> AddressingSettled(v)
  BY <1>1 DEF AddressingSettled
<1>3. AddressingAtMostOne(v)'
  BY <1>1 DEF AddressingAtMostOne, AddressingOrderly
<1>4. AddressingOneAtWork(v)'
  BY DEF AddressingOneAtWork, AddressingOrderly
<1>5. ASSUME NEW k \in Calls, call'[k] # Addressing!Idle, call'[k].user = v
      PROVE  AddressingFits(k, v)'
  <2>1. call'[k] = call[k] /\ AddressingFits(k, v)
    BY <1>5 DEF AddressingOrderly
  <2> QED BY <2>1, <1>1, <1>2 DEF AddressingFits
<1>6. ~Addressing!AtWork(v)' => AddressingSettled(v)'
  BY <1>2 DEF AddressingOrderly, Addressing!AtWork
<1> QED BY <1>3, <1>4, <1>5, <1>6 DEF AddressingOrderly

\* A user for whom k goes on, alone.
LEMMA AddressingAtWorkAlone ==
    ASSUME NEW k \in Calls, NEW u \in Users, AddressingAtMostOne(u)', AddressingFits(k, u)',
           call'[k] # Addressing!Idle, call'[k].user = u,
           \A j \in Calls \ {k} : call'[j] = Addressing!Idle \/ call'[j].user # u
    PROVE  AddressingOrderly(u)'
<1>1. Addressing!AtWork(u)'
  BY DEF Addressing!AtWork
<1>2. AddressingOneAtWork(u)'
  BY DEF AddressingOneAtWork
<1> QED BY <1>1, <1>2 DEF AddressingOrderly

\* A user for whom k, alone, has ended.
LEMMA AddressingEnded ==
    ASSUME NEW u \in Users, AddressingAtMostOne(u)', AddressingSettled(u)',
           \A j \in Calls : call'[j] = Addressing!Idle \/ call'[j].user # u
    PROVE  AddressingOrderly(u)'
  BY DEF AddressingOrderly, AddressingOneAtWork

\* The handler of a user no other works for is at work alone.
LEMMA AddressingNoOther ==
    ASSUME Addressing!TypeOK, NEW k \in Calls, call[k] # Addressing!Idle, NEW u \in Users,
           call[k].user = u, AddressingOrderly(u)
    PROVE  /\ \A j \in Calls \ {k} : call[j] = Addressing!Idle \/ call[j].user # u
           /\ AddressingFits(k, u) /\ AddressingAtMostOne(u)
  BY DEF AddressingOrderly, AddressingOneAtWork

\* A handler starts for u: whoever is at work for u is disturbed.
LEMMA AddressingStartAlone ==
    ASSUME Addressing!TypeOK, NEW k \in Calls, NEW record \in Addressing!CallRecords,
           record # Addressing!Idle, NEW u \in Users,
           record.user = u, Addressing!Start(k, record)
    PROVE  /\ call[k] = Addressing!Idle /\ call'[k] = record
           /\ \A j \in Calls \ {k} : call'[j] = call[j]
           /\ disturbed \subseteq disturbed'
           /\ u \notin disturbed' => ~Addressing!AtWork(u)
  BY DEF Addressing!Start, Addressing!TypeOK

\* UPDATE ... SET is_primary = FALSE of the rows of u.
LEMMA AddressingUnsetRows ==
    ASSUME Addressing!NullAssumption, Addressing!TypeOK, NEW u \in Users, Addressing!UnsetAll(u)
    PROVE  /\ Addressing!PrimaryOf(u)' = {} /\ Addressing!AddressesOf(u)' = Addressing!AddressesOf(u)
           /\ \A a \in Addresses : address[a] # Null =>
                 address'[a] # Null /\ address'[a].user = address[a].user
           /\ \A v \in Users \ {u} : /\ Addressing!AddressesOf(v)' = Addressing!AddressesOf(v)
                                     /\ \A a \in Addressing!AddressesOf(v) : address'[a] = address[a]
<1>1. \A a \in Addresses :
          /\ a \in Addressing!AddressesOf(u) => /\ address'[a].user = address[a].user
                                                /\ address'[a].is_primary = FALSE
                                                /\ address'[a] \in Addressing!Address
          /\ a \notin Addressing!AddressesOf(u) => address'[a] = address[a]
  BY DEF Addressing!UnsetAll, Addressing!TypeOK, Addressing!Address, Addressing!AddressesOf
<1>2. Null \notin Addressing!Address
  BY DEF Addressing!NullAssumption
<1>3. Addressing!AddressesOf(u)' = Addressing!AddressesOf(u)
  BY <1>1, <1>2 DEF Addressing!AddressesOf
<1>4. Addressing!PrimaryOf(u)' = {}
  <2>1. \A a \in Addressing!PrimaryOf(u)' : a \in Addressing!AddressesOf(u) /\ a \in Addresses /\
          address'[a].is_primary
    BY <1>3 DEF Addressing!PrimaryOf, Addressing!AddressesOf
  <2> QED BY <1>1, <2>1
<1>5. ASSUME NEW v \in Users \ {u}
      PROVE  /\ Addressing!AddressesOf(v)' = Addressing!AddressesOf(v)
             /\ \A a \in Addressing!AddressesOf(v) : address'[a] = address[a]
  BY <1>1, <1>2 DEF Addressing!AddressesOf
<1>6. \A a \in Addresses : address[a] # Null =>
          address'[a] # Null /\ address'[a].user = address[a].user
  BY <1>1, <1>2
<1> QED BY <1>3, <1>4, <1>5, <1>6

\* UPDATE ... SET is_primary of one row of u.
LEMMA AddressingSetRow ==
    ASSUME Addressing!NullAssumption, Addressing!TypeOK, NEW u \in Users,
           NEW a \in Addressing!AddressesOf(u),
           NEW value \in BOOLEAN, Addressing!SetPrimary(a, value)
    PROVE  /\ Addressing!AddressesOf(u)' = Addressing!AddressesOf(u)
           /\ Addressing!PrimaryOf(u)' = IF value THEN Addressing!PrimaryOf(u) \cup {a} ELSE Addressing!PrimaryOf(u) \ {a}
           /\ \A b \in Addresses : address[b] # Null =>
                 address'[b] # Null /\ address'[b].user = address[b].user
           /\ \A v \in Users \ {u} : /\ Addressing!AddressesOf(v)' = Addressing!AddressesOf(v)
                                     /\ \A b \in Addressing!AddressesOf(v) : address'[b] = address[b]
<1>1. /\ a \in Addresses /\ address[a] # Null /\ address[a].user = u
      /\ address'[a].user = u /\ address'[a].is_primary = value /\ address'[a] \in Addressing!Address
      /\ \A b \in Addresses \ {a} : address'[b] = address[b]
  BY DEF Addressing!SetPrimary, Addressing!TypeOK, Addressing!Address, Addressing!AddressesOf
<1>2. address'[a] # Null
  BY <1>1 DEF Addressing!NullAssumption
<1>3. Addressing!AddressesOf(u)' = Addressing!AddressesOf(u)
  BY <1>1, <1>2 DEF Addressing!AddressesOf
<1>4. Addressing!PrimaryOf(u)' = IF value THEN Addressing!PrimaryOf(u) \cup {a} ELSE Addressing!PrimaryOf(u) \ {a}
  <2>1. \A b : b \in Addressing!PrimaryOf(u)' <=> b \in Addressing!AddressesOf(u) /\ address'[b].is_primary
    BY <1>3 DEF Addressing!PrimaryOf
  <2>2. \A b : b \in Addressing!PrimaryOf(u) <=> b \in Addressing!AddressesOf(u) /\ address[b].is_primary
    BY DEF Addressing!PrimaryOf
  <2>3. Addressing!AddressesOf(u) \subseteq Addresses
    BY DEF Addressing!AddressesOf
  <2>4. CASE value = TRUE
    BY <1>1, <2>1, <2>2, <2>3, <2>4
  <2>5. CASE value = FALSE
    BY <1>1, <2>1, <2>2, <2>3, <2>5
  <2> QED BY <2>4, <2>5
<1>5. ASSUME NEW v \in Users \ {u}
      PROVE  /\ Addressing!AddressesOf(v)' = Addressing!AddressesOf(v)
             /\ \A b \in Addressing!AddressesOf(v) : address'[b] = address[b]
  BY <1>1, <1>2 DEF Addressing!AddressesOf
<1> QED BY <1>1, <1>2, <1>3, <1>4, <1>5

\* The same of a row that is the user's or gone.
LEMMA AddressingSetPrimaryOfTheirs ==
    ASSUME Addressing!NullAssumption, Addressing!TypeOK, NEW u \in Users, NEW a \in Addresses,
           address[a] # Null, address[a].user \in {u, Null},
           IF address[a] # Addressing!Nobodys THEN Addressing!SetPrimary(a, TRUE) ELSE UNCHANGED address
    PROVE  /\ \A b \in Addresses : address[b] # Null =>
                 address'[b] # Null /\ address'[b].user = address[b].user
           /\ \A v \in Users \ {u} : /\ Addressing!AddressesOf(v)' = Addressing!AddressesOf(v)
                                     /\ \A b \in Addressing!AddressesOf(v) : address'[b] = address[b]
<1>1. CASE address' = address
  BY <1>1 DEF Addressing!AddressesOf
<1>2. CASE Addressing!SetPrimary(a, TRUE)
  <2>1. /\ address'[a].user = address[a].user /\ address'[a] \in Addressing!Address
        /\ \A b \in Addresses \ {a} : address'[b] = address[b]
    BY <1>2 DEF Addressing!SetPrimary, Addressing!TypeOK, Addressing!Address
  <2>2. address'[a] # Null /\ Null \notin Users
    BY <2>1 DEF Addressing!NullAssumption
  <2>3. ASSUME NEW v \in Users \ {u}
        PROVE  /\ Addressing!AddressesOf(v)' = Addressing!AddressesOf(v)
               /\ \A b \in Addressing!AddressesOf(v) : address'[b] = address[b]
    BY <2>1, <2>2 DEF Addressing!AddressesOf
  <2> QED BY <2>1, <2>2, <2>3
<1> QED BY <1>1, <1>2

\* An INSERT, and a DELETE: a row of u appears, or is gone.
LEMMA AddressingInsertRow ==
    ASSUME Addressing!NullAssumption, Addressing!TypeOK, NEW u \in Users, NEW a \in Addresses,
           NEW value \in BOOLEAN,
           address[a] = Null,
           address' = [address EXCEPT ![a] = [user |-> u, is_primary |-> value]]
    PROVE  /\ Addressing!AddressesOf(u)' = Addressing!AddressesOf(u) \cup {a}
           /\ Addressing!PrimaryOf(u)' = IF value THEN Addressing!PrimaryOf(u) \cup {a} ELSE Addressing!PrimaryOf(u)
           /\ \A b \in Addresses \ {a} : address'[b] = address[b]
           /\ \A v \in Users \ {u} : /\ Addressing!AddressesOf(v)' = Addressing!AddressesOf(v)
                                     /\ \A b \in Addressing!AddressesOf(v) : address'[b] = address[b]
<1>1. /\ address'[a].user = u /\ address'[a].is_primary = value /\ address'[a] # Null
      /\ \A b \in Addresses \ {a} : address'[b] = address[b]
  BY DEF Addressing!TypeOK, Addressing!NullAssumption, Addressing!Address
<1>2. Addressing!AddressesOf(u)' = Addressing!AddressesOf(u) \cup {a}
  BY <1>1 DEF Addressing!AddressesOf
<1>3. a \notin Addressing!AddressesOf(u)
  BY DEF Addressing!AddressesOf
<1>4. Addressing!PrimaryOf(u)' = IF value THEN Addressing!PrimaryOf(u) \cup {a} ELSE Addressing!PrimaryOf(u)
  <2>1. \A b : b \in Addressing!PrimaryOf(u)' <=> b \in Addressing!AddressesOf(u) \cup {a} /\
          address'[b].is_primary
    BY <1>2 DEF Addressing!PrimaryOf
  <2>2. \A b : b \in Addressing!PrimaryOf(u) <=> b \in Addressing!AddressesOf(u) /\ address[b].is_primary
    BY DEF Addressing!PrimaryOf
  <2>3. Addressing!AddressesOf(u) \subseteq Addresses
    BY DEF Addressing!AddressesOf
  <2>4. CASE value = TRUE
    BY <1>1, <1>3, <2>1, <2>2, <2>3, <2>4
  <2>5. CASE value = FALSE
    BY <1>1, <1>3, <2>1, <2>2, <2>3, <2>5
  <2> QED BY <2>4, <2>5
<1>5. ASSUME NEW v \in Users \ {u}
      PROVE  /\ Addressing!AddressesOf(v)' = Addressing!AddressesOf(v)
             /\ \A b \in Addressing!AddressesOf(v) : address'[b] = address[b]
  BY <1>1 DEF Addressing!AddressesOf
<1> QED BY <1>1, <1>2, <1>4, <1>5

\* A row that is made nobody's leaves the book of its user, and no other.
LEMMA AddressingNobodysRow ==
    ASSUME Addressing!NullAssumption, Addressing!TypeOK, NEW u \in Users, NEW a \in Addresses,
           address[a] = Null \/ address[a].user \in {u, Null},
           address' = [address EXCEPT ![a] = Addressing!Nobodys]
    PROVE  /\ Addressing!AddressesOf(u)' = Addressing!AddressesOf(u) \ {a}
           /\ Addressing!PrimaryOf(u)' = Addressing!PrimaryOf(u) \ {a}
           /\ address'[a] # Null /\ address'[a].user = Null
           /\ \A b \in Addresses \ {a} : address'[b] = address[b]
           /\ \A v \in Users \ {u} : /\ Addressing!AddressesOf(v)' = Addressing!AddressesOf(v)
                                     /\ \A b \in Addressing!AddressesOf(v) : address'[b] = address[b]
<1>1. /\ address'[a].user = Null /\ address'[a] # Null
      /\ Null \notin Users
      /\ \A b \in Addresses \ {a} : address'[b] = address[b]
  <2>1. Addressing!Nobodys.user = Null /\ Addressing!Nobodys \in Addressing!Address
    BY DEF Addressing!Nobodys, Addressing!Address
  <2> QED BY <2>1 DEF Addressing!TypeOK, Addressing!NullAssumption
<1>2. Addressing!AddressesOf(u)' = Addressing!AddressesOf(u) \ {a}
  BY <1>1 DEF Addressing!AddressesOf
<1>3. Addressing!PrimaryOf(u)' = Addressing!PrimaryOf(u) \ {a}
  <2>1. \A b : b \in Addressing!PrimaryOf(u)' <=> b \in Addressing!AddressesOf(u) \ {a} /\
          address'[b].is_primary
    BY <1>2 DEF Addressing!PrimaryOf
  <2>2. \A b : b \in Addressing!PrimaryOf(u) <=> b \in Addressing!AddressesOf(u) /\ address[b].is_primary
    BY DEF Addressing!PrimaryOf
  <2>3. Addressing!AddressesOf(u) \subseteq Addresses
    BY DEF Addressing!AddressesOf
  <2> QED BY <1>1, <2>1, <2>2, <2>3
<1>4. ASSUME NEW v \in Users \ {u}
      PROVE  /\ Addressing!AddressesOf(v)' = Addressing!AddressesOf(v)
             /\ \A b \in Addressing!AddressesOf(v) : address'[b] = address[b]
  BY <1>1 DEF Addressing!AddressesOf
<1> QED BY <1>1, <1>2, <1>3, <1>4
-----------------------------------------------------------------------------
\* The first step of adding: the others are unset, or there are none to unset.
LEMMA AddressingAddSteps ==
    ASSUME Addressing!NullAssumption, AddressingIInv, NEW k \in Calls, NEW u \in Users,
           Addressing!UnsetForAdd(k, u) \/ Addressing!CheckForAdd(k, u)
    PROVE  AddressingRowsStay' /\ \A v \in Users \ disturbed' : AddressingOrderly(v)'
<1> USE DEF AddressingIInv
<1>1. PICK value \in BOOLEAN :
          /\ Addressing!Start(k, [op |-> "add", user |-> u, value |-> value])
          /\ cleared' = cleared
          /\ \/ Addressing!UnsetAll(u) /\ value = TRUE
             \/ address' = address /\ value = (Addressing!PrimaryOf(u) = {})
  <2>1. CASE Addressing!UnsetForAdd(k, u)
    BY <2>1 DEF Addressing!UnsetForAdd
  <2>2. CASE Addressing!CheckForAdd(k, u)
    <3>1. (Addressing!PrimaryOf(u) = {}) \in BOOLEAN
      OBVIOUS
    <3> QED BY <2>2, <3>1 DEF Addressing!CheckForAdd
  <2> QED BY <2>1, <2>2
<1> DEFINE record == [op |-> "add", user |-> u, value |-> value]
<1>2. record \in Addressing!CallRecords /\ record # Addressing!Idle /\ record.user = u
      /\ record.op = "add" /\ record.value = value
  BY DEF Addressing!CallRecords, Addressing!AddCall, Addressing!Idle
<1> HIDE DEF record
<1>3. /\ call[k] = Addressing!Idle /\ call'[k] = record
      /\ \A j \in Calls \ {k} : call'[j] = call[j]
      /\ disturbed \subseteq disturbed'
      /\ u \notin disturbed' => ~Addressing!AtWork(u)
  BY <1>1, <1>2, AddressingStartAlone DEF record
<1>4. /\ \A a \in Addresses : address[a] # Null =>
             address'[a] # Null /\ address'[a].user = address[a].user
      /\ \A v \in Users \ {u} : /\ Addressing!AddressesOf(v)' = Addressing!AddressesOf(v)
                                /\ \A a \in Addressing!AddressesOf(v) : address'[a] = address[a]
      /\ \/ value = TRUE /\ Addressing!PrimaryOf(u)' = {}
         \/ value = (Addressing!PrimaryOf(u) = {}) /\ Addressing!PrimaryOf(u)' = Addressing!PrimaryOf(u)
  BY <1>1, AddressingUnsetRows DEF Addressing!AddressesOf, Addressing!PrimaryOf
<1>5. AddressingRowsStay'
  BY <1>2, <1>3, <1>4, AddressingRowsStayOn, AddressingCallShapes
<1>6. ASSUME u \notin disturbed' PROVE AddressingOrderly(u)'
  <2>1. AddressingAtMostOne(u) /\ ~Addressing!AtWork(u)
    BY <1>3, <1>6 DEF AddressingOrderly
  <2>2. AddressingAtMostOne(u)' /\ AddressingFits(k, u)'
    BY <1>2, <1>3, <1>4, <2>1 DEF AddressingAtMostOne, AddressingFits
  <2> QED BY <1>2, <1>3, <2>1, <2>2, AddressingAtWorkAlone DEF Addressing!AtWork
<1>7. ASSUME NEW v \in Users \ {u}, v \notin disturbed' PROVE AddressingOrderly(v)'
  BY <1>1, <1>2, <1>3, <1>4, <1>7, AddressingFrame
<1> QED BY <1>5, <1>6, <1>7

\* The first step of an update.
LEMMA AddressingUpdateSteps ==
    ASSUME Addressing!NullAssumption, AddressingIInv, NEW k \in Calls, NEW u \in Users,
           NEW a \in Addresses,
           Addressing!UnsetForUpdate(k, u, a) \/ Addressing!CheckForUpdate(k, u, a)
    PROVE  AddressingRowsStay' /\ \A v \in Users \ disturbed' : AddressingOrderly(v)'
<1> USE DEF AddressingIInv
<1>1. PICK change \in {"primary", "other", "kept"} :
          /\ Addressing!Start(k, [op |-> "set", user |-> u, id |-> a, change |-> change])
          /\ \/ /\ Addressing!UnsetAll(u) /\ change = "primary"
                /\ cleared' = IF a \in Addressing!AddressesOf(u) THEN cleared ELSE cleared \cup {u}
             \/ /\ address' = address /\ cleared' = cleared
                /\ change = "primary" <=> Addressing!PrimaryOf(u) = {}
  <2>1. CASE Addressing!UnsetForUpdate(k, u, a)
    BY <2>1 DEF Addressing!UnsetForUpdate
  <2>2. CASE Addressing!CheckForUpdate(k, u, a)
    BY <2>2 DEF Addressing!CheckForUpdate
  <2> QED BY <2>1, <2>2
<1> DEFINE record == [op |-> "set", user |-> u, id |-> a, change |-> change]
<1>2. record \in Addressing!CallRecords /\ record # Addressing!Idle /\ record.user = u
      /\ record.op = "set" /\ record.id = a /\ record.change = change
  BY DEF Addressing!CallRecords, Addressing!SetCall, Addressing!Idle
<1> HIDE DEF record
<1>3. /\ call[k] = Addressing!Idle /\ call'[k] = record
      /\ \A j \in Calls \ {k} : call'[j] = call[j]
      /\ disturbed \subseteq disturbed'
      /\ u \notin disturbed' => ~Addressing!AtWork(u)
  BY <1>1, <1>2, AddressingStartAlone DEF record
<1>4. /\ \A b \in Addresses : address[b] # Null =>
             address'[b] # Null /\ address'[b].user = address[b].user
      /\ \A v \in Users \ {u} : /\ Addressing!AddressesOf(v)' = Addressing!AddressesOf(v)
                                /\ \A b \in Addressing!AddressesOf(v) : address'[b] = address[b]
                                /\ v \in cleared <=> v \in cleared'
      /\ Addressing!AddressesOf(u)' = Addressing!AddressesOf(u)
      /\ \/ /\ change = "primary" /\ Addressing!PrimaryOf(u)' = {}
            /\ a \in Addressing!AddressesOf(u) \/ u \in cleared'
         \/ /\ change = "primary" <=> Addressing!PrimaryOf(u) = {}
            /\ Addressing!PrimaryOf(u)' = Addressing!PrimaryOf(u)
            /\ cleared' = cleared
  BY <1>1, AddressingUnsetRows DEF Addressing!AddressesOf, Addressing!PrimaryOf
<1>5. AddressingRowsStay'
  BY <1>2, <1>3, <1>4, AddressingRowsStayOn, AddressingCallShapes
<1>6. ASSUME u \notin disturbed' PROVE AddressingOrderly(u)'
  <2>1. AddressingAtMostOne(u) /\ ~Addressing!AtWork(u) /\ AddressingSettled(u)
    BY <1>3, <1>6 DEF AddressingOrderly
  <2>2. AddressingAtMostOne(u)' /\ AddressingFits(k, u)'
    BY <1>2, <1>3, <1>4, <2>1 DEF AddressingAtMostOne, AddressingFits, AddressingSettled
  <2> QED BY <1>2, <1>3, <2>1, <2>2, AddressingAtWorkAlone DEF Addressing!AtWork
<1>7. ASSUME NEW v \in Users \ {u}, v \notin disturbed' PROVE AddressingOrderly(v)'
  BY <1>2, <1>3, <1>4, <1>7, AddressingFrame
<1> QED BY <1>5, <1>6, <1>7

\* A deletion reads its row.
LEMMA AddressingReadForDeleteStep ==
    ASSUME Addressing!NullAssumption, AddressingIInv, NEW k \in Calls, NEW u \in Users,
           NEW a \in Addresses,
           Addressing!ReadForDelete(k, u, a)
    PROVE  AddressingRowsStay' /\ \A v \in Users \ disturbed' : AddressingOrderly(v)'
<1> USE DEF AddressingIInv
<1> DEFINE record == [op |-> "delete", user |-> u, id |-> a, value |-> address[a].is_primary]
<1>1. address[a].is_primary \in BOOLEAN /\ a \in Addressing!AddressesOf(u)
  BY AddressingRowShapes DEF Addressing!ReadForDelete, Addressing!AddressesOf
<1>2. record \in Addressing!CallRecords /\ record # Addressing!Idle /\ record.user = u
      /\ record.op = "delete" /\ record.id = a /\ record.value = address[a].is_primary
  BY <1>1 DEF Addressing!CallRecords, Addressing!DeleteCall, Addressing!Idle
<1>3. Addressing!Start(k, record) /\ address' = address /\ cleared' = cleared
  BY DEF Addressing!ReadForDelete
<1> HIDE DEF record
<1>4. /\ call[k] = Addressing!Idle /\ call'[k] = record
      /\ \A j \in Calls \ {k} : call'[j] = call[j]
      /\ disturbed \subseteq disturbed'
      /\ u \notin disturbed' => ~Addressing!AtWork(u)
  BY <1>2, <1>3, AddressingStartAlone
<1>5. \A v \in Users : Addressing!AddressesOf(v)' = Addressing!AddressesOf(v) /\
        Addressing!PrimaryOf(v)' = Addressing!PrimaryOf(v)
  BY <1>3 DEF Addressing!AddressesOf, Addressing!PrimaryOf
<1>6. AddressingRowsStay'
  BY <1>1, <1>2, <1>3, <1>4, <1>5, AddressingRowsStayOn, AddressingCallShapes
<1>7. ASSUME u \notin disturbed' PROVE AddressingOrderly(u)'
  <2>1. AddressingAtMostOne(u) /\ ~Addressing!AtWork(u) /\ AddressingSettled(u)
    BY <1>4, <1>7 DEF AddressingOrderly
  <2>2. AddressingAtMostOne(u)' /\ AddressingFits(k, u)'
    BY <1>1, <1>2, <1>3, <1>4, <1>5, <2>1 DEF AddressingAtMostOne, AddressingFits, AddressingSettled
  <2> QED BY <1>2, <1>4, <2>1, <2>2, AddressingAtWorkAlone DEF Addressing!AtWork
<1>8. ASSUME NEW v \in Users \ {u}, v \notin disturbed' PROVE AddressingOrderly(v)'
  BY <1>2, <1>3, <1>4, <1>5, <1>8, AddressingFrame
<1> QED BY <1>6, <1>7, <1>8

\* The row of a user is inserted.
LEMMA AddressingAddUserAddressStep ==
    ASSUME Addressing!NullAssumption, AddressingIInv, NEW k \in Calls, NEW a \in Addresses,
           Addressing!AddUserAddress(k, a)
    PROVE  AddressingRowsStay' /\ \A v \in Users \ disturbed' : AddressingOrderly(v)'
<1> USE DEF AddressingIInv
<1>a. PICK u \in Users, value \in BOOLEAN : u = call[k].user /\ value = call[k].value
  BY AddressingCallShapes DEF Addressing!AddUserAddress, Addressing!Idle
<1>1. /\ call[k].op = "add" /\ call[k] # Addressing!Idle /\ u \in Users /\ value \in BOOLEAN
      /\ address[a] = Null
      /\ address' = [address EXCEPT ![a] = [user |-> u, is_primary |-> value]]
      /\ cleared' = IF value THEN cleared \ {u} ELSE cleared
      /\ call'[k] = Addressing!Idle /\ \A j \in Calls \ {k} : call'[j] = call[j]
      /\ disturbed' = disturbed
  BY <1>a, AddressingCallShapes DEF Addressing!AddUserAddress, Addressing!End, Addressing!TypeOK
<1>2. /\ Addressing!AddressesOf(u)' = Addressing!AddressesOf(u) \cup {a}
      /\ Addressing!PrimaryOf(u)' = IF value THEN Addressing!PrimaryOf(u) \cup {a} ELSE Addressing!PrimaryOf(u)
      /\ \A b \in Addresses \ {a} : address'[b] = address[b]
      /\ \A v \in Users \ {u} : /\ Addressing!AddressesOf(v)' = Addressing!AddressesOf(v)
                                /\ \A b \in Addressing!AddressesOf(v) : address'[b] = address[b]
  BY <1>1, AddressingInsertRow
<1>3. AddressingRowsStay'
  BY <1>1, <1>2, AddressingRowsStayOn, AddressingCallShapes DEF Addressing!Idle
<1>4. ASSUME u \notin disturbed' PROVE AddressingOrderly(u)'
  <2>1. /\ \A j \in Calls \ {k} : call[j] = Addressing!Idle \/ call[j].user # u
        /\ AddressingFits(k, u) /\ AddressingAtMostOne(u)
    BY <1>1, <1>4, <1>a, AddressingNoOther
  <2>2. IF value THEN Addressing!PrimaryOf(u) = {} ELSE Addressing!PrimaryOf(u) # {}
    BY <1>1, <1>a, <2>1 DEF AddressingFits
  <2>3. AddressingAtMostOne(u)' /\ AddressingSettled(u)'
    BY <1>1, <1>2, <2>1, <2>2 DEF AddressingAtMostOne, AddressingSettled
  <2> QED BY <1>1, <2>1, <2>3, AddressingEnded
<1>5. ASSUME NEW v \in Users \ {u}, v \notin disturbed' PROVE AddressingOrderly(v)'
  BY <1>1, <1>2, <1>5, <1>a, AddressingFrame
<1> QED BY <1>3, <1>4, <1>5

\* The row of a farm is nobody's.
LEMMA AddressingAddFarmAddressStep ==
    ASSUME Addressing!NullAssumption, AddressingIInv, NEW a \in Addresses,
           Addressing!AddFarmAddress(a)
    PROVE  AddressingRowsStay' /\ \A v \in Users \ disturbed' : AddressingOrderly(v)'
<1> USE DEF AddressingIInv
<1>1. address[a] = Null /\ address' = [address EXCEPT ![a] = Addressing!Nobodys]
      /\ UNCHANGED <<call, cleared, disturbed>>
  BY DEF Addressing!AddFarmAddress
<1>2. ASSUME NEW v \in Users
      PROVE  /\ Addressing!AddressesOf(v)' = Addressing!AddressesOf(v)
             /\ \A b \in Addressing!AddressesOf(v) : address'[b] = address[b]
  <2>1. a \notin Addressing!AddressesOf(v) /\ Addressing!AddressesOf(v) \subseteq Addresses
    BY <1>1 DEF Addressing!AddressesOf
  <2>2. /\ Addressing!AddressesOf(v)' = Addressing!AddressesOf(v) \ {a}
        /\ \A b \in Addresses \ {a} : address'[b] = address[b]
    BY <1>1, AddressingNobodysRow
  <2> QED BY <2>1, <2>2
<1>3. \A b \in Addresses : address[b] # Null =>
          address'[b] # Null /\ address'[b].user = address[b].user
  BY <1>1, AddressingNobodysRow
<1>4. AddressingRowsStay'
  BY <1>1, <1>3, AddressingRowsStayOn, AddressingCallShapes
<1>5. \A v \in Users \ disturbed' : AddressingOrderly(v)'
  BY <1>1, <1>2, AddressingFrame
<1> QED BY <1>4, <1>5

\* The row is saved, primary or not.
LEMMA AddressingUpdateUserAddressStep ==
    ASSUME Addressing!NullAssumption, AddressingIInv, NEW k \in Calls,
           Addressing!UpdateUserAddress(k)
    PROVE  AddressingRowsStay' /\ \A v \in Users \ disturbed' : AddressingOrderly(v)'
<1> USE DEF AddressingIInv
<1>a. PICK u \in Users, a \in Addresses, change \in {"primary", "other", "kept"} :
          u = call[k].user /\ a = call[k].id /\ change = call[k].change
  BY AddressingCallShapes DEF Addressing!UpdateUserAddress, Addressing!SetCall, Addressing!Idle
<1>1. /\ call[k].op = "set" /\ call[k] # Addressing!Idle /\ u \in Users
      /\ call'[k] = Addressing!Idle /\ \A j \in Calls \ {k} : call'[j] = call[j]
      /\ disturbed' = disturbed
  BY <1>a, AddressingCallShapes DEF Addressing!UpdateUserAddress, Addressing!End, Addressing!TypeOK
<1>2. \/ /\ a \in Addressing!AddressesOf(u) /\ change = "primary" /\ Addressing!SetPrimary(a, TRUE)
         /\ cleared' = cleared \ {u}
      \/ /\ a \in Addressing!AddressesOf(u) /\ change = "other" /\ Addressing!SetPrimary(a, FALSE)
         /\ cleared' = IF address[a].is_primary THEN cleared \cup {u} ELSE cleared
      \/ /\ a \notin Addressing!AddressesOf(u) \/ change = "kept"
         /\ UNCHANGED <<address, cleared>>
  BY <1>a DEF Addressing!UpdateUserAddress
<1>3. /\ \A b \in Addresses : address[b] # Null =>
             address'[b] # Null /\ address'[b].user = address[b].user
      /\ \A v \in Users \ {u} : /\ Addressing!AddressesOf(v)' = Addressing!AddressesOf(v)
                                /\ \A b \in Addressing!AddressesOf(v) : address'[b] = address[b]
                                /\ v \in cleared <=> v \in cleared'
      /\ Addressing!AddressesOf(u)' = Addressing!AddressesOf(u)
  BY <1>1, <1>2, AddressingSetRow DEF Addressing!AddressesOf
<1>4. \/ a \in Addressing!AddressesOf(u) /\ change = "primary" /\
           Addressing!PrimaryOf(u)' = Addressing!PrimaryOf(u) \cup {a}
      \/ /\ a \in Addressing!AddressesOf(u) /\ change = "other" /\
              Addressing!PrimaryOf(u)' = Addressing!PrimaryOf(u) \ {a}
         /\ cleared' = IF a \in Addressing!PrimaryOf(u) THEN cleared \cup {u} ELSE cleared
      \/ /\ a \notin Addressing!AddressesOf(u) \/ change = "kept"
         /\ Addressing!PrimaryOf(u)' = Addressing!PrimaryOf(u) /\ cleared' = cleared
  BY <1>1, <1>2, AddressingSetRow DEF Addressing!PrimaryOf, Addressing!AddressesOf
<1>5. AddressingRowsStay'
  BY <1>1, <1>3, AddressingRowsStayOn, AddressingCallShapes DEF Addressing!Idle
<1>6. ASSUME u \notin disturbed' PROVE AddressingOrderly(u)'
  <2>1. /\ \A j \in Calls \ {k} : call[j] = Addressing!Idle \/ call[j].user # u
        /\ AddressingFits(k, u) /\ AddressingAtMostOne(u)
    BY <1>1, <1>6, <1>a, AddressingNoOther
  <2>2. IF change = "primary" THEN Addressing!PrimaryOf(u) = {} /\
          (a \in Addressing!AddressesOf(u) \/ AddressingSettled(u))
        ELSE Addressing!PrimaryOf(u) # {}
    BY <1>1, <2>1, <1>a DEF AddressingFits
  <2>3. AddressingAtMostOne(u)' /\ AddressingSettled(u)'
    BY <1>3, <1>4, <2>1, <2>2 DEF AddressingAtMostOne, AddressingSettled
  <2> QED BY <1>1, <2>1, <2>3, AddressingEnded
<1>7. ASSUME NEW v \in Users \ {u}, v \notin disturbed' PROVE AddressingOrderly(v)'
  BY <1>1, <1>3, <1>7, <1>a, AddressingFrame
<1> QED BY <1>5, <1>6, <1>7

\* The row is made nobody's; a primary one needs a successor.
LEMMA AddressingDeleteUserLocationStep ==
    ASSUME Addressing!NullAssumption, AddressingIInv, NEW k \in Calls,
           Addressing!DeleteUserLocation(k)
    PROVE  AddressingRowsStay' /\ \A v \in Users \ disturbed' : AddressingOrderly(v)'
<1> USE DEF AddressingIInv
<1>a. PICK u \in Users, a \in Addresses, value \in BOOLEAN :
          u = call[k].user /\ a = call[k].id /\ value = call[k].value
  BY AddressingCallShapes DEF Addressing!DeleteUserLocation, Addressing!Idle
<1> DEFINE record == [op |-> "search", user |-> u, id |-> a]
<1>1. /\ call[k].op = "delete" /\ call[k] # Addressing!Idle
      /\ address' = [address EXCEPT ![a] = Addressing!Nobodys]
      /\ \/ value /\ call'[k] = record
         \/ ~value /\ call'[k] = Addressing!Idle
      /\ \A j \in Calls \ {k} : call'[j] = call[j]
      /\ UNCHANGED <<cleared, disturbed>>
  BY <1>a, AddressingCallShapes DEF Addressing!DeleteUserLocation, Addressing!End, Addressing!TypeOK
<1>2. record # Addressing!Idle /\ record.op = "search" /\ record.user = u /\ record.id = a
  BY DEF Addressing!Idle
<1>3. address[a] # Null /\ address[a].user \in {u, Null}
  BY <1>1, <1>a DEF AddressingRowsStay
<1> HIDE DEF record
<1>4. /\ Addressing!AddressesOf(u)' = Addressing!AddressesOf(u) \ {a}
      /\ Addressing!PrimaryOf(u)' = Addressing!PrimaryOf(u) \ {a}
      /\ address'[a] # Null /\ address'[a].user = Null
      /\ \A b \in Addresses \ {a} : address'[b] = address[b]
      /\ \A v \in Users \ {u} : /\ Addressing!AddressesOf(v)' = Addressing!AddressesOf(v)
                                /\ \A b \in Addressing!AddressesOf(v) : address'[b] = address[b]
  BY <1>1, <1>3, AddressingNobodysRow
<1>5. AddressingRowsStay'
  BY <1>1, <1>2, <1>4, AddressingRowsStayOn, <1>a, AddressingCallShapes DEF Addressing!Idle
<1>6. ASSUME u \notin disturbed' PROVE AddressingOrderly(u)'
  <2>1. /\ \A j \in Calls \ {k} : call[j] = Addressing!Idle \/ call[j].user # u
        /\ AddressingFits(k, u) /\ AddressingAtMostOne(u)
    BY <1>1, <1>6, <1>a, AddressingNoOther
  <2>2. a \in Addressing!AddressesOf(u) /\ value = address[a].is_primary /\ AddressingSettled(u)
    BY <1>1, <2>1, <1>a DEF AddressingFits
  <2>3. a \in Addressing!PrimaryOf(u) <=> value
    BY <2>2 DEF Addressing!PrimaryOf
  <2>4. AddressingAtMostOne(u)'
    BY <1>4, <2>1 DEF AddressingAtMostOne
  <2>5. CASE value
    <3>1. Addressing!PrimaryOf(u)' = {}
      BY <1>4, <2>1, <2>3, <2>5 DEF AddressingAtMostOne
    <3>2. AddressingFits(k, u)'
      BY <1>1, <1>2, <2>5, <3>1 DEF AddressingFits
    <3> QED BY <1>1, <1>2, <2>1, <2>4, <2>5, <3>2, AddressingAtWorkAlone
  <2>6. CASE ~value
    <3>1. AddressingSettled(u)'
      BY <1>1, <1>4, <2>2, <2>3, <2>6 DEF AddressingSettled
    <3> QED BY <1>1, <2>1, <2>4, <2>6, <3>1, AddressingEnded
  <2> QED BY <2>5, <2>6
<1>7. ASSUME NEW v \in Users \ {u}, v \notin disturbed' PROVE AddressingOrderly(v)'
  BY <1>1, <1>2, <1>4, <1>7, <1>a, AddressingFrame
<1> QED BY <1>5, <1>6, <1>7

\* The successor is one of the rows that are left, or there is none.
LEMMA AddressingFindSuccessorStep ==
    ASSUME Addressing!NullAssumption, AddressingIInv, NEW k \in Calls, Addressing!FindSuccessor(k)
    PROVE  AddressingRowsStay' /\ \A v \in Users \ disturbed' : AddressingOrderly(v)'
<1> USE DEF AddressingIInv
<1>a. PICK u \in Users : u = call[k].user
  BY AddressingCallShapes DEF Addressing!FindSuccessor, Addressing!Idle
<1>1. /\ call[k].op = "search" /\ call[k] # Addressing!Idle /\ u \in Users
      /\ \/ Addressing!AddressesOf(u) = {} /\ call'[k] = Addressing!Idle
         \/ /\ call'[k] # Addressing!Idle /\ call'[k].op = "promote" /\ call'[k].user = u
            /\ call'[k].id \in Addressing!AddressesOf(u)
      /\ \A j \in Calls \ {k} : call'[j] = call[j]
      /\ UNCHANGED <<address, cleared, disturbed>>
  BY <1>a, AddressingCallShapes DEF Addressing!FindSuccessor, Addressing!End, Addressing!TypeOK,
    Addressing!Idle
<1>2. \A v \in Users : Addressing!AddressesOf(v)' = Addressing!AddressesOf(v) /\
        Addressing!PrimaryOf(v)' = Addressing!PrimaryOf(v)
  BY <1>1 DEF Addressing!AddressesOf, Addressing!PrimaryOf
<1>3. Addressing!AddressesOf(u) \subseteq Addresses
  BY DEF Addressing!AddressesOf
<1>4. AddressingRowsStay'
  BY <1>1, <1>2, <1>3, <1>a, AddressingRowsStayOn, AddressingCallShapes DEF Addressing!Idle
<1>5. ASSUME u \notin disturbed' PROVE AddressingOrderly(u)'
  <2>1. /\ \A j \in Calls \ {k} : call[j] = Addressing!Idle \/ call[j].user # u
        /\ AddressingFits(k, u) /\ AddressingAtMostOne(u)
    BY <1>1, <1>5, <1>a, AddressingNoOther
  <2>2. Addressing!PrimaryOf(u) = {}
    BY <1>1, <2>1 DEF AddressingFits
  <2>3. AddressingAtMostOne(u)'
    BY <1>1, <1>2, <2>2 DEF AddressingAtMostOne
  <2>4. CASE Addressing!AddressesOf(u) = {} /\ call'[k] = Addressing!Idle
    <3>1. AddressingSettled(u)'
      BY <1>1, <1>2, <2>4 DEF AddressingSettled
    <3> QED BY <1>1, <2>1, <2>3, <2>4, <3>1, AddressingEnded
  <2>5. CASE /\ call'[k] # Addressing!Idle /\ call'[k].op = "promote" /\ call'[k].user = u
             /\ call'[k].id \in Addressing!AddressesOf(u)
    <3>1. AddressingFits(k, u)'
      BY <1>1, <1>2, <2>2, <2>5 DEF AddressingFits
    <3> QED BY <1>1, <2>1, <2>3, <2>5, <3>1, AddressingAtWorkAlone
  <2> QED BY <1>1, <2>4, <2>5
<1>6. ASSUME NEW v \in Users \ {u}, v \notin disturbed' PROVE AddressingOrderly(v)'
  BY <1>1, <1>2, <1>6, <1>a, AddressingFrame
<1> QED BY <1>4, <1>5, <1>6

\* The successor becomes the primary one.
LEMMA AddressingPromoteSuccessorStep ==
    ASSUME Addressing!NullAssumption, AddressingIInv, NEW k \in Calls,
           Addressing!PromoteSuccessor(k)
    PROVE  AddressingRowsStay' /\ \A v \in Users \ disturbed' : AddressingOrderly(v)'
<1> USE DEF AddressingIInv
<1>a. PICK u \in Users, a \in Addresses : u = call[k].user /\ a = call[k].id
  BY AddressingCallShapes DEF Addressing!PromoteSuccessor, Addressing!Idle
<1>1. /\ call[k].op = "promote" /\ call[k] # Addressing!Idle /\ u \in Users /\ a \in Addresses
      /\ address[a] # Null /\ address[a].user \in {u, Null}
      /\ IF address[a] # Addressing!Nobodys THEN Addressing!SetPrimary(a, TRUE) ELSE UNCHANGED address
      /\ call'[k] = Addressing!Idle /\ \A j \in Calls \ {k} : call'[j] = call[j]
      /\ UNCHANGED <<cleared, disturbed>>
  <2>1. call[k].op = "promote" /\ call[k] # Addressing!Idle
    BY DEF Addressing!PromoteSuccessor, Addressing!Idle
  <2>2. address[a] # Null /\ address[a].user \in {u, Null}
    BY <1>a, <2>1 DEF AddressingRowsStay
  <2> QED BY <1>a, <2>1, <2>2 DEF Addressing!PromoteSuccessor, Addressing!End, Addressing!TypeOK
<1>2. /\ \A b \in Addresses : address[b] # Null =>
             address'[b] # Null /\ address'[b].user = address[b].user
      /\ \A v \in Users \ {u} : /\ Addressing!AddressesOf(v)' = Addressing!AddressesOf(v)
                                /\ \A b \in Addressing!AddressesOf(v) : address'[b] = address[b]
  BY <1>1, AddressingSetPrimaryOfTheirs
<1>3. AddressingRowsStay'
  BY <1>1, <1>2, AddressingRowsStayOn, AddressingCallShapes DEF Addressing!Idle
<1>4. ASSUME u \notin disturbed' PROVE AddressingOrderly(u)'
  <2>1. /\ \A j \in Calls \ {k} : call[j] = Addressing!Idle \/ call[j].user # u
        /\ AddressingFits(k, u) /\ AddressingAtMostOne(u)
    BY <1>1, <1>4, <1>a, AddressingNoOther
  <2>2. Addressing!PrimaryOf(u) = {} /\ a \in Addressing!AddressesOf(u)
    BY <1>1, <2>1, <1>a DEF AddressingFits
  <2>3. address[a] # Addressing!Nobodys
    BY <1>1, <2>2 DEF Addressing!AddressesOf, Addressing!Nobodys, Addressing!NullAssumption
  <2>4. Addressing!PrimaryOf(u)' = {a}
    BY <1>1, <2>2, <2>3, AddressingSetRow
  <2>5. AddressingAtMostOne(u)' /\ AddressingSettled(u)'
    BY <2>4 DEF AddressingAtMostOne, AddressingSettled
  <2> QED BY <1>1, <2>1, <2>5, AddressingEnded
<1>5. ASSUME NEW v \in Users \ {u}, v \notin disturbed' PROVE AddressingOrderly(v)'
  BY <1>1, <1>2, <1>5, <1>a, AddressingFrame
<1> QED BY <1>3, <1>4, <1>5

\* A handler that breaks off leaves its user to the exceptions.
LEMMA AddressingBreakOffStep ==
    ASSUME Addressing!NullAssumption, AddressingIInv, NEW k \in Calls, Addressing!BreakOff(k)
    PROVE  AddressingRowsStay' /\ \A v \in Users \ disturbed' : AddressingOrderly(v)'
<1> USE DEF AddressingIInv
<1>1. /\ call'[k] = Addressing!Idle /\ \A j \in Calls \ {k} : call'[j] = call[j]
      /\ disturbed' = disturbed \cup {call[k].user}
      /\ UNCHANGED <<address, cleared>>
  BY DEF Addressing!BreakOff, Addressing!End, Addressing!TypeOK
<1>2. AddressingRowsStay'
  BY <1>1, AddressingRowsStayOn, AddressingCallShapes DEF Addressing!Idle
<1>3. ASSUME NEW v \in Users \ disturbed' PROVE AddressingOrderly(v)'
  <2>1. Addressing!AddressesOf(v)' = Addressing!AddressesOf(v)
    BY <1>1 DEF Addressing!AddressesOf
  <2> QED BY <1>1, <2>1, AddressingFrame
<1> QED BY <1>2, <1>3

\* Nor does a stuttering step change anything.
LEMMA AddressingStutterStep ==
    ASSUME AddressingIInv, UNCHANGED Addressing!vars
    PROVE  AddressingRowsStay' /\ \A v \in Users \ disturbed' : AddressingOrderly(v)'
<1> USE DEF AddressingIInv, Addressing!vars
<1>1. AddressingRowsStay'
  BY AddressingRowsStayOn, AddressingCallShapes
<1>2. ASSUME NEW v \in Users \ disturbed' PROVE AddressingOrderly(v)'
  <2>1. Addressing!AddressesOf(v)' = Addressing!AddressesOf(v)
    BY DEF Addressing!AddressesOf
  <2> QED BY <2>1, AddressingFrame
<1> QED BY <1>1, <1>2
-----------------------------------------------------------------------------
\* Every step keeps the invariant.
LEMMA AddressingStep ==
    ASSUME Addressing!NullAssumption, AddressingIInv, [Addressing!Next]_(Addressing!vars)
    PROVE  AddressingIInv'
<1>1. AddressingRowsStay' /\ \A v \in Users \ disturbed' : AddressingOrderly(v)'
  BY AddressingAddSteps, AddressingUpdateSteps, AddressingReadForDeleteStep,
    AddressingAddUserAddressStep, AddressingAddFarmAddressStep,
     AddressingUpdateUserAddressStep, AddressingDeleteUserLocationStep, AddressingFindSuccessorStep, AddressingPromoteSuccessorStep,
     AddressingBreakOffStep, AddressingStutterStep
  DEF Addressing!Next
<1> QED BY <1>1, AddressingTypeStep DEF AddressingIInv
-----------------------------------------------------------------------------
\* In its scene a step of the services is one of AddressBook.
LEMMA AddressingSteps ==
    ASSUME scene = "address", [Next]_vars
    PROVE  scene' = "address" /\ [Addressing!Next]_(Addressing!vars)
<1>1. CASE Next
  BY <1>1 DEF Next
<1>2. CASE UNCHANGED vars
  BY <1>2 DEF vars, vAddressing, Addressing!vars
<1> QED BY <1>1, <1>2

AddressingHolds == scene = "address" => AddressingIInv

\* The invariant of the scene holds of every behaviour of the services.
LEMMA AddressingInvariant == Spec => []AddressingHolds
<1>0. Addressing!NullAssumption
  BY ServicesAssumption DEF ServicesAssumption
<1>1. Init => AddressingHolds
  BY <1>0, AddressingInitial DEF Init, AddressingHolds
<1>2. AddressingHolds /\ [Next]_vars => AddressingHolds'
  <2> SUFFICES ASSUME AddressingHolds, [Next]_vars, scene' = "address" PROVE AddressingIInv'
    BY DEF AddressingHolds
  <2>1. scene = "address"
    BY DEF Next, vars
  <2>2. AddressingIInv /\ [Addressing!Next]_(Addressing!vars)
    BY <2>1, AddressingSteps DEF AddressingHolds
  <2> QED BY <1>0, <2>2, AddressingStep
<1> QED BY <1>1, <1>2, PTL DEF Spec
-----------------------------------------------------------------------------
(***************************************************************************)
(* Plots: plots and seasons (PlotService, SeasonService).                  *)
(***************************************************************************)
\* Finite sets are those of the library.
LEMMA PlantingCounts ==
    \A S : /\ Planting!Cardinality(S) = Cardinality(S)
           /\ Planting!IsFiniteSet(S) <=> IsFiniteSet(S)
  BY DEF Planting!Cardinality, Cardinality, Planting!IsFiniteSet, IsFiniteSet

\* Of seasons of one plot the later has the higher id: ids are given out in order.
PlantingIdsInOrder == \A s, t \in SeasonIds : season[t] # Null /\ s < t => season[s] # Null

\* A handler opens a season alone, on a plot whose seasons have ended, unless one
\* was put back; and the crop allows one more.
PlantingCreatesAlone ==
    \A j, k \in Calls :
        call[j].op = "create" /\ call[k].op = "create" /\ call[j].plot = call[k].plot /\ j # k =>
            call[j].plot \in overlapped

PlantingAllEnded(p) ==
    /\ MaxSeasons # 0 => Planting!Cardinality(Planting!SeasonsOf(p)) < MaxSeasons
    /\ p \notin putBack => \A s \in Planting!SeasonsOf(p) : season[s].status = "DONE"

PlantingCreatesAfterLast ==
    \A k \in Calls : \A p \in PlotIds \ overlapped :
        call[k].op = "create" /\ call[k].plot = p => PlantingAllEnded(p)

\* Only the last season of a plot is open.
PlantingOnlyLastOpen ==
    \A p \in PlotIds : p \notin overlapped /\ p \notin putBack =>
        \A s \in Planting!SeasonsOf(p) : season[s].status = "DONE" \/ Planting!IsLast(s, p)

PlantingSeasonsCounted ==
    \A p \in PlotIds :
        /\ Planting!IsFiniteSet(Planting!SeasonsOf(p))
        /\ p \notin overlapped /\ MaxSeasons # 0 => Planting!Cardinality(Planting!SeasonsOf(p)) <= MaxSeasons

\* updateSeason works on a row.
PlantingRowsExist == \A k \in Calls : call[k].op = "update" => season[call[k].season] # Null

PlantingIInv ==
    /\ Planting!TypeOK
    /\ PlantingIdsInOrder
    /\ PlantingCreatesAlone
    /\ PlantingCreatesAfterLast
    /\ PlantingOnlyLastOpen
    /\ PlantingSeasonsCounted
    /\ PlantingRowsExist
-----------------------------------------------------------------------------
\* The initial states satisfy the invariant.
LEMMA PlantingInitial ==
    ASSUME Planting!NullAssumption, Planting!MaxAssumption
    PROVE  Planting!Init => PlantingIInv
<1> SUFFICES ASSUME Planting!Init PROVE PlantingIInv
  OBVIOUS
<1>1. \A p \in PlotIds : Planting!SeasonsOf(p) = {}
  BY DEF Planting!Init, Planting!SeasonsOf
<1>2. Planting!TypeOK /\ PlantingIdsInOrder /\ PlantingCreatesAlone /\ PlantingCreatesAfterLast /\
        PlantingRowsExist
  BY DEF Planting!Init, Planting!TypeOK, PlantingIdsInOrder, PlantingCreatesAlone,
    PlantingCreatesAfterLast, PlantingRowsExist, Planting!Idle, Planting!NoCall
<1>3. PlantingOnlyLastOpen
  BY <1>1 DEF PlantingOnlyLastOpen
<1>4. PlantingSeasonsCounted
  BY PlantingCounts, <1>1, FS_EmptySet DEF PlantingSeasonsCounted, Planting!MaxAssumption
<1> QED BY <1>2, <1>3, <1>4 DEF PlantingIInv

\* What the fields of a call in flight are, by its op.
LEMMA PlantingCallShapes ==
    ASSUME Planting!TypeOK, NEW k \in Calls
    PROVE  /\ call[k].op = "none" => call[k] = Planting!Idle
           /\ call[k].op \in {"none", "create", "update"}
           /\ call[k].op = "create" => call[k].plot \in PlotIds /\ call[k] \in Planting!CreateCall
           /\ call[k].op = "update" => /\ call[k].season \in SeasonIds
                                       /\ call[k].seen \in Planting!SeasonStatus
                                       /\ call[k] \in Planting!UpdateCall
  BY DEF Planting!TypeOK, Planting!NoCall, Planting!CreateCall, Planting!UpdateCall, Planting!Idle

\* The record of a handler that is not at work.
LEMMA PlantingIdleShape == Planting!Idle.op = "none" /\ Planting!Idle \in Planting!NoCall
  BY DEF Planting!Idle, Planting!NoCall

\* Every step keeps the types.
LEMMA PlantingTypeStep ==
    ASSUME Planting!NullAssumption, PlantingIInv, [Planting!Next]_(Planting!vars)
    PROVE  Planting!TypeOK'
<1> USE DEF PlantingIInv, Planting!TypeOK
<1>1. ASSUME NEW p \in PlotIds, Planting!CreatePlot(p) \/ Planting!DeletePlot(p)
      PROVE  Planting!TypeOK'
  BY <1>1 DEF Planting!CreatePlot, Planting!DeletePlot
<1>2. ASSUME NEW s \in SeasonIds, Planting!Proceed(s) PROVE Planting!TypeOK'
  BY <1>2 DEF Planting!Proceed, Planting!SeasonRow, Planting!SeasonStatus
<1>3. ASSUME NEW k \in Calls, NEW p \in PlotIds, Planting!ValidateSeason(k, p)
      PROVE  Planting!TypeOK'
  <2>1. [op |-> "create", plot |-> p] \in Planting!CreateCall
    BY DEF Planting!CreateCall
  <2> QED BY <1>3, <2>1 DEF Planting!ValidateSeason, Planting!Start
<1>4. ASSUME NEW k \in Calls, NEW s \in SeasonIds, Planting!InsertSeason(k, s)
      PROVE  Planting!TypeOK'
  <2>1. [plot |-> call[k].plot, status |-> "PENDING"] \in Planting!SeasonRow
    BY <1>4, PlantingCallShapes DEF Planting!InsertSeason, Planting!SeasonRow, Planting!SeasonStatus
  <2> QED BY <1>4, <2>1, PlantingIdleShape DEF Planting!InsertSeason, Planting!End
<1>5. ASSUME NEW k \in Calls, NEW s \in SeasonIds, Planting!ReadSeason(k, s) PROVE Planting!TypeOK'
  <2>1. [op |-> "update", season |-> s, seen |-> season[s].status] \in Planting!UpdateCall
    BY <1>5 DEF Planting!ReadSeason, Planting!UpdateCall, Planting!SeasonRow
  <2> QED BY <1>5, <2>1 DEF Planting!ReadSeason, Planting!Start
<1>6. ASSUME NEW k \in Calls, Planting!SaveSeason(k) PROVE Planting!TypeOK'
  <2> DEFINE s == call[k].season
  <2>1. s \in SeasonIds /\ call[k].seen \in Planting!SeasonStatus /\ season[s] \in Planting!SeasonRow
    BY <1>6, PlantingCallShapes DEF Planting!SaveSeason, PlantingRowsExist
  <2>2. [season[s] EXCEPT !.status = call[k].seen] \in Planting!SeasonRow /\ season[s].plot \in PlotIds
    BY <2>1 DEF Planting!SeasonRow
  <2> QED BY <1>6, <2>1, <2>2, PlantingIdleShape DEF Planting!SaveSeason, Planting!End
<1>7. ASSUME NEW k \in Calls, Planting!Abandon(k) PROVE Planting!TypeOK'
  BY <1>7, PlantingIdleShape DEF Planting!Abandon, Planting!End
<1>8. CASE UNCHANGED Planting!vars
  BY <1>8 DEF Planting!vars
<1> HIDE DEF Planting!TypeOK
<1> QED BY <1>1, <1>2, <1>3, <1>4, <1>5, <1>6, <1>7, <1>8 DEF Planting!Next

\* Of the seasons only the statuses change, of the handlers at most one ends or
\* becomes an update, and what has ended stays so but on plots put back.
LEMMA PlantingStatusKeeps ==
    ASSUME PlantingIInv, Planting!TypeOK',
           \A t \in SeasonIds : season'[t] = Null <=> season[t] = Null,
           \A t \in SeasonIds : season[t] # Null =>
               /\ season'[t].plot = season[t].plot
               /\ season[t].status = "DONE" /\ season[t].plot \notin putBack' =>
                      season'[t].status = "DONE",
           \A j \in Calls : \/ call'[j] = call[j]
                            \/ call'[j].op = "none"
                            \/ call'[j].op = "update" /\ season[call'[j].season] # Null,
           UNCHANGED overlapped, putBack \subseteq putBack'
    PROVE  PlantingIInv'
<1> USE DEF PlantingIInv
<1>1. \A p \in PlotIds : Planting!SeasonsOf(p)' = Planting!SeasonsOf(p)
  BY DEF Planting!SeasonsOf
<1>2. PlantingIdsInOrder'
  BY DEF PlantingIdsInOrder
<1>3. PlantingCreatesAlone'
  BY DEF PlantingCreatesAlone
<1>4. \A p \in PlotIds : p \notin putBack' => \A s \in Planting!SeasonsOf(p) :
          season[s].status = "DONE" => season'[s].status = "DONE"
  BY DEF Planting!SeasonsOf
<1>5. PlantingCreatesAfterLast'
  <2>1. \A p \in PlotIds : PlantingAllEnded(p) => PlantingAllEnded(p)'
    BY <1>1, <1>4 DEF PlantingAllEnded
  <2>2. \A k \in Calls : call'[k].op = "create" => call'[k] = call[k]
    OBVIOUS
  <2> QED BY <2>1, <2>2 DEF PlantingCreatesAfterLast
<1>6. PlantingOnlyLastOpen'
  BY <1>1, <1>4 DEF PlantingOnlyLastOpen, Planting!IsLast
<1>7. PlantingSeasonsCounted'
  BY <1>1 DEF PlantingSeasonsCounted
<1>8. PlantingRowsExist'
  <2> SUFFICES ASSUME NEW k \in Calls, call'[k].op = "update"
               PROVE  season'[call'[k].season] # Null
    BY DEF PlantingRowsExist
  <2>1. call'[k].season \in SeasonIds
    BY PlantingCallShapes, Planting!TypeOK' DEF Planting!TypeOK, Planting!NoCall,
      Planting!CreateCall, Planting!UpdateCall
  <2> QED BY <2>1 DEF PlantingRowsExist
<1> QED BY <1>2, <1>3, <1>5, <1>6, <1>7, <1>8

\* A season proceeds by its own.
LEMMA PlantingProceedKeeps ==
    ASSUME Planting!NullAssumption, PlantingIInv, Planting!TypeOK', NEW s \in SeasonIds,
           Planting!Proceed(s)
    PROVE  PlantingIInv'
<1>1. /\ season[s] \in Planting!SeasonRow /\ season'[s] \in Planting!SeasonRow /\
           season'[s].plot = season[s].plot
      /\ season[s].status # "DONE"
      /\ \A t \in SeasonIds \ {s} : season'[t] = season[t]
  BY DEF Planting!Proceed, PlantingIInv, Planting!TypeOK, Planting!SeasonRow, Planting!SeasonStatus
<1> QED BY <1>1, PlantingStatusKeeps DEF Planting!Proceed, Planting!NullAssumption

\* A season is saved by an update.
LEMMA PlantingSaveKeeps ==
    ASSUME Planting!NullAssumption, PlantingIInv, Planting!TypeOK', NEW k \in Calls,
           Planting!SaveSeason(k)
    PROVE  PlantingIInv'
<1> DEFINE s == call[k].season
<1>1. s \in SeasonIds /\ season[s] \in Planting!SeasonRow /\ call[k].seen \in Planting!SeasonStatus
  BY PlantingCallShapes DEF Planting!SaveSeason, PlantingIInv, PlantingRowsExist, Planting!TypeOK
<1>2. /\ season'[s] = [season[s] EXCEPT !.status = call[k].seen]
      /\ \A t \in SeasonIds \ {s} : season'[t] = season[t]
      /\ call' = [call EXCEPT ![k] = Planting!Idle] /\ UNCHANGED overlapped
      /\ putBack' = IF season[s].status = call[k].seen THEN putBack ELSE putBack \cup {season[s].plot}
  BY <1>1 DEF Planting!SaveSeason, Planting!End, PlantingIInv, Planting!TypeOK
<1>3. /\ season'[s] # Null /\ season[s] # Null /\ season'[s].plot = season[s].plot
      /\ season'[s].status = call[k].seen
  BY <1>1, <1>2 DEF Planting!NullAssumption, Planting!SeasonRow
<1>4. \A j \in Calls : call'[j] = call[j] \/ call'[j].op = "none"
  BY <1>2, PlantingIdleShape DEF PlantingIInv, Planting!TypeOK
<1> HIDE DEF s
<1> QED BY <1>1, <1>2, <1>3, <1>4, PlantingStatusKeeps

\* An update reads its season.
LEMMA PlantingReadKeeps ==
    ASSUME PlantingIInv, Planting!TypeOK', NEW k \in Calls, NEW s \in SeasonIds,
           Planting!ReadSeason(k, s)
    PROVE  PlantingIInv'
<1>1. /\ call'[k].op = "update" /\ season[call'[k].season] # Null
      /\ \A j \in Calls \ {k} : call'[j] = call[j]
      /\ UNCHANGED <<season, overlapped, putBack>>
  BY DEF Planting!ReadSeason, Planting!Start, PlantingIInv, Planting!TypeOK
<1> QED BY <1>1, PlantingStatusKeeps

\* The last season has ended, so all have.
LEMMA PlantingValidateKeeps ==
    ASSUME Planting!MaxAssumption, PlantingIInv, Planting!TypeOK', NEW k \in Calls,
           NEW p \in PlotIds, Planting!ValidateSeason(k, p)
    PROVE  PlantingIInv'
<1> USE DEF PlantingIInv
<1>1. /\ call'[k] = [op |-> "create", plot |-> p] /\ call[k] = Planting!Idle
      /\ \A j \in Calls \ {k} : call'[j] = call[j]
      /\ UNCHANGED <<season, putBack>>
      /\ overlapped \subseteq overlapped'
      /\ Planting!MayAddSeason(p)
  BY DEF Planting!ValidateSeason, Planting!Start, Planting!TypeOK
<1>2. \A q \in PlotIds : Planting!SeasonsOf(q)' = Planting!SeasonsOf(q)
  BY <1>1 DEF Planting!SeasonsOf
<1>3. \A j \in Calls : call[j].op = "create" /\ call[j].plot = p => p \in overlapped'
  BY DEF Planting!ValidateSeason, Planting!Creating
<1>4. PlantingIdsInOrder'
  BY <1>1 DEF PlantingIdsInOrder
<1>5. PlantingCreatesAlone'
  BY <1>1, <1>3 DEF PlantingCreatesAlone
<1>6. p \notin overlapped' => PlantingAllEnded(p)
  BY <1>1 DEF Planting!MayAddSeason, PlantingOnlyLastOpen, PlantingAllEnded
<1>7. PlantingCreatesAfterLast'
  <2>1. \A q \in PlotIds : PlantingAllEnded(q) => PlantingAllEnded(q)'
    BY <1>1, <1>2 DEF PlantingAllEnded
  <2> QED BY <1>1, <1>6, <2>1 DEF PlantingCreatesAfterLast
<1>8. PlantingOnlyLastOpen'
  BY <1>1, <1>2 DEF PlantingOnlyLastOpen, Planting!IsLast
<1>9. PlantingSeasonsCounted'
  BY <1>1, <1>2 DEF PlantingSeasonsCounted
<1>10. PlantingRowsExist'
  BY <1>1 DEF PlantingRowsExist
<1> QED BY <1>4, <1>5, <1>7, <1>8, <1>9, <1>10

\* A new season is the last, and of its plot the only one that is open.
LEMMA PlantingInsertKeeps ==
    ASSUME Planting!NullAssumption, Planting!IdAssumption, Planting!MaxAssumption, PlantingIInv,
           Planting!TypeOK',
           NEW k \in Calls, NEW s \in SeasonIds, Planting!InsertSeason(k, s)
    PROVE  PlantingIInv'
<1> USE DEF PlantingIInv
<1>0. PICK p \in PlotIds : p = call[k].plot
  BY PlantingCallShapes DEF Planting!InsertSeason
<1>1. /\ call[k].op = "create"
      /\ season[s] = Null
      /\ \A t \in SeasonIds : t < s => season[t] # Null
      /\ season'[s] = [plot |-> p, status |-> "PENDING"] /\ season'[s] # Null
      /\ \A t \in SeasonIds \ {s} : season'[t] = season[t]
      /\ call'[k].op = "none" /\ \A j \in Calls \ {k} : call'[j] = call[j]
      /\ UNCHANGED <<overlapped, putBack>>
  BY <1>0, PlantingIdleShape DEF Planting!InsertSeason, Planting!End, Planting!TypeOK,
    Planting!NullAssumption, Planting!SeasonRow, Planting!SeasonStatus
<1>2. \A t \in SeasonIds : season[t] # Null => t < s
  BY <1>1 DEF PlantingIdsInOrder, Planting!IdAssumption
<1>3. /\ Planting!SeasonsOf(p)' = Planting!SeasonsOf(p) \cup {s} /\ s \notin Planting!SeasonsOf(p)
      /\ \A q \in PlotIds \ {p} : Planting!SeasonsOf(q)' = Planting!SeasonsOf(q)
  BY <1>1 DEF Planting!SeasonsOf
<1>4. PlantingIdsInOrder'
  BY <1>1, <1>2 DEF PlantingIdsInOrder, Planting!IdAssumption
<1>5. PlantingCreatesAlone'
  BY <1>1 DEF PlantingCreatesAlone
<1>6. \A j \in Calls : call'[j].op = "create" /\ call'[j].plot \notin overlapped =>
          call'[j] = call[j] /\ call[j].plot \in PlotIds \ {p}
  BY <1>0, <1>1, PlantingCallShapes DEF PlantingCreatesAlone
<1>7. \A q \in PlotIds : \A t \in Planting!SeasonsOf(q) : season'[t] = season[t]
  BY <1>1 DEF Planting!SeasonsOf
<1>8. PlantingCreatesAfterLast'
  <2>1. \A q \in PlotIds \ {p} : PlantingAllEnded(q) => PlantingAllEnded(q)'
    BY <1>1, <1>3, <1>7 DEF PlantingAllEnded
  <2> QED BY <1>1, <1>6, <2>1 DEF PlantingCreatesAfterLast
<1>9. PlantingOnlyLastOpen'
  <2> SUFFICES ASSUME NEW q \in PlotIds, q \notin overlapped, q \notin putBack,
                      NEW t \in Planting!SeasonsOf(q)'
               PROVE  season'[t].status = "DONE" \/ Planting!IsLast(t, q)'
    BY <1>1 DEF PlantingOnlyLastOpen
  <2>1. CASE q # p
    BY <1>1, <1>3, <1>7, <2>1 DEF PlantingOnlyLastOpen, Planting!IsLast
  <2>2. CASE q = p /\ t = s
    BY <1>1, <1>2, <1>3, <2>2 DEF Planting!IsLast, Planting!SeasonsOf, Planting!IdAssumption
  <2>3. CASE q = p /\ t # s
    BY <1>0, <1>1, <1>3, <1>7, <2>3 DEF PlantingCreatesAfterLast, PlantingAllEnded
  <2> QED BY <2>1, <2>2, <2>3
<1>10. PlantingSeasonsCounted'
  <2>1. Planting!IsFiniteSet(Planting!SeasonsOf(p)) /\ Planting!Cardinality(Planting!SeasonsOf(p)) \in Nat
    BY PlantingCounts, <1>1, FS_CardinalityType DEF PlantingSeasonsCounted
  <2>2. Planting!IsFiniteSet(Planting!SeasonsOf(p)') /\
          Planting!Cardinality(Planting!SeasonsOf(p)') = Planting!Cardinality(Planting!SeasonsOf(p)) + 1
    BY PlantingCounts, <1>3, <2>1, FS_AddElement
  <2>3. p \notin overlapped /\ MaxSeasons # 0 => Planting!Cardinality(Planting!SeasonsOf(p)) < MaxSeasons
    BY <1>0, <1>1 DEF PlantingCreatesAfterLast, PlantingAllEnded
  <2>4. p \notin overlapped /\ MaxSeasons # 0 => Planting!Cardinality(Planting!SeasonsOf(p)') <= MaxSeasons
    BY <2>1, <2>2, <2>3 DEF Planting!MaxAssumption
  <2> QED BY <1>1, <1>3, <2>2, <2>4 DEF PlantingSeasonsCounted
<1>11. PlantingRowsExist'
  BY <1>1, PlantingCallShapes DEF PlantingRowsExist
<1> QED BY <1>4, <1>5, <1>8, <1>9, <1>10, <1>11

\* Every step keeps the invariant.
LEMMA PlantingStep ==
    ASSUME Planting!NullAssumption, Planting!IdAssumption, Planting!MaxAssumption, PlantingIInv,
           [Planting!Next]_(Planting!vars)
    PROVE  PlantingIInv'
<1>0. Planting!TypeOK'
  BY PlantingTypeStep
<1>1. ASSUME NEW p \in PlotIds, Planting!CreatePlot(p) \/ Planting!DeletePlot(p) PROVE PlantingIInv'
  BY <1>0, <1>1, PlantingStatusKeeps DEF Planting!CreatePlot, Planting!DeletePlot
<1>2. ASSUME NEW k \in Calls, Planting!Abandon(k) PROVE PlantingIInv'
  <2>1. /\ \A j \in Calls : call'[j] = call[j] \/ call'[j].op = "none"
        /\ UNCHANGED <<season, overlapped, putBack>>
    BY <1>2, PlantingIdleShape DEF Planting!Abandon, Planting!End, PlantingIInv, Planting!TypeOK
  <2> QED BY <1>0, <2>1, PlantingStatusKeeps
<1>3. CASE UNCHANGED Planting!vars
  BY <1>0, <1>3, PlantingStatusKeeps DEF Planting!vars
<1> QED BY <1>0, <1>1, <1>2, <1>3, PlantingProceedKeeps, PlantingSaveKeeps, PlantingReadKeeps,
    PlantingValidateKeeps, PlantingInsertKeeps DEF Planting!Next

\* The invariant implies the promise.
LEMMA PlantingOpen1 == ASSUME Planting!IdAssumption, PlantingIInv PROVE Planting!OneOpenSeason
<1> SUFFICES ASSUME NEW p \in PlotIds, p \notin overlapped, p \notin putBack
             PROVE  Planting!Cardinality(Planting!Open(p)) <= 1
  BY DEF PlantingIInv, PlantingSeasonsCounted, Planting!OneOpenSeason
<1>1. \A s \in Planting!Open(p) : Planting!IsLast(s, p)
  BY DEF PlantingIInv, PlantingOnlyLastOpen, Planting!Open
<1>2. \A s, t \in Planting!Open(p) : s = t
  BY <1>1 DEF Planting!IsLast, Planting!Open, Planting!SeasonsOf, Planting!IdAssumption
<1> QED BY PlantingCounts, <1>2, AtMostOne
-----------------------------------------------------------------------------
\* In its scene a step of the services is one of Plots.
LEMMA PlantingSteps ==
    ASSUME scene = "plot", [Next]_vars
    PROVE  scene' = "plot" /\ [Planting!Next]_(Planting!vars)
<1>1. CASE Next
  BY <1>1 DEF Next
<1>2. CASE UNCHANGED vars
  BY <1>2 DEF vars, vPlanting, Planting!vars
<1> QED BY <1>1, <1>2

PlantingHolds == scene = "plot" => PlantingIInv

\* The invariant of the scene holds of every behaviour of the services.
LEMMA PlantingInvariant == Spec => []PlantingHolds
<1>0. Planting!NullAssumption /\ Planting!IdAssumption /\ Planting!MaxAssumption
  BY ServicesAssumption DEF ServicesAssumption
<1>1. Init => PlantingHolds
  BY <1>0, PlantingInitial DEF Init, PlantingHolds
<1>2. PlantingHolds /\ [Next]_vars => PlantingHolds'
  <2> SUFFICES ASSUME PlantingHolds, [Next]_vars, scene' = "plot" PROVE PlantingIInv'
    BY DEF PlantingHolds
  <2>1. scene = "plot"
    BY DEF Next, vars
  <2>2. PlantingIInv /\ [Planting!Next]_(Planting!vars)
    BY <2>1, PlantingSteps DEF PlantingHolds
  <2> QED BY <1>0, <2>2, PlantingStep
<1> QED BY <1>1, <1>2, PTL DEF Spec
-----------------------------------------------------------------------------
(***************************************************************************)
(* GhnLocations: GHN's codes of places (GhnService).                       *)
(***************************************************************************)
\* GHN's place g may be what p lies in.
LocatingWithin(p, g) == IF Parent[p] = Null THEN g = Null ELSE g \in Locating!Right(Parent[p])

\* A job works on rows whose parent has, or had, the code it looks under, and
\* stores what it has found there.
LocatingJobsAreRight ==
    \A j \in Calls : job[j] # Locating!Idle =>
        /\ \A p \in job[j].places : LocatingWithin(p, job[j].within)
        /\ job[j].op \in {"ask", "match"} => job[j].place # Null /\
             LocatingWithin(job[j].place, job[j].within)
        /\ job[j].op = "match" =>
              /\ job[j].answer \in GhnIds
              /\ GhnName[job[j].answer] = Name[job[j].place]
              /\ GhnParent[job[j].answer] = job[j].within
        /\ job[j].op = "store" => job[j].place # Null /\ job[j].answer \in Locating!Right(job[j].place)

LocatingIInv == Locating!TypeOK /\ Locating!CodesAreRight /\ LocatingJobsAreRight
-----------------------------------------------------------------------------
\* What Right means, one level at a time.
LEMMA LocatingRightOf ==
    ASSUME Locating!PlaceAssumption, NEW p \in Places
    PROVE  \A g : g \in Locating!Right(p) <=>
              /\ g \in GhnIds
              /\ GhnName[g] = Name[p]
              /\ LocatingWithin(p, GhnParent[g])
<1>1. CASE Parent[p] = Null
  <2>1. Locating!Right(p) = Locating!Named(p, {Null})
    BY <1>1 DEF Locating!Right, Locating!Level
  <2> QED BY <1>1, <2>1 DEF Locating!Named, LocatingWithin
<1>2. CASE Parent[p] # Null /\ Parent[Parent[p]] = Null
  <2>1. Locating!Right(p) = Locating!Named(p, Locating!Named(Parent[p], {Null})) /\
          Locating!Right(Parent[p]) = Locating!Named(Parent[p], {Null})
    BY <1>2 DEF Locating!Right, Locating!Level
  <2> QED BY <1>2, <2>1 DEF Locating!Named, LocatingWithin
<1>3. CASE Parent[p] # Null /\ Parent[Parent[p]] # Null
  <2>1. Parent[p] \in Places /\ Parent[Parent[Parent[p]]] = Null
    BY <1>3 DEF Locating!PlaceAssumption
  <2>2. Locating!Right(p) = Locating!Named(p, Locating!Named(Parent[p], Locating!Named(Parent[Parent[p]], {Null})))
    BY <1>3 DEF Locating!Right, Locating!Level
  <2>3. Locating!Right(Parent[p]) = Locating!Named(Parent[p], Locating!Named(Parent[Parent[p]], {Null}))
    BY <1>3, <2>1 DEF Locating!Right, Locating!Level
  <2> QED BY <1>3, <2>2, <2>3 DEF Locating!Named, LocatingWithin
<1> QED BY <1>1, <1>2, <1>3

\* Rows that GHN knows as the same place have the same names all the way up.
LEMMA LocatingSamePlace ==
    ASSUME Locating!PlaceAssumption, NEW p \in Places, NEW q \in Places,
           NEW h \in Locating!Right(p), h \in Locating!Right(q)
    PROVE  Locating!Right(p) = Locating!Right(q)
<1>1. \A m \in Places : Parent[m] = Null \/ Parent[m] \in Places
  BY DEF Locating!PlaceAssumption
<1>2. \A m, n \in Places : Parent[m] = Null /\ (\E g \in Locating!Right(m) : g \in Locating!Right(n)) =>
         Parent[n] = Null /\ Locating!Right(m) = Locating!Right(n)
  <2> SUFFICES ASSUME NEW m \in Places, NEW n \in Places, Parent[m] = Null,
                      NEW g \in Locating!Right(m), g \in Locating!Right(n)
               PROVE  Parent[n] = Null /\ Locating!Right(m) = Locating!Right(n)
    OBVIOUS
  <2>1. GhnParent[g] = Null /\ GhnName[g] = Name[m] /\ GhnName[g] = Name[n] /\ LocatingWithin(n, GhnParent[g])
    BY LocatingRightOf DEF LocatingWithin
  <2>2. Parent[n] = Null
    <3> SUFFICES ASSUME Parent[n] # Null PROVE FALSE
      OBVIOUS
    <3>1. Null \in Locating!Right(Parent[n]) /\ Parent[n] \in Places
      BY <1>1, <2>1 DEF LocatingWithin
    <3>2. Null \in GhnIds
      BY <3>1, LocatingRightOf
    <3> QED BY <3>2 DEF Locating!PlaceAssumption
  <2>3. \A x : x \in Locating!Right(m) <=> x \in Locating!Right(n)
    BY <2>1, <2>2, LocatingRightOf DEF LocatingWithin
  <2> QED BY <2>2, <2>3
<1>3. \A m, n \in Places :
         Parent[m] # Null /\ Parent[n] # Null /\ (\E g \in Locating!Right(m) : g \in Locating!Right(n))
         /\ Locating!Right(Parent[m]) = Locating!Right(Parent[n]) => Locating!Right(m) = Locating!Right(n)
  <2> SUFFICES ASSUME NEW m \in Places, NEW n \in Places, Parent[m] # Null, Parent[n] # Null,
                      NEW g \in Locating!Right(m), g \in Locating!Right(n), Locating!Right(Parent[m]) = Locating!Right(Parent[n])
               PROVE  Locating!Right(m) = Locating!Right(n)
    OBVIOUS
  <2>1. GhnName[g] = Name[m] /\ GhnName[g] = Name[n]
    BY LocatingRightOf
  <2>2. \A x : x \in Locating!Right(m) <=> x \in Locating!Right(n)
    BY <2>1, LocatingRightOf DEF LocatingWithin
  <2> QED BY <2>2
<1>4. \A m \in Places : \A g \in Locating!Right(m) : Parent[m] # Null =>
        GhnParent[g] \in Locating!Right(Parent[m])
  BY LocatingRightOf DEF LocatingWithin
<1>5. \A m, n \in Places : Parent[m] # Null /\ Parent[Parent[m]] = Null
         /\ (\E g \in Locating!Right(m) : g \in Locating!Right(n)) => Locating!Right(m) = Locating!Right(n)
  <2> SUFFICES ASSUME NEW m \in Places, NEW n \in Places, Parent[m] # Null,
                      Parent[Parent[m]] = Null,
                      NEW g \in Locating!Right(m), g \in Locating!Right(n)
               PROVE  Locating!Right(m) = Locating!Right(n)
    OBVIOUS
  <2>1. Parent[n] # Null
    BY <1>2
  <2>2. GhnParent[g] \in Locating!Right(Parent[m]) /\ GhnParent[g] \in Locating!Right(Parent[n])
    BY <1>4, <2>1
  <2>3. Locating!Right(Parent[m]) = Locating!Right(Parent[n])
    BY <1>1, <1>2, <2>1, <2>2
  <2> QED BY <1>3, <2>1, <2>3
<1>6. CASE Parent[p] = Null
  BY <1>2, <1>6
<1>7. CASE Parent[p] # Null /\ Parent[Parent[p]] = Null
  BY <1>5, <1>7
<1>8. CASE Parent[p] # Null /\ Parent[Parent[p]] # Null
  <2>1. Parent[p] \in Places /\ Parent[Parent[Parent[p]]] = Null
    BY <1>8 DEF Locating!PlaceAssumption
  <2>2. Parent[q] # Null
    BY <1>2, <1>8
  <2>3. GhnParent[h] \in Locating!Right(Parent[p]) /\ GhnParent[h] \in Locating!Right(Parent[q])
    BY <1>4, <1>8, <2>2
  <2>4. Locating!Right(Parent[p]) = Locating!Right(Parent[q])
    BY <1>1, <1>5, <1>8, <2>1, <2>2, <2>3
  <2> QED BY <1>3, <1>8, <2>2, <2>4
<1> QED BY <1>6, <1>7, <1>8

\* A namesake of a place is within the same places as far as their codes are known.
LEMMA LocatingNamesake ==
    ASSUME Locating!PlaceAssumption, Locating!CodesAreRight, NEW p \in Places, NEW g,
           LocatingWithin(p, g), NEW m \in Locating!Namesakes(p, g)
    PROVE  m \in Places /\ Name[m] = Name[p] /\ LocatingWithin(m, g) /\
             (\A h : LocatingWithin(m, h) <=> LocatingWithin(p, h))
<1>1. m \in Places /\ Name[m] = Name[p] /\ Locating!Level(m) = Locating!Level(p) /\
        (Locating!Level(p) > 1 => Parent[m] \in Locating!Coded(g))
  BY DEF Locating!Namesakes, Locating!At
<1>2. CASE Parent[p] = Null
  BY <1>1, <1>2 DEF Locating!Level, LocatingWithin
<1>3. CASE Parent[p] # Null
  <2>1. Parent[m] \in Places /\ g # Null /\ code[Parent[m]] = g /\ Parent[p] \in Places /\ Parent[m] # Null
    BY <1>1, <1>3 DEF Locating!Level, Locating!Coded, Locating!PlaceAssumption
  <2>2. g \in Locating!Right(Parent[m]) /\ g \in Locating!Right(Parent[p])
    BY <1>3, <2>1 DEF Locating!CodesAreRight, LocatingWithin
  <2>3. Locating!Right(Parent[m]) = Locating!Right(Parent[p])
    BY <2>1, <2>2, LocatingSamePlace
  <2> QED BY <1>1, <1>3, <2>1, <2>2, <2>3 DEF LocatingWithin
<1> QED BY <1>2, <1>3
-----------------------------------------------------------------------------
\* The initial states satisfy the invariant.
LEMMA LocatingInitial == Locating!Init => LocatingIInv
  BY DEF Locating!Init, LocatingIInv, Locating!TypeOK, Locating!CodesAreRight, LocatingJobsAreRight

\* A job goes on, or ends, and no row is touched.
LEMMA LocatingGoesOn ==
    ASSUME LocatingIInv, NEW j \in Calls, NEW r,
           job' = [job EXCEPT ![j] = r], UNCHANGED code,
           \/ r = Locating!Idle
           \/ /\ r \in Locating!Job
              /\ \A p \in r.places : LocatingWithin(p, r.within)
              /\ r.op \in {"ask", "match"} => r.place # Null /\ LocatingWithin(r.place, r.within)
              /\ r.op = "match" =>
                    /\ r.answer \in GhnIds
                    /\ GhnName[r.answer] = Name[r.place]
                    /\ GhnParent[r.answer] = r.within
              /\ r.op = "store" => r.place # Null /\ r.answer \in Locating!Right(r.place)
    PROVE  LocatingIInv'
<1>1. Locating!TypeOK'
  BY DEF LocatingIInv, Locating!TypeOK
<1>2. Locating!CodesAreRight'
  BY DEF LocatingIInv, Locating!CodesAreRight
<1>3. LocatingJobsAreRight'
  BY DEF LocatingIInv, Locating!TypeOK, LocatingJobsAreRight
<1> QED BY <1>1, <1>2, <1>3 DEF LocatingIInv

\* A job at work.
LEMMA LocatingBusy ==
    ASSUME LocatingIInv, NEW j \in Calls, job[j].op # "none"
    PROVE  job[j] \in Locating!Job /\ job[j] # Locating!Idle
  BY DEF LocatingIInv, Locating!TypeOK, Locating!Idle

\* A job that begins.
LEMMA LocatingIsNewJob ==
    /\ Locating!NewJob \in Locating!Job
    /\ \A ls \in SUBSET (1 .. 3) : /\ [Locating!NewJob EXCEPT !.levels = ls] \in Locating!Job
                                  /\ [Locating!NewJob EXCEPT !.levels = ls].places = {}
                                  /\ [Locating!NewJob EXCEPT !.levels = ls].op = "sync"
                                  /\ [Locating!NewJob EXCEPT !.op = "reset", !.levels = ls] \in Locating!Job
                                  /\ [Locating!NewJob EXCEPT !.op = "reset", !.levels = ls].places = {}
                                  /\ [Locating!NewJob EXCEPT !.op = "reset", !.levels = ls].op = "reset"
  BY DEF Locating!NewJob, Locating!Job

\* A job begins or breaks off.
LEMMA LocatingStarted ==
    ASSUME Locating!PlaceAssumption, LocatingIInv, NEW j \in Calls,
           \/ \E l \in 1 .. 3 : Locating!SyncAll(j, l) \/ Locating!Reset(j, l)
           \/ Locating!SyncAddresses(j) \/ Locating!ResetAll(j) \/ Locating!BreakOff(j)
           \/ \E q \in Places : Locating!SyncOf(j, q)
    PROVE  LocatingIInv'
<1>1. ASSUME NEW l \in 1 .. 3, Locating!SyncAll(j, l) \/ Locating!Reset(j, l) PROVE LocatingIInv'
  <2>1. {l} \in SUBSET (1 .. 3)
    OBVIOUS
  <2> QED BY <1>1, <2>1, LocatingIsNewJob, LocatingGoesOn DEF Locating!SyncAll, Locating!Reset,
      Locating!Start
<1>2. CASE Locating!SyncAddresses(j) \/ Locating!ResetAll(j)
  BY <1>2, LocatingIsNewJob, LocatingGoesOn DEF Locating!SyncAddresses, Locating!ResetAll,
    Locating!Start
<1>3. CASE Locating!BreakOff(j)
  BY <1>3, LocatingGoesOn DEF Locating!BreakOff, Locating!Go
<1>4. ASSUME NEW q \in Places, Locating!SyncOf(j, q) PROVE LocatingIInv'
  <2> DEFINE r == [Locating!NewJob EXCEPT !.places = Locating!ChildrenOf(q), !.within = code[q]]
  <2>1. r \in Locating!Job /\ r.op = "sync" /\ r.places = Locating!ChildrenOf(q) /\ r.within = code[q]
    BY DEF Locating!NewJob, Locating!Job, Locating!ChildrenOf, LocatingIInv, Locating!TypeOK
  <2>2. \A p \in Locating!ChildrenOf(q) : LocatingWithin(p, code[q])
    BY <1>4 DEF Locating!SyncOf, Locating!ChildrenOf, LocatingWithin, LocatingIInv,
      Locating!CodesAreRight, Locating!PlaceAssumption
  <2>3. job' = [job EXCEPT ![j] = r] /\ UNCHANGED code
    BY <1>4 DEF Locating!SyncOf, Locating!Start
  <2> HIDE DEF r
  <2> QED BY <2>1, <2>2, <2>3, LocatingGoesOn
<1> QED BY <1>1, <1>2, <1>3, <1>4

\* It opens the places of a level, or of a parent.
LEMMA LocatingWalked ==
    ASSUME Locating!PlaceAssumption, LocatingIInv, NEW j \in Calls,
           Locating!OpenLevel(j) \/ (\E q \in Places : Locating!OpenParent(j, q))
    PROVE  LocatingIInv'
<1>1. CASE Locating!OpenLevel(j)
  <2>1. job[j] \in Locating!Job /\ job[j].op = "sync" /\ job[j].places = {}
    BY <1>1 DEF Locating!OpenLevel, LocatingIInv, Locating!TypeOK, Locating!Idle
  <2>2. CASE job[j].levels = {}
    BY <1>1, <2>2, LocatingGoesOn DEF Locating!OpenLevel, Locating!Go
  <2>3. CASE job[j].levels # {}
    <3> DEFINE l == CHOOSE n \in job[j].levels : \A m \in job[j].levels : n <= m
               rest == [job[j] EXCEPT !.levels = @ \ {l}, !.within = Null]
               first == [rest EXCEPT !.places = Locating!At(1)]
               other == [rest EXCEPT !.parents = {q \in Locating!At(l - 1) : code[q] # Null}]
    <3>1. rest \in Locating!Job /\ rest.op = "sync" /\ rest.places = {} /\ rest.within = Null
      BY <2>1 DEF Locating!Job
    <3>2. IF l = 1 THEN job' = [job EXCEPT ![j] = first] ELSE job' = [job EXCEPT ![j] = other]
      BY <1>1, <2>3 DEF Locating!OpenLevel, Locating!Go
    <3>3. UNCHANGED code
      BY <1>1 DEF Locating!OpenLevel
    <3> HIDE DEF l, rest
    <3>4. first \in Locating!Job /\ first.op = "sync" /\ first.places = Locating!At(1) /\ first.within = Null
      BY <3>1 DEF Locating!Job, Locating!At
    <3>5. other \in Locating!Job /\ other.op = "sync" /\ other.places = {}
      BY <3>1 DEF Locating!Job, Locating!At
    <3>6. \A p \in Locating!At(1) : LocatingWithin(p, Null)
      BY DEF Locating!At, Locating!Level, LocatingWithin
    <3> HIDE DEF first, other
    <3> QED BY <3>2, <3>3, <3>4, <3>5, <3>6, LocatingGoesOn
  <2> QED BY <2>2, <2>3
<1>2. ASSUME NEW q \in Places, Locating!OpenParent(j, q) PROVE LocatingIInv'
  <2> DEFINE open == IF code[q] = Null THEN {} ELSE Locating!ChildrenOf(q)
             r == [job[j] EXCEPT !.parents = @ \ {q}, !.within = code[q], !.places = open]
  <2>1. job[j] \in Locating!Job /\ job[j].op = "sync"
    <3>1. job[j].op = "sync"
      BY <1>2 DEF Locating!OpenParent
    <3> QED BY <3>1, LocatingBusy
  <2>2. \A p \in open : LocatingWithin(p, code[q])
    BY DEF Locating!ChildrenOf, LocatingWithin, LocatingIInv, Locating!CodesAreRight,
      Locating!PlaceAssumption
  <2>3. open \subseteq Places /\ code[q] \in GhnIds \cup {Null}
    BY DEF Locating!ChildrenOf, LocatingIInv, Locating!TypeOK
  <2>4. job' = [job EXCEPT ![j] = r] /\ UNCHANGED code
    BY <1>2 DEF Locating!OpenParent, Locating!Go
  <2> HIDE DEF open
  <2>5. r \in Locating!Job /\ r.op = "sync" /\ r.places = open /\ r.within = code[q]
    BY <2>1, <2>3 DEF Locating!Job
  <2> HIDE DEF r
  <2> QED BY <2>2, <2>4, <2>5, LocatingGoesOn
<1> QED BY <1>1, <1>2

\* It looks a place up.
LEMMA LocatingLookedUp ==
    ASSUME Locating!PlaceAssumption, LocatingIInv, NEW j \in Calls, NEW p \in Places,
           Locating!LookUp(j, p)
    PROVE  LocatingIInv'
<1> DEFINE next == [job[j] EXCEPT !.places = @ \ {p}, !.place = p]
<1>1. /\ job[j] \in Locating!Job /\ job[j].op = "sync" /\ p \in job[j].places
      /\ \A n \in job[j].places : LocatingWithin(n, job[j].within)
      /\ p # Null
  <2>1. job[j].op = "sync" /\ p \in job[j].places
    BY DEF Locating!LookUp
  <2>2. job[j] \in Locating!Job /\ job[j] # Locating!Idle
    BY <2>1, LocatingBusy
  <2> QED BY <2>1, <2>2 DEF LocatingIInv, LocatingJobsAreRight, Locating!PlaceAssumption
<1>2. /\ next \in Locating!Job /\ next.places = job[j].places \ {p} /\ next.within = job[j].within
      /\ next.place = p
  BY <1>1 DEF Locating!Job
<1>3. /\ UNCHANGED code
      /\ \/ \E m \in Locating!Namesakes(p, job[j].within) :
               code[m] # Null /\ Locating!Go(j, [next EXCEPT !.op = "store", !.answer = code[m]])
         \/ Locating!Go(j, [next EXCEPT !.op = "ask"])
  BY DEF Locating!LookUp
<1> HIDE DEF next
<1>4. ASSUME NEW m \in Locating!Namesakes(p, job[j].within), code[m] # Null,
             Locating!Go(j, [next EXCEPT !.op = "store", !.answer = code[m]])
      PROVE  LocatingIInv'
  <2> DEFINE r == [next EXCEPT !.op = "store", !.answer = code[m]]
  <2>1. m \in Places /\ Name[m] = Name[p] /\ (\A h : LocatingWithin(m, h) <=> LocatingWithin(p, h))
    BY <1>1, <1>4, LocatingNamesake DEF LocatingIInv
  <2>2. code[m] \in GhnIds /\ code[m] \in Locating!Right(m)
    BY <1>4, <2>1 DEF LocatingIInv, Locating!TypeOK, Locating!CodesAreRight
  <2>3. code[m] \in Locating!Right(p)
    BY <2>1, <2>2, LocatingRightOf
  <2>4. /\ r \in Locating!Job /\ r.places = job[j].places \ {p} /\ r.within = job[j].within
        /\ r.place = p /\ r.op = "store" /\ r.answer = code[m]
    BY <1>2, <2>2 DEF Locating!Job
  <2>5. job' = [job EXCEPT ![j] = r]
    BY <1>4 DEF Locating!Go
  <2> HIDE DEF r
  <2> QED BY <1>1, <1>3, <2>3, <2>4, <2>5, LocatingGoesOn
<1>5. CASE Locating!Go(j, [next EXCEPT !.op = "ask"])
  <2> DEFINE r == [next EXCEPT !.op = "ask"]
  <2>1. /\ r \in Locating!Job /\ r.places = job[j].places \ {p} /\ r.within = job[j].within
        /\ r.place = p /\ r.op = "ask"
    BY <1>2 DEF Locating!Job
  <2>2. job' = [job EXCEPT ![j] = r]
    BY <1>5 DEF Locating!Go
  <2> HIDE DEF r
  <2> QED BY <1>1, <1>3, <2>1, <2>2, LocatingGoesOn
<1> QED BY <1>3, <1>4, <1>5

\* It asks GHN for the codes within a parent.
LEMMA LocatingAsked ==
    ASSUME Locating!PlaceAssumption, LocatingIInv, NEW j \in Calls, Locating!AskGhn(j)
    PROVE  LocatingIInv'
<1>1. job[j].op = "ask" /\ UNCHANGED code
  BY DEF Locating!AskGhn
<1>2. job[j] \in Locating!Job /\ job[j] # Locating!Idle
  BY <1>1, LocatingBusy
<1>3. /\ \A n \in job[j].places : LocatingWithin(n, job[j].within)
      /\ job[j].place # Null /\ LocatingWithin(job[j].place, job[j].within)
  BY <1>1, <1>2 DEF LocatingIInv, LocatingJobsAreRight
<1>4. ASSUME NEW g \in GhnIds, GhnParent[g] = job[j].within, GhnName[g] = Name[job[j].place],
             Locating!Go(j, [job[j] EXCEPT !.op = "match", !.answer = g])
      PROVE  LocatingIInv'
  <2> DEFINE r == [job[j] EXCEPT !.op = "match", !.answer = g]
  <2>1. /\ r \in Locating!Job /\ r.places = job[j].places /\ r.within = job[j].within
        /\ r.place = job[j].place /\ r.op = "match" /\ r.answer = g
    BY <1>2 DEF Locating!Job
  <2>2. job' = [job EXCEPT ![j] = r]
    BY <1>4 DEF Locating!Go
  <2> HIDE DEF r
  <2> QED BY <1>1, <1>3, <1>4, <2>1, <2>2, LocatingGoesOn
<1>5. CASE Locating!Go(j, [job[j] EXCEPT !.op = "sync", !.place = Null])
  <2> DEFINE r == [job[j] EXCEPT !.op = "sync", !.place = Null]
  <2>1. r \in Locating!Job /\ r.places = job[j].places /\ r.within = job[j].within /\ r.op = "sync"
    BY <1>2 DEF Locating!Job
  <2>2. job' = [job EXCEPT ![j] = r]
    BY <1>5 DEF Locating!Go
  <2> HIDE DEF r
  <2> QED BY <1>1, <1>3, <2>1, <2>2, LocatingGoesOn
<1> QED BY <1>4, <1>5 DEF Locating!AskGhn

\* Of a step that changes codes, once those it leaves are right.
LEMMA LocatingStored ==
    ASSUME LocatingIInv, NEW j \in Calls, NEW r \in Locating!Job \cup {Locating!Idle}, NEW c,
           job' = [job EXCEPT ![j] = r], code' = c,
           c \in [Places -> GhnIds \cup {Null}],
           \A p \in Places : c[p] # Null => c[p] \in Locating!Right(p),
           r # Locating!Idle =>
              /\ r.op \in {"sync", "store", "reset"}
              /\ \A p \in r.places : LocatingWithin(p, r.within)
              /\ r.op = "store" => r.place # Null /\ r.answer \in Locating!Right(r.place)
    PROVE  LocatingIInv'
<1>1. Locating!TypeOK' /\ Locating!CodesAreRight'
  BY DEF LocatingIInv, Locating!TypeOK, Locating!CodesAreRight
<1>2. LocatingJobsAreRight'
  BY DEF LocatingIInv, Locating!TypeOK, LocatingJobsAreRight
<1> QED BY <1>1, <1>2 DEF LocatingIInv

\* A match by name is stored.
LEMMA LocatingMatched ==
    ASSUME Locating!PlaceAssumption, LocatingIInv, NEW j \in Calls, Locating!StoreMatch(j)
    PROVE  LocatingIInv'
<1> DEFINE r == [job[j] EXCEPT !.op = "store"]
<1>1. job[j].op = "match" /\ job' = [job EXCEPT ![j] = r]
  BY DEF Locating!StoreMatch, Locating!Go
<1>2. job[j] \in Locating!Job /\ job[j] # Locating!Idle
  BY <1>1, LocatingBusy
<1>3. PICK p \in Places : p = job[j].place
  BY <1>1, <1>2 DEF LocatingIInv, LocatingJobsAreRight, Locating!Job
<1>4. PICK g \in GhnIds : g = job[j].answer
  BY <1>1, <1>2 DEF LocatingIInv, LocatingJobsAreRight
<1>5. PICK w : w = job[j].within
  OBVIOUS
<1>6. /\ \A n \in job[j].places : LocatingWithin(n, w)
      /\ LocatingWithin(p, w) /\ GhnName[g] = Name[p] /\ GhnParent[g] = w
  BY <1>1, <1>2, <1>3, <1>4, <1>5 DEF LocatingIInv, LocatingJobsAreRight
<1>7. /\ r \in Locating!Job /\ r.places = job[j].places /\ r.within = w
      /\ r.place = p /\ r.op = "store" /\ r.answer = g
  BY <1>2, <1>3, <1>4, <1>5 DEF Locating!Job
<1>8. g \in Locating!Right(p) /\ p # Null /\ r # Locating!Idle
  BY <1>6, <1>7, LocatingRightOf DEF Locating!PlaceAssumption, Locating!Idle
<1>9. \/ \E m \in Locating!Namesakes(p, w) : code' = [code EXCEPT ![m] = g]
      \/ code' = code
  BY <1>3, <1>4, <1>5 DEF Locating!StoreMatch
<1> HIDE DEF r
<1>10. ASSUME NEW m \in Locating!Namesakes(p, w), code' = [code EXCEPT ![m] = g] PROVE LocatingIInv'
  <2>1. m \in Places /\ Name[m] = Name[p] /\ LocatingWithin(m, w)
    BY <1>6, LocatingNamesake DEF LocatingIInv
  <2>2. g \in Locating!Right(m)
    BY <1>6, <2>1, LocatingRightOf
  <2>3. PICK c : c = [code EXCEPT ![m] = g]
    OBVIOUS
  <2>4. /\ c \in [Places -> GhnIds \cup {Null}]
        /\ \A n \in Places : c[n] # Null => c[n] \in Locating!Right(n)
    BY <2>1, <2>2, <2>3 DEF LocatingIInv, Locating!TypeOK, Locating!CodesAreRight
  <2>5. code' = c
    BY <1>10, <2>3
  <2> QED BY <1>1, <1>6, <1>7, <1>8, <2>4, <2>5, LocatingStored
<1>11. CASE code' = code
  <2>1. /\ code \in [Places -> GhnIds \cup {Null}]
        /\ \A n \in Places : code[n] # Null => code[n] \in Locating!Right(n)
    BY DEF LocatingIInv, Locating!TypeOK, Locating!CodesAreRight
  <2> QED BY <1>1, <1>6, <1>7, <1>8, <1>11, <2>1, LocatingStored
<1> QED BY <1>9, <1>10, <1>11

\* An answer of GHN is stored.
LEMMA LocatingAnswered ==
    ASSUME Locating!PlaceAssumption, LocatingIInv, NEW j \in Calls, Locating!StoreAnswer(j)
    PROVE  LocatingIInv'
<1> DEFINE r == [job[j] EXCEPT !.op = "sync", !.place = Null, !.answer = Null]
<1>1. job[j].op = "store" /\ job' = [job EXCEPT ![j] = r]
  BY DEF Locating!StoreAnswer, Locating!Go
<1>2. job[j] \in Locating!Job /\ job[j] # Locating!Idle
  BY <1>1, LocatingBusy
<1>3. PICK p \in Places : p = job[j].place
  BY <1>1, <1>2 DEF LocatingIInv, LocatingJobsAreRight, Locating!Job
<1>4. PICK g \in GhnIds : g = job[j].answer /\ g \in Locating!Right(p)
  BY <1>1, <1>2, <1>3, LocatingRightOf DEF LocatingIInv, LocatingJobsAreRight
<1>5. \A n \in job[j].places : LocatingWithin(n, job[j].within)
  BY <1>2 DEF LocatingIInv, LocatingJobsAreRight
<1>6. /\ r \in Locating!Job /\ r.places = job[j].places /\ r.within = job[j].within /\ r.op = "sync"
  BY <1>2 DEF Locating!Job
<1>7. code' \in {code, [code EXCEPT ![p] = g]}
  BY <1>3, <1>4 DEF Locating!StoreAnswer
<1>8. /\ code' \in [Places -> GhnIds \cup {Null}]
      /\ \A n \in Places : code'[n] # Null => code'[n] \in Locating!Right(n)
  BY <1>4, <1>7 DEF LocatingIInv, Locating!TypeOK, Locating!CodesAreRight
<1>9. PICK c : c = code'
  OBVIOUS
<1> HIDE DEF r
<1> QED BY <1>1, <1>5, <1>6, <1>8, <1>9, LocatingStored

\* A level is reset.
LEMMA LocatingWasReset ==
    ASSUME Locating!PlaceAssumption, LocatingIInv, NEW j \in Calls, Locating!ResetLevel(j)
    PROVE  LocatingIInv'
<1> DEFINE l == CHOOSE n \in job[j].levels : \A m \in job[j].levels : n <= m
           r == [job[j] EXCEPT !.levels = @ \ {l}]
<1>1. /\ job[j].op = "reset"
      /\ code' = [p \in Places |-> IF Locating!Level(p) = l THEN Null ELSE code[p]]
      /\ job' = [job EXCEPT ![j] = Locating!Idle] \/ job' = [job EXCEPT ![j] = r]
  BY DEF Locating!ResetLevel, Locating!Go
<1>2. job[j] \in Locating!Job /\ job[j] # Locating!Idle
  BY <1>1, LocatingBusy
<1> HIDE DEF l
<1>3. \A n \in job[j].places : LocatingWithin(n, job[j].within)
  BY <1>2 DEF LocatingIInv, LocatingJobsAreRight
<1>4. r \in Locating!Job /\ r.places = job[j].places /\ r.within = job[j].within /\ r.op = "reset"
  BY <1>1, <1>2 DEF Locating!Job
<1>5. /\ code' \in [Places -> GhnIds \cup {Null}]
      /\ \A n \in Places : code'[n] # Null => code'[n] \in Locating!Right(n)
  BY <1>1 DEF LocatingIInv, Locating!TypeOK, Locating!CodesAreRight
<1>6. PICK c : c = code'
  OBVIOUS
<1> HIDE DEF r
<1> QED BY <1>1, <1>3, <1>4, <1>5, <1>6, LocatingStored

\* Every step keeps the invariant.
LEMMA LocatingStep ==
    ASSUME Locating!PlaceAssumption, LocatingIInv, [Locating!Next]_(Locating!vars)
    PROVE  LocatingIInv'
<1>1. CASE UNCHANGED Locating!vars
  BY <1>1 DEF Locating!vars, LocatingIInv, Locating!TypeOK, Locating!CodesAreRight,
    LocatingJobsAreRight
<1>2. CASE Locating!Next
  BY <1>2, LocatingStarted, LocatingWalked, LocatingLookedUp, LocatingAsked, LocatingMatched,
    LocatingAnswered, LocatingWasReset DEF Locating!Next
<1> QED BY <1>1, <1>2
-----------------------------------------------------------------------------
\* In its scene a step of the services is one of GhnLocations.
LEMMA LocatingSteps ==
    ASSUME scene = "locations", [Next]_vars
    PROVE  scene' = "locations" /\ [Locating!Next]_(Locating!vars)
<1>1. CASE Next
  BY <1>1 DEF Next
<1>2. CASE UNCHANGED vars
  BY <1>2 DEF vars, vLocating, Locating!vars
<1> QED BY <1>1, <1>2

LocatingHolds == scene = "locations" => LocatingIInv

\* The invariant of the scene holds of every behaviour of the services.
LEMMA LocatingInvariant == Spec => []LocatingHolds
<1>0. Locating!PlaceAssumption
  BY ServicesAssumption DEF ServicesAssumption
<1>1. Init => LocatingHolds
  BY <1>0, LocatingInitial DEF Init, LocatingHolds
<1>2. LocatingHolds /\ [Next]_vars => LocatingHolds'
  <2> SUFFICES ASSUME LocatingHolds, [Next]_vars, scene' = "locations" PROVE LocatingIInv'
    BY DEF LocatingHolds
  <2>1. scene = "locations"
    BY DEF Next, vars
  <2>2. LocatingIInv /\ [Locating!Next]_(Locating!vars)
    BY <2>1, LocatingSteps DEF LocatingHolds
  <2> QED BY <1>0, <2>2, LocatingStep
<1> QED BY <1>1, <1>2, PTL DEF Spec
-----------------------------------------------------------------------------
(***************************************************************************)
(* GhnRequests: what GHN is asked (GhnService).                            *)
(***************************************************************************)
\* GHN makes a shipment no sooner than it answers.
RequestingBookedWhenAnswered ==
    \A q \in booked : request[q] # Null /\ outcome[q] # Null

RequestingAnsweredWhenAsked == \A q \in GhnRequestIds : request[q] = Null => outcome[q] = Null

RequestingIInv == Requesting!TypeOK /\ RequestingAnsweredWhenAsked /\
    RequestingBookedWhenAnswered /\ Requesting!RefusalIsFinal
-----------------------------------------------------------------------------
\* What is thrown or given back, and what GHN has done by then.
LEMMA RequestingOutcomes ==
    ASSUME NEW r \in Requesting!Responses
    PROVE  /\ Requesting!FeeOutcome(r) \in Requesting!Errors \cup {"data"}
           /\ Requesting!RetryOutcome(r) \in Requesting!Errors \cup {"data"}
           /\ Requesting!DetailOutcome(r) \in Requesting!Errors \cup {"data"}
           /\ Requesting!CreateOutcome(r) \in Requesting!Errors \cup {"data"}
           /\ Requesting!CreateOutcome(r) = "data" => Requesting!MayBook(r) = {TRUE}
           /\ Requesting!CreateOutcome(r) = "refused" => Requesting!MayBook(r) = {FALSE}
           /\ Requesting!MayBook(r) \subseteq BOOLEAN
<1>1. CASE r \in Requesting!Answers
  BY <1>1 DEF Requesting!Answers, Requesting!FeeOutcome, Requesting!RetryOutcome,
    Requesting!DetailOutcome, Requesting!CreateOutcome, Requesting!MayBook, Requesting!Thrown,
    Requesting!Errors
<1>2. CASE r \in Requesting!HttpErrors
  <2>1. r.kind = "http" /\ r.status \in {400, 401, 404, 500}
    BY <1>2 DEF Requesting!HttpErrors
  <2>2. Requesting!Thrown(r) = IF r.status = 400 THEN "refused" ELSE "failed"
    BY <2>1 DEF Requesting!Thrown
  <2>3. Requesting!FeeOutcome(r) = Requesting!Thrown(r) /\ Requesting!RetryOutcome(r) = "refused" /\
          Requesting!CreateOutcome(r) = Requesting!Thrown(r)
    BY <2>1 DEF Requesting!FeeOutcome, Requesting!RetryOutcome, Requesting!CreateOutcome
  <2>4. Requesting!DetailOutcome(r) = IF r.status = 404 THEN "unknown" ELSE Requesting!Thrown(r)
    BY <2>1, <2>3 DEF Requesting!DetailOutcome
  <2>5. Requesting!MayBook(r) = IF r.status = 500 THEN BOOLEAN ELSE {FALSE}
    BY <2>1 DEF Requesting!MayBook
  <2>6. Requesting!Thrown(r) \in {"refused", "failed"} /\
          Requesting!DetailOutcome(r) \in {"refused", "failed", "unknown"}
    BY <2>2, <2>4
  <2>9. Requesting!FeeOutcome(r) \in Requesting!Errors /\
          Requesting!RetryOutcome(r) \in Requesting!Errors /\
            Requesting!DetailOutcome(r) \in Requesting!Errors
        /\ Requesting!CreateOutcome(r) \in {"refused", "failed"}
    BY <2>3, <2>6 DEF Requesting!Errors
  <2>7. Requesting!MayBook(r) \subseteq BOOLEAN
    BY <2>5
  <2>8. Requesting!CreateOutcome(r) = "refused" => r.status = 400
    BY <2>2, <2>3
  <2>10. r.status = 400 => Requesting!MayBook(r) = {FALSE}
    BY <2>5
  <2>11. Requesting!CreateOutcome(r) # "data"
    BY <2>9
  <2>12. /\ Requesting!FeeOutcome(r) \in Requesting!Errors \cup {"data"}
         /\ Requesting!RetryOutcome(r) \in Requesting!Errors \cup {"data"}
         /\ Requesting!DetailOutcome(r) \in Requesting!Errors \cup {"data"}
    BY <2>9
  <2>13. Requesting!CreateOutcome(r) \in Requesting!Errors \cup {"data"}
    BY <2>9 DEF Requesting!Errors
  <2>14. Requesting!CreateOutcome(r) = "data" => Requesting!MayBook(r) = {TRUE}
    BY <2>11
  <2>15. Requesting!CreateOutcome(r) = "refused" => Requesting!MayBook(r) = {FALSE}
    BY <2>8, <2>10
  <2> QED BY <2>7, <2>12, <2>13, <2>14, <2>15
<1>3. CASE r = Requesting!NoResponse
  <2>1. r.kind = "silence"
    BY <1>3 DEF Requesting!NoResponse
  <2>2. Requesting!Thrown(r) = "silent"
    BY <2>1 DEF Requesting!Thrown
  <2>3. Requesting!MayBook(r) = BOOLEAN
    BY <2>1 DEF Requesting!MayBook
  <2>4. Requesting!FeeOutcome(r) = "silent" /\ Requesting!RetryOutcome(r) = "refused" /\
          Requesting!CreateOutcome(r) = "silent"
    BY <2>1, <2>2 DEF Requesting!FeeOutcome, Requesting!RetryOutcome, Requesting!CreateOutcome
  <2>5. Requesting!DetailOutcome(r) = "silent"
    BY <2>1, <2>4 DEF Requesting!DetailOutcome
  <2> QED BY <2>3, <2>4, <2>5 DEF Requesting!Errors
<1>4. CASE r = Requesting!NotSent
  <2>1. r.kind = "setup"
    BY <1>4 DEF Requesting!NotSent
  <2>2. Requesting!Thrown(r) = "failed"
    BY <2>1 DEF Requesting!Thrown
  <2>3. Requesting!MayBook(r) = {FALSE}
    BY <2>1 DEF Requesting!MayBook
  <2>4. Requesting!FeeOutcome(r) = "failed" /\ Requesting!RetryOutcome(r) = "refused" /\
          Requesting!CreateOutcome(r) = "failed"
    BY <2>1, <2>2 DEF Requesting!FeeOutcome, Requesting!RetryOutcome, Requesting!CreateOutcome
  <2>5. Requesting!DetailOutcome(r) = "failed"
    BY <2>1, <2>4 DEF Requesting!DetailOutcome
  <2> QED BY <2>3, <2>4, <2>5 DEF Requesting!Errors
<1> QED BY <1>1, <1>2, <1>3, <1>4 DEF Requesting!Responses

\* The initial states satisfy the invariant.
LEMMA RequestingInitial == Requesting!Init => RequestingIInv
  BY DEF Requesting!Init, RequestingIInv, Requesting!TypeOK, RequestingAnsweredWhenAsked,
    RequestingBookedWhenAnswered, Requesting!RefusalIsFinal

\* Every step keeps the invariant.
LEMMA RequestingStep ==
    ASSUME Requesting!NullAssumption, RequestingIInv, [Requesting!Next]_(Requesting!vars)
    PROVE  RequestingIInv'
<1> USE DEF RequestingIInv
<1>1. ASSUME NEW q \in GhnRequestIds, NEW op \in {"fee", "create", "detail"},
             NEW oversize \in BOOLEAN,
             Requesting!Ask(q, op, oversize)
      PROVE  RequestingIInv'
  <2> DEFINE asks == [op |-> op, service |-> Requesting!ServiceType(oversize), resent |-> FALSE]
  <2>1. asks \in Requesting!Request
    BY DEF Requesting!Request, Requesting!ServiceType, Requesting!ServiceTypes
  <2>2. /\ request[q] = Null /\ request'[q] = asks /\ request'[q] # Null
        /\ \A p \in GhnRequestIds \ {q} : request'[p] = request[p]
        /\ request' \in [GhnRequestIds -> Requesting!Request \cup {Null}]
        /\ UNCHANGED <<outcome, booked>>
    BY <1>1, <2>1 DEF Requesting!Ask, Requesting!TypeOK, Requesting!NullAssumption
  <2> HIDE DEF asks
  <2>3. Requesting!TypeOK' /\ RequestingBookedWhenAnswered' /\ RequestingAnsweredWhenAsked'
    BY <2>2 DEF Requesting!TypeOK, RequestingAnsweredWhenAsked, RequestingBookedWhenAnswered
  <2>4. outcome[q] = Null
    BY <2>2 DEF RequestingAnsweredWhenAsked
  <2>5. Null # "data" /\ Null # "refused"
    BY DEF Requesting!NullAssumption, Requesting!Errors
  <2>6. Requesting!RefusalIsFinal'
    BY <2>2, <2>4, <2>5 DEF Requesting!RefusalIsFinal
  <2> QED BY <2>3, <2>6
<1>2. ASSUME NEW q \in GhnRequestIds, NEW r \in Requesting!Responses, Requesting!FeeAnswered(q, r)
      PROVE  RequestingIInv'
  <2>1. request[q] # Null /\ request[q].op = "fee" /\ outcome[q] = Null /\ q \notin booked
    BY <1>2 DEF Requesting!FeeAnswered, Requesting!Waiting, RequestingBookedWhenAnswered
  <2>2. [request[q] EXCEPT !.service = 5, !.resent = TRUE] \in Requesting!Request
    BY <2>1 DEF Requesting!TypeOK, Requesting!Request, Requesting!ServiceTypes
  <2>3. [request[q] EXCEPT !.service = 5, !.resent = TRUE].op = "fee"
    BY <2>1 DEF Requesting!TypeOK, Requesting!Request
  <2>4. outcome' \in [GhnRequestIds -> Requesting!Errors \cup {"data", Null}] /\
          \A p \in GhnRequestIds \ {q} : outcome'[p] = outcome[p]
    BY <1>2, RequestingOutcomes DEF Requesting!FeeAnswered, Requesting!TypeOK, Requesting!Errors
  <2>5. /\ request' \in [GhnRequestIds -> Requesting!Request \cup {Null}]
        /\ \A p \in GhnRequestIds \ {q} : request'[p] = request[p]
        /\ request'[q] # Null /\ request'[q].op = "fee"
        /\ UNCHANGED booked
    BY <1>2, <2>1, <2>2, <2>3 DEF Requesting!FeeAnswered, Requesting!TypeOK,
      Requesting!NullAssumption
  <2> QED BY <2>1, <2>4, <2>5 DEF Requesting!TypeOK, RequestingAnsweredWhenAsked,
      RequestingBookedWhenAnswered, Requesting!RefusalIsFinal
<1>3. ASSUME NEW q \in GhnRequestIds, NEW r \in Requesting!Responses,
             Requesting!CreateAnswered(q, r)
      PROVE  RequestingIInv'
  <2>1. /\ request[q] # Null /\ request[q].op = "create" /\ outcome[q] = Null /\ q \notin booked
        /\ outcome'[q] = Requesting!CreateOutcome(r) /\ Requesting!CreateOutcome(r) # Null
        /\ \A p \in GhnRequestIds \ {q} : outcome'[p] = outcome[p]
        /\ outcome' \in [GhnRequestIds -> Requesting!Errors \cup {"data", Null}]
        /\ UNCHANGED request
    BY <1>3, RequestingOutcomes DEF Requesting!CreateAnswered, Requesting!Waiting,
      RequestingBookedWhenAnswered, Requesting!TypeOK, Requesting!NullAssumption
  <2>2. PICK made \in Requesting!MayBook(r) : booked' = IF made THEN booked \cup {q} ELSE booked
    BY <1>3 DEF Requesting!CreateAnswered
  <2>3. /\ outcome'[q] = "data" => q \in booked'
        /\ outcome'[q] = "refused" => q \notin booked'
    BY <2>1, <2>2, RequestingOutcomes
  <2>4. \A p \in GhnRequestIds \ {q} : p \in booked' <=> p \in booked
    BY <2>2
  <2> QED BY <2>1, <2>2, <2>3, <2>4 DEF Requesting!TypeOK, RequestingAnsweredWhenAsked,
      RequestingBookedWhenAnswered, Requesting!RefusalIsFinal
<1>4. ASSUME NEW q \in GhnRequestIds, NEW r \in Requesting!Responses,
             Requesting!DetailAnswered(q, r)
      PROVE  RequestingIInv'
  <2>1. /\ request[q] # Null /\ request[q].op = "detail"
        /\ \A p \in GhnRequestIds \ {q} : outcome'[p] = outcome[p]
        /\ outcome' \in [GhnRequestIds -> Requesting!Errors \cup {"data", Null}]
        /\ outcome'[q] # Null
        /\ UNCHANGED <<request, booked>>
    BY <1>4, RequestingOutcomes DEF Requesting!DetailAnswered, Requesting!Waiting,
      Requesting!TypeOK, Requesting!NullAssumption
  <2> QED BY <2>1 DEF Requesting!TypeOK, RequestingAnsweredWhenAsked, RequestingBookedWhenAnswered,
      Requesting!RefusalIsFinal
<1>5. CASE UNCHANGED Requesting!vars
  BY <1>5 DEF Requesting!vars, Requesting!TypeOK, RequestingAnsweredWhenAsked,
    RequestingBookedWhenAnswered, Requesting!RefusalIsFinal
<1> QED BY <1>1, <1>2, <1>3, <1>4, <1>5 DEF Requesting!Next
-----------------------------------------------------------------------------
\* In its scene a step of the services is one of GhnRequests.
LEMMA RequestingSteps ==
    ASSUME scene = "requests", [Next]_vars
    PROVE  scene' = "requests" /\ [Requesting!Next]_(Requesting!vars)
<1>1. CASE Next
  BY <1>1 DEF Next
<1>2. CASE UNCHANGED vars
  BY <1>2 DEF vars, vRequesting, Requesting!vars
<1> QED BY <1>1, <1>2

RequestingHolds == scene = "requests" => RequestingIInv

\* The invariant of the scene holds of every behaviour of the services.
LEMMA RequestingInvariant == Spec => []RequestingHolds
<1>0. Requesting!NullAssumption
  BY ServicesAssumption DEF ServicesAssumption
<1>1. Init => RequestingHolds
  BY <1>0, RequestingInitial DEF Init, RequestingHolds
<1>2. RequestingHolds /\ [Next]_vars => RequestingHolds'
  <2> SUFFICES ASSUME RequestingHolds, [Next]_vars, scene' = "requests" PROVE RequestingIInv'
    BY DEF RequestingHolds
  <2>1. scene = "requests"
    BY DEF Next, vars
  <2>2. RequestingIInv /\ [Requesting!Next]_(Requesting!vars)
    BY <2>1, RequestingSteps DEF RequestingHolds
  <2> QED BY <1>0, <2>2, RequestingStep
<1> QED BY <1>1, <1>2, PTL DEF Spec
-----------------------------------------------------------------------------
(***************************************************************************)
(* PayosLinks: PayOS's links and webhooks (PaymentService).                *)
(***************************************************************************)
\* A payment for p, or for one that cannot be told from it, was made.
LinkingPaidFor(p) ==
    \E q \in Payments : link[q] = "paid" /\ Amount[q] = Amount[p] /\ (q = p \/ Linking!Twins(p, q))

LinkingCodesMadeUp ==
    \A p \in Payments :
        /\ asked[p] = Null => link[p] = "none"
        /\ asked[p] # Null => \E t \in Times : asked[p] = Linking!OrderCode(t, p)
        /\ code[p] # Null => code[p] = asked[p]

\* The webhooks at work, and what they may overwrite.
LinkingCallsJustified ==
    \A k \in Calls, p \in Payments : call[k].op = "save" /\ call[k].payment = p =>
        /\ call[k].success => LinkingPaidFor(p)
        /\ status[p] = "COMPLETED" => p \in overlapped
        /\ \A j \in Calls \ {k} : call[j].op = "save" /\ call[j].payment = p => p \in overlapped

LinkingIInv == Linking!TypeOK /\ LinkingCodesMadeUp /\ LinkingCallsJustified /\ Linking!PaidIsCompleted

LinkingAssumption == Linking!WidthAssumption /\ Linking!NullAssumption
-----------------------------------------------------------------------------
\* A code ends with the digits of the id.
LEMMA LinkingCodeEnds ==
    ASSUME Linking!WidthAssumption, NEW t \in Times, NEW p \in Payments
    PROVE  /\ Linking!OrderCode(t, p) \in Linking!Codes
           /\ \A i \in 1 .. Len(p) : Linking!OrderCode(t, p)[Width - Len(p) + i] = p[i]
<1>1. /\ t \in Seq(Digits) /\ p \in Seq(Digits) /\ Width \in Nat \ {0}
      /\ Len(t) \in Nat /\ Len(p) \in Nat /\ Len(p) <= Width /\ Len(t) >= Width
  BY DEF Linking!WidthAssumption
<1> DEFINE s == t \o p
<1>2. /\ s \in Seq(Digits) /\ Len(s) = Len(t) + Len(p)
      /\ \A i \in 1 .. Len(p) : s[Len(t) + i] = p[i]
      /\ \A i \in 1 .. Len(s) : s[i] \in Digits
  BY <1>1
<1> HIDE DEF s
<1>3. Linking!OrderCode(t, p) = SubSeq(s, Len(s) - Width + 1, Len(s))
  BY DEF Linking!OrderCode, Linking!LastOf, s
<1>4. SubSeq(s, Len(s) - Width + 1, Len(s)) = [i \in 1 .. Width |-> s[Len(s) - Width + i]]
  BY <1>1, <1>2
<1>5. \A i \in 1 .. Width : Len(s) - Width + i \in 1 .. Len(s)
  BY <1>1, <1>2
<1>6. \A i \in 1 .. Len(p) : Width - Len(p) + i \in 1 .. Width /\
        Len(s) - Width + (Width - Len(p) + i) = Len(t) + i
  BY <1>1, <1>2
<1> QED BY <1>2, <1>3, <1>4, <1>5, <1>6 DEF Linking!Codes

\* Ids of one length make one code only if they are one.
LEMMA LinkingOneLength ==
    ASSUME Linking!WidthAssumption, NEW t \in Times, NEW u \in Times, NEW p \in Payments,
           NEW q \in Payments,
           Len(p) = Len(q), Linking!OrderCode(t, p) = Linking!OrderCode(u, q)
    PROVE  p = q
<1>1. p \in Seq(Digits) /\ q \in Seq(Digits)
  BY DEF Linking!WidthAssumption
<1>2. \A i \in 1 .. Len(p) : p[i] = q[i]
  BY LinkingCodeEnds
<1> QED BY <1>1, <1>2

\* The initial states satisfy the invariant.
LEMMA LinkingInitial == Linking!Init => LinkingIInv
<1> SUFFICES ASSUME Linking!Init PROVE LinkingIInv
  OBVIOUS
<1>1. Linking!TypeOK
  BY DEF Linking!Init, Linking!TypeOK, Linking!PaymentStatus, Linking!Idle
<1>2. LinkingCodesMadeUp /\ LinkingCallsJustified /\ Linking!PaidIsCompleted
  BY DEF Linking!Init, LinkingCodesMadeUp, LinkingCallsJustified, Linking!PaidIsCompleted,
    Linking!Idle
<1> QED BY <1>1, <1>2 DEF LinkingIInv

\* The payment found by a code is that of the webhook or its twin.
LEMMA LinkingFoundByCode ==
    ASSUME LinkingAssumption, LinkingIInv, NEW w \in Linking!Webhook, NEW p \in Linking!Found(w),
           code[w.of] # Null
    PROVE  p \in Payments /\ (p = w.of \/ Linking!Twins(p, w.of))
<1>1. PICK q \in Payments : q = w.of
  BY DEF Linking!Webhook
<1>2. asked[q] # Null /\ code[p] = asked[q] /\ p \in Payments
  BY <1>1 DEF Linking!Found, LinkingIInv, LinkingCodesMadeUp
<1>3. asked[p] = asked[q]
  BY <1>2 DEF LinkingIInv, LinkingCodesMadeUp
<1>4. PICK t \in Times, u \in Times : asked[p] = Linking!OrderCode(t, p) /\ asked[q] = Linking!OrderCode(u, q)
  BY <1>2, <1>3 DEF LinkingIInv, LinkingCodesMadeUp
<1>5. Len(p) = Len(q) => p = q
  BY <1>2, <1>3, <1>4, LinkingOneLength DEF LinkingAssumption
<1> QED BY <1>1, <1>2, <1>3, <1>5 DEF Linking!Twins

\* What was paid stays paid.
LEMMA LinkingStillPaid ==
    ASSUME LinkingIInv, NEW p \in Payments, LinkingPaidFor(p),
           \A q \in Payments : link[q] = "paid" => link'[q] = "paid",
           \A q \in Payments : asked[q] # Null => asked'[q] = asked[q]
    PROVE  LinkingPaidFor(p)'
<1>1. PICK q \in Payments : link[q] = "paid" /\ Amount[q] = Amount[p] /\ (q = p \/ Linking!Twins(p, q))
  BY DEF LinkingPaidFor
<1>2. asked[q] # Null
  BY <1>1 DEF LinkingIInv, LinkingCodesMadeUp
<1>3. Linking!Twins(p, q) => Linking!Twins(p, q)'
  BY <1>2 DEF Linking!Twins
<1> QED BY <1>1, <1>3 DEF LinkingPaidFor

\* The promise, one payment at a time.
LEMMA LinkingIsPaidFor == Linking!PaidIsCompleted <=>
    /\ \A p \in Payments : status[p] = "COMPLETED" => LinkingPaidFor(p)
    /\ undone \subseteq overlapped
  BY DEF Linking!PaidIsCompleted, LinkingPaidFor

\* Of a step that leaves the webhooks alone and completes no payment.
LEMMA LinkingLinked ==
    ASSUME LinkingAssumption, LinkingIInv, NEW p \in Payments,
           Linking!AskForLink(p) \/ Linking!StoreLink(p) \/ Linking!Pay(p)
    PROVE  LinkingIInv'
<1>1. Linking!TypeOK' /\ LinkingCodesMadeUp'
  <2> USE DEF LinkingIInv, Linking!TypeOK, LinkingCodesMadeUp
  <2>1. CASE Linking!AskForLink(p)
    <3>1. now \in Times /\ Linking!OrderCode(now, p) \in Linking!Codes /\ Linking!OrderCode(now, p) # Null
      BY LinkingCodeEnds DEF LinkingAssumption, Linking!NullAssumption
    <3>2. Linking!TypeOK'
      BY <2>1, <3>1 DEF Linking!AskForLink
    <3>3. LinkingCodesMadeUp'
      BY <2>1, <3>1 DEF Linking!AskForLink
    <3> QED BY <3>2, <3>3
  <2>2. CASE Linking!StoreLink(p)
    BY <2>2 DEF Linking!StoreLink, Linking!PaymentStatus
  <2>3. CASE Linking!Pay(p)
    BY <2>3 DEF Linking!Pay
  <2> QED BY <2>1, <2>2, <2>3
<1>2. /\ \A q \in Payments : link[q] = "paid" => link'[q] = "paid"
      /\ \A q \in Payments : asked[q] # Null => asked'[q] = asked[q]
      /\ \A q \in Payments : status'[q] = "COMPLETED" => status[q] = "COMPLETED"
  BY DEF LinkingIInv, Linking!TypeOK, LinkingCodesMadeUp, Linking!AskForLink, Linking!StoreLink,
    Linking!Pay
<1>3. UNCHANGED <<call, undone, overlapped>>
  BY DEF Linking!AskForLink, Linking!StoreLink, Linking!Pay
<1>4. \A q \in Payments : LinkingPaidFor(q) => LinkingPaidFor(q)'
  BY <1>2, LinkingStillPaid
<1>5. Linking!PaidIsCompleted'
  BY <1>2, <1>3, <1>4, LinkingIsPaidFor DEF LinkingIInv, Linking!PaidIsCompleted, LinkingPaidFor
<1>6. LinkingCallsJustified'
  BY <1>2, <1>3, <1>4 DEF LinkingIInv, LinkingCallsJustified
<1> QED BY <1>1, <1>5, <1>6 DEF LinkingIInv

\* A webhook arrives.
LEMMA LinkingReceived ==
    ASSUME LinkingAssumption, LinkingIInv, NEW k \in Calls, NEW w \in Linking!Webhook,
           Linking!Receive(k, w)
    PROVE  LinkingIInv'
<1>1. PICK p \in Linking!Found(w) :
          /\ Amount[p] = Amount[w.of]
          /\ status[p] # "COMPLETED"
          /\ call' = [call EXCEPT ![k] = [op |-> "save", payment |-> p, success |-> w.success]]
          /\ overlapped' = IF \E j \in Calls : call[j] # Linking!Idle /\ call[j].payment = p
                           THEN overlapped \cup {p} ELSE overlapped
  BY DEF Linking!Receive
<1>2. /\ code[w.of] # Null
      /\ w.success => link[w.of] = "paid"
      /\ UNCHANGED <<now, status, code, asked, link, undone>>
      /\ w.of \in Payments /\ w.success \in BOOLEAN
      /\ call[k] = Linking!Idle
  BY DEF Linking!Receive, Linking!TrueWebhook, Linking!Valid, Linking!Webhook
<1>3. p \in Payments /\ (p = w.of \/ Linking!Twins(p, w.of))
  BY <1>2, LinkingFoundByCode
<1>4. w.success => LinkingPaidFor(p)
  BY <1>1, <1>2, <1>3 DEF LinkingPaidFor
<1>5. \A q \in Payments : LinkingPaidFor(q) => LinkingPaidFor(q)'
  BY <1>2, LinkingStillPaid
<1>6. Linking!TypeOK'
  BY <1>1, <1>2, <1>3 DEF LinkingIInv, Linking!TypeOK
<1>7. LinkingCodesMadeUp' /\ Linking!PaidIsCompleted'
  BY <1>1, <1>2, <1>5, LinkingIsPaidFor DEF LinkingIInv, LinkingCodesMadeUp,
    Linking!PaidIsCompleted, LinkingPaidFor
<1>8. \A j \in Calls \ {k} : call'[j] = call[j]
  BY <1>1
<1>9. /\ call'[k].op = "save" /\ call'[k].payment = p /\ call'[k].success = w.success
      /\ overlapped \subseteq overlapped'
  BY <1>1 DEF LinkingIInv, Linking!TypeOK
<1>10. \A j \in Calls : call[j].op = "save" /\ call[j].payment = p => p \in overlapped'
  BY <1>1 DEF Linking!Idle
<1>11. LinkingCallsJustified'
  BY <1>1, <1>2, <1>4, <1>5, <1>8, <1>9, <1>10 DEF LinkingIInv, LinkingCallsJustified
<1> QED BY <1>6, <1>7, <1>11 DEF LinkingIInv

\* Its handler saves the status, or rolls it back.
LEMMA LinkingSaved ==
    ASSUME LinkingAssumption, LinkingIInv, NEW k \in Calls,
           Linking!SaveStatus(k) \/ Linking!RollBack(k)
    PROVE  LinkingIInv'
<1>1. call[k].op = "save" /\ call' = [call EXCEPT ![k] = Linking!Idle] /\
        UNCHANGED <<now, code, asked, link, overlapped>>
  BY DEF Linking!SaveStatus, Linking!RollBack
<1>2. PICK p \in Payments : p = call[k].payment
  BY <1>1 DEF LinkingIInv, Linking!TypeOK
<1>3. PICK good \in BOOLEAN : good = call[k].success
  BY <1>1 DEF LinkingIInv, Linking!TypeOK
<1>4. \/ /\ status' = [status EXCEPT ![p] = IF good THEN "COMPLETED" ELSE "FAILED"]
         /\ undone' = IF status[p] = "COMPLETED" /\ ~ good THEN undone \cup {p} ELSE undone
      \/ UNCHANGED <<status, undone>>
  BY <1>2, <1>3 DEF Linking!SaveStatus, Linking!RollBack
<1>5. \A q \in Payments : LinkingPaidFor(q) => LinkingPaidFor(q)'
  BY <1>1, LinkingStillPaid
<1>6. Linking!TypeOK'
  BY <1>1, <1>4 DEF LinkingIInv, Linking!TypeOK, Linking!PaymentStatus, Linking!Idle
<1>7. LinkingCodesMadeUp'
  BY <1>1 DEF LinkingIInv, LinkingCodesMadeUp
<1>8. /\ good => LinkingPaidFor(p)
      /\ status[p] = "COMPLETED" => p \in overlapped
      /\ \A j \in Calls \ {k} : call[j].op = "save" /\ call[j].payment = p => p \in overlapped
  BY <1>1, <1>2, <1>3 DEF LinkingIInv, LinkingCallsJustified
<1>9. Linking!PaidIsCompleted'
  <2>1. \A q \in Payments : status'[q] = "COMPLETED" => LinkingPaidFor(q)'
    BY <1>4, <1>5, <1>8, LinkingIsPaidFor DEF LinkingIInv, Linking!TypeOK
  <2>2. undone' \subseteq overlapped'
    BY <1>1, <1>4, <1>8, LinkingIsPaidFor DEF LinkingIInv
  <2> QED BY <2>1, <2>2 DEF Linking!PaidIsCompleted, LinkingPaidFor
<1>10. LinkingCallsJustified'
  <2>1. \A j \in Calls : call'[j].op = "save" => j # k /\ call'[j] = call[j]
    BY <1>1 DEF Linking!Idle, LinkingIInv, Linking!TypeOK
  <2>2. \A q \in Payments \ {p} : status'[q] = status[q]
    BY <1>4 DEF LinkingIInv, Linking!TypeOK
  <2> QED BY <1>1, <1>5, <1>8, <2>1, <2>2 DEF LinkingIInv, LinkingCallsJustified
<1> QED BY <1>6, <1>7, <1>9, <1>10 DEF LinkingIInv

\* Every step keeps the invariant.
LEMMA LinkingStep ==
    ASSUME LinkingAssumption, LinkingIInv, [Linking!Next]_(Linking!vars)
    PROVE  LinkingIInv'
<1>1. CASE UNCHANGED Linking!vars \/ Linking!Tick
  <2>1. /\ UNCHANGED <<status, code, asked, link, call, undone, overlapped>>
        /\ now' \in Times
    BY <1>1 DEF Linking!vars, Linking!Tick, LinkingIInv, Linking!TypeOK
  <2> QED BY <2>1 DEF LinkingIInv, Linking!TypeOK, LinkingCodesMadeUp, LinkingCallsJustified,
      Linking!PaidIsCompleted, LinkingPaidFor, Linking!Twins
<1>2. CASE Linking!Next
  BY <1>1, <1>2, LinkingLinked, LinkingReceived, LinkingSaved DEF Linking!Next
<1> QED BY <1>1, <1>2
-----------------------------------------------------------------------------
\* In its scene a step of the services is one of PayosLinks.
LEMMA LinkingSteps ==
    ASSUME scene = "links", [Next]_vars
    PROVE  scene' = "links" /\ [Linking!Next]_(Linking!vars)
<1>1. CASE Next
  BY <1>1 DEF Next
<1>2. CASE UNCHANGED vars
  BY <1>2 DEF vars, vLinking, Linking!vars
<1> QED BY <1>1, <1>2

LinkingHolds == scene = "links" => LinkingIInv

\* The invariant of the scene holds of every behaviour of the services.
LEMMA LinkingInvariant == Spec => []LinkingHolds
<1>0. LinkingAssumption
  BY ServicesAssumption DEF ServicesAssumption, LinkingAssumption
<1>1. Init => LinkingHolds
  BY <1>0, LinkingInitial DEF Init, LinkingHolds
<1>2. LinkingHolds /\ [Next]_vars => LinkingHolds'
  <2> SUFFICES ASSUME LinkingHolds, [Next]_vars, scene' = "links" PROVE LinkingIInv'
    BY DEF LinkingHolds
  <2>1. scene = "links"
    BY DEF Next, vars
  <2>2. LinkingIInv /\ [Linking!Next]_(Linking!vars)
    BY <2>1, LinkingSteps DEF LinkingHolds
  <2> QED BY <1>0, <2>2, LinkingStep
<1> QED BY <1>1, <1>2, PTL DEF Spec
-----------------------------------------------------------------------------
(***************************************************************************)
(* ProcessTracking: hashes and scores of the process                       *)
(* (ProcessTrackingService).                                               *)
(***************************************************************************)
\* A log has its verdict once the trust contract has judged it, and the handler that
\* was let through is the only one to save one: what is hashed is what is saved.
TrackingLogJudgedOnce ==
    \A l \in Logs :
        /\ log[l] = Null => stage[l] = "none" /\ l \notin processed
        /\ stage[l] # "none" => log[l] # Null
        /\ stage[l] \in {"evaluate", "trust", "save", "anchor", "store"} => copy[l] # Null
        /\ dropping[l] # Null => log[l] # Null
        /\ stage[l] = "evaluate" => copy[l].status = "PENDING"
        /\ l \notin processed => (log[l] # Null => log[l].status = "PENDING") /\ hash[l] = Null
        /\ temp[l] # Null => temp[l].status = "PENDING" /\ stage[l] # "none"
        /\ stage[l] \in {"save", "anchor", "store"} => l \in processed /\ copy[l].status \in Tracking!Verdicts
        /\ stage[l] = "save" => hash[l] = Null
        /\ stage[l] \in {"anchor", "store"} => log[l].status = copy[l].status
        /\ hash[l] # Null => hash[l] = Tracking!HashedLog(log[l])

\* What finishStep has read is the row but for the score, which stays as it is
\* unless a verdict or an unactiveLog comes later.
TrackingStepRescored ==
    \A s \in HashedSteps : s \notin rescored \cup rewound =>
        /\ sealing[s] # Null => sealing[s].score = step[s].score
        /\ stepHash[s] # Null => stepHash[s] = Tracking!HashedStep(step[s])

TrackingIInv == Tracking!TypeOK /\ TrackingLogJudgedOnce /\ TrackingStepRescored
-----------------------------------------------------------------------------
\* The initial states satisfy the invariant.
LEMMA TrackingInitial == Tracking!Init => TrackingIInv
<1> SUFFICES ASSUME Tracking!Init PROVE TrackingIInv
  OBVIOUS
<1>1. Tracking!TypeOK
  BY DEF Tracking!Init, Tracking!TypeOK, Tracking!StepRow, Tracking!Stages
<1>2. TrackingLogJudgedOnce /\ TrackingStepRescored
  BY DEF Tracking!Init, TrackingLogJudgedOnce, TrackingStepRescored
<1> QED BY <1>1, <1>2 DEF TrackingIInv

\* The invariant implies the promise.
LEMMA TrackingShown == ASSUME TrackingIInv, Tracking!NullAssumption PROVE Tracking!ShownAsRecorded
<1>1. \A l \in Logs : hash[l] # Null => Tracking!LogShownVerified(l)
  BY DEF TrackingIInv, TrackingLogJudgedOnce, Tracking!LogShownVerified
<1>2. \A l \in Logs : Tracking!PackageDiffers(l) => log[l].status \in Tracking!Verdicts
  <2> SUFFICES ASSUME NEW l \in Logs, Tracking!PackageDiffers(l)
               PROVE  log[l].status \in Tracking!Verdicts
    OBVIOUS
  <2>1. temp[l] # Null /\ Tracking!HashedLog(log[l]) # temp[l] /\ temp[l].status = "PENDING"
    BY DEF TrackingIInv, TrackingLogJudgedOnce, Tracking!PackageDiffers
  <2>2. log[l] # Null /\ log[l] \in Tracking!LogRow
    BY <2>1 DEF TrackingIInv, TrackingLogJudgedOnce, Tracking!TypeOK
  <2>3. temp[l] = [status |-> "PENDING"]
    BY <2>1 DEF TrackingIInv, Tracking!TypeOK
  <2>4. log[l].status # "PENDING"
    BY <2>1, <2>3 DEF Tracking!HashedLog
  <2> QED BY <2>2, <2>4 DEF Tracking!LogRow, Tracking!Status
<1>3. \A s \in HashedSteps : Tracking!StepShownVerified(s) =>
          Tracking!HashedStep(step[s]) = stepHash[s] \/ s \in rescored \cup rewound
  BY DEF TrackingIInv, TrackingStepRescored, Tracking!StepShownVerified
<1> QED BY <1>1, <1>2, <1>3 DEF Tracking!ShownAsRecorded

\* What happens to a log.
LEMMA TrackingLogStep ==
    ASSUME Tracking!NullAssumption, Tracking!StepAssumption, TrackingIInv, NEW l \in Logs,
           \/ Tracking!AddLog(l) \/ Tracking!AddTempLog(l) \/ Tracking!SkipReview(l) \/
                Tracking!LogVerified(l)
           \/ (\E judged \in Tracking!Verdicts : Tracking!ProcessData(l, judged))
           \/ Tracking!SaveLog(l) \/ Tracking!AnchorLog(l) \/ Tracking!GiveUp(l)
    PROVE  TrackingIInv'
<1> USE DEF TrackingIInv, Tracking!TypeOK, TrackingLogJudgedOnce, Tracking!To, Tracking!Ends
<1>1. CASE Tracking!AddLog(l)
  <2>1. [status |-> "PENDING", active |-> TRUE] \in Tracking!LogRow
    BY DEF Tracking!LogRow, Tracking!Status
  <2> QED BY <1>1, <2>1 DEF Tracking!AddLog, Tracking!chainVars, Tracking!Stages,
      TrackingStepRescored, Tracking!NullAssumption
<1>2. CASE Tracking!AddTempLog(l)
  BY <1>2 DEF Tracking!AddTempLog, Tracking!rowVars, Tracking!Stages, TrackingStepRescored,
    Tracking!HashedLog, Tracking!Status
<1>3. CASE Tracking!SkipReview(l)
  BY <1>3 DEF Tracking!SkipReview, Tracking!rowVars, Tracking!chainVars, Tracking!Stages,
    TrackingStepRescored
<1>4. CASE Tracking!LogVerified(l)
  BY <1>4 DEF Tracking!LogVerified, Tracking!rowVars, Tracking!chainVars, Tracking!Stages,
    TrackingStepRescored
<1>5. ASSUME NEW judged \in Tracking!Verdicts, Tracking!ProcessData(l, judged) PROVE TrackingIInv'
  <2>1. copy[l] \in Tracking!LogRow /\ [copy[l] EXCEPT !.status = judged] \in Tracking!LogRow
    BY <1>5 DEF Tracking!ProcessData, Tracking!LogRow, Tracking!Status
  <2>2. [copy[l] EXCEPT !.status = judged].status = judged
    BY <2>1 DEF Tracking!LogRow
  <2> QED BY <1>5, <2>1, <2>2 DEF Tracking!ProcessData, Tracking!rowVars, Tracking!Stages,
      TrackingStepRescored, Tracking!NullAssumption
<1>6. CASE Tracking!SaveLog(l)
  BY <1>6 DEF Tracking!SaveLog, Tracking!chainVars, Tracking!Stages, TrackingStepRescored
<1>7. CASE Tracking!AnchorLog(l)
  <2>1. Tracking!HashedLog(copy[l]) \in [status : Tracking!Verdicts] /\
          Tracking!HashedLog(copy[l]) = Tracking!HashedLog(log[l])
    BY <1>7 DEF Tracking!AnchorLog, Tracking!HashedLog
  <2> QED BY <1>7, <2>1 DEF Tracking!AnchorLog, Tracking!rowVars, Tracking!Stages,
      TrackingStepRescored
<1>8. CASE Tracking!GiveUp(l)
  BY <1>8 DEF Tracking!GiveUp, Tracking!rowVars, Tracking!chainVars, Tracking!Stages,
    TrackingStepRescored
<1> QED BY <1>1, <1>2, <1>3, <1>4, <1>5, <1>6, <1>7, <1>8

\* The score of a step changes, by the history variables when it is hashed.
LEMMA TrackingScored ==
    ASSUME TrackingIInv, NEW s \in HashedSteps, NEW r \in Tracking!StepRow,
           step' = [step EXCEPT ![s] = r],
           UNCHANGED <<sealing, stepHash>>,
           rescored \subseteq rescored', rewound \subseteq rewound',
           Tracking!Sealed(s) /\ r.score # step[s].score => s \in rescored' \cup rewound'
    PROVE  step' \in [HashedSteps -> Tracking!StepRow] /\ TrackingStepRescored'
<1> USE DEF TrackingIInv, Tracking!TypeOK
<1>1. ASSUME NEW t \in HashedSteps, t \notin rescored' \cup rewound'
      PROVE  /\ sealing'[t] # Null => sealing'[t].score = step'[t].score
             /\ stepHash'[t] # Null => stepHash'[t] = Tracking!HashedStep(step'[t])
  <2>1. \/ step'[t].score = step[t].score
        \/ sealing'[t] = Null /\ stepHash'[t] = Null
    BY <1>1 DEF Tracking!Sealed
  <2> QED BY <1>1, <2>1 DEF TrackingStepRescored, Tracking!HashedStep
<1> QED BY <1>1 DEF TrackingStepRescored

\* The hash of a log is stored, and its score.
LEMMA TrackingScoreStep ==
    ASSUME Tracking!NullAssumption, Tracking!StepAssumption, TrackingIInv, NEW l \in Logs,
           Tracking!StoreLogHash(l)
    PROVE  TrackingIInv'
<1> USE DEF TrackingIInv, Tracking!TypeOK
<1>1. /\ stage[l] = "store" /\ log[l] # Null
      /\ stage' = [stage EXCEPT ![l] = "over"] /\ copy' = [copy EXCEPT ![l] = Null]
      /\ UNCHANGED <<log, sealing, dropping, processed, temp, hash, stepHash, rewound>>
  BY DEF Tracking!StoreLogHash, Tracking!To, Tracking!Ends, TrackingLogJudgedOnce,
    Tracking!chainVars
<1>2. stage' \in [Logs -> Tracking!Stages] /\ copy' \in [Logs -> Tracking!LogRow \cup {Null}]
  BY <1>1 DEF Tracking!Stages
<1>3. TrackingLogJudgedOnce'
  BY <1>1 DEF TrackingLogJudgedOnce
<1>4. PICK s \in HashedSteps : s = StepOf[l]
  BY DEF Tracking!StepAssumption
<1>5. /\ step' = [step EXCEPT ![s] = [step[s] EXCEPT !.score = l]]
      /\ rescored' = IF Tracking!Sealed(s) THEN rescored \cup {s} ELSE rescored
  BY <1>4 DEF Tracking!StoreLogHash
<1>6. [step[s] EXCEPT !.score = l] \in Tracking!StepRow
  BY DEF Tracking!StepRow
<1>7. step' \in [HashedSteps -> Tracking!StepRow] /\ TrackingStepRescored'
  BY <1>1, <1>5, <1>6, TrackingScored
<1>8. rescored' \subseteq HashedSteps
  BY <1>5
<1> QED BY <1>1, <1>2, <1>3, <1>7, <1>8

\* A log is made inactive, and its step saved as it was read.
LEMMA TrackingUnactiveStep ==
    ASSUME Tracking!NullAssumption, TrackingIInv, NEW l \in Logs,
           \/ \E s \in HashedSteps : Tracking!ReadToUnactive(l, s)
           \/ Tracking!UnactiveLog(l) \/ Tracking!UnactiveFails(l)
    PROVE  TrackingIInv'
<1> USE DEF TrackingIInv, Tracking!TypeOK
<1>1. ASSUME NEW s \in HashedSteps, Tracking!ReadToUnactive(l, s) PROVE TrackingIInv'
  <2>1. [step |-> s, row |-> step[s]] \in Tracking!DropCall
    BY DEF Tracking!DropCall
  <2>2. dropping' \in [Logs -> Tracking!DropCall \cup {Null}]
    BY <1>1, <2>1 DEF Tracking!ReadToUnactive
  <2>3. TrackingLogJudgedOnce' /\ TrackingStepRescored'
    BY <1>1 DEF Tracking!ReadToUnactive, Tracking!rowVars, Tracking!chainVars,
      TrackingLogJudgedOnce, TrackingStepRescored
  <2> QED BY <1>1, <2>2, <2>3 DEF Tracking!ReadToUnactive, Tracking!rowVars, Tracking!chainVars
<1>2. CASE Tracking!UnactiveLog(l)
  <2>1. /\ dropping[l] \in Tracking!DropCall
        /\ dropping[l].step \in HashedSteps /\ dropping[l].row \in Tracking!StepRow
        /\ log[l] \in Tracking!LogRow
    BY <1>2 DEF Tracking!UnactiveLog, Tracking!DropCall, TrackingLogJudgedOnce
  <2>2. PICK s \in HashedSteps, r \in Tracking!StepRow : s = dropping[l].step /\ r = dropping[l].row
    BY <2>1
  <2>3. /\ step' = [step EXCEPT ![s] = r]
        /\ rewound' = IF Tracking!Sealed(s) /\ r.score # step[s].score
                      THEN rewound \cup {s} ELSE rewound
        /\ log' = [log EXCEPT ![l] = [log[l] EXCEPT !.active = FALSE]]
        /\ dropping' = [dropping EXCEPT ![l] = Null]
        /\ UNCHANGED <<stage, copy, sealing, processed, temp, hash, stepHash, rescored>>
    BY <1>2, <2>2 DEF Tracking!UnactiveLog, Tracking!chainVars
  <2>4. /\ [log[l] EXCEPT !.active = FALSE] \in Tracking!LogRow
        /\ [log[l] EXCEPT !.active = FALSE].status = log[l].status
        /\ [log[l] EXCEPT !.active = FALSE] # Null
    BY <2>1 DEF Tracking!LogRow, Tracking!NullAssumption
  <2>5. log' \in [Logs -> Tracking!LogRow \cup {Null}]
    BY <2>3, <2>4
  <2>6. TrackingLogJudgedOnce'
    BY <2>1, <2>3, <2>4 DEF TrackingLogJudgedOnce, Tracking!HashedLog, Tracking!NullAssumption
  <2>7. step' \in [HashedSteps -> Tracking!StepRow] /\ TrackingStepRescored'
    BY <2>3, TrackingScored
  <2> QED BY <2>3, <2>5, <2>6, <2>7
<1>3. CASE Tracking!UnactiveFails(l)
  BY <1>3 DEF Tracking!UnactiveFails, Tracking!rowVars, Tracking!chainVars, TrackingLogJudgedOnce,
    TrackingStepRescored
<1> QED BY <1>1, <1>2, <1>3

\* What happens to a step.
LEMMA TrackingStepStep ==
    ASSUME Tracking!NullAssumption, TrackingIInv, NEW s \in HashedSteps,
           Tracking!FinishStep(s) \/ Tracking!AddStep(s) \/ Tracking!AddStepFails(s)
    PROVE  TrackingIInv'
<1> USE DEF TrackingIInv, Tracking!TypeOK
<1>1. TrackingLogJudgedOnce'
  BY DEF TrackingLogJudgedOnce, Tracking!FinishStep, Tracking!AddStep, Tracking!AddStepFails,
    Tracking!rowVars, Tracking!chainVars
<1>2. CASE Tracking!FinishStep(s)
  <2>1. [step[s] EXCEPT !.done = TRUE] \in Tracking!StepRow /\
          [step[s] EXCEPT !.done = TRUE].score = step[s].score
    BY DEF Tracking!StepRow
  <2>2. step' = [step EXCEPT ![s] = [step[s] EXCEPT !.done = TRUE]]
        /\ sealing' = [sealing EXCEPT ![s] = step'[s]]
        /\ UNCHANGED <<log, stage, copy, dropping, processed, temp, hash, stepHash, rescored, rewound>>
    BY <1>2 DEF Tracking!FinishStep, Tracking!chainVars
  <2>3. TrackingStepRescored'
    BY <2>1, <2>2 DEF TrackingStepRescored, Tracking!HashedStep
  <2> QED BY <1>1, <2>1, <2>2, <2>3
<1>3. CASE Tracking!AddStep(s)
  <2>1. /\ sealing[s] \in Tracking!StepRow
        /\ Tracking!HashedStep(sealing[s]) \in [score : Logs \cup {Null}]
    BY <1>3 DEF Tracking!AddStep, Tracking!HashedStep, Tracking!StepRow
  <2>2. /\ stepHash' = [stepHash EXCEPT ![s] = Tracking!HashedStep(sealing[s])]
        /\ sealing' = [sealing EXCEPT ![s] = Null]
        /\ UNCHANGED <<log, step, stage, copy, dropping, processed, temp, hash, rescored, rewound>>
        /\ sealing[s] # Null
    BY <1>3 DEF Tracking!AddStep, Tracking!rowVars
  <2>3. TrackingStepRescored'
    BY <2>2 DEF TrackingStepRescored, Tracking!HashedStep
  <2> QED BY <1>1, <2>1, <2>2, <2>3
<1>4. CASE Tracking!AddStepFails(s)
  BY <1>1, <1>4 DEF Tracking!AddStepFails, TrackingStepRescored, Tracking!rowVars,
    Tracking!chainVars
<1> QED BY <1>2, <1>3, <1>4

\* Every step keeps the invariant.
LEMMA TrackingStep ==
    ASSUME Tracking!NullAssumption, Tracking!StepAssumption, TrackingIInv,
           [Tracking!Next]_(Tracking!vars)
    PROVE  TrackingIInv'
<1>1. CASE UNCHANGED Tracking!vars
  BY <1>1 DEF Tracking!vars, Tracking!rowVars, Tracking!chainVars, TrackingIInv, Tracking!TypeOK,
    TrackingLogJudgedOnce, TrackingStepRescored
<1>2. CASE Tracking!Next
  BY <1>2, TrackingLogStep, TrackingScoreStep, TrackingUnactiveStep,
    TrackingStepStep DEF Tracking!Next
<1> QED BY <1>1, <1>2
-----------------------------------------------------------------------------
\* In its scene a step of the services is one of ProcessTracking.
LEMMA TrackingSteps ==
    ASSUME scene = "tracking", [Next]_vars
    PROVE  scene' = "tracking" /\ [Tracking!Next]_(Tracking!vars)
<1>1. CASE Next
  BY <1>1 DEF Next
<1>2. CASE UNCHANGED vars
  BY <1>2 DEF vars, vTracking, Tracking!vars, Tracking!rowVars, Tracking!chainVars
<1> QED BY <1>1, <1>2

TrackingHolds == scene = "tracking" => TrackingIInv

\* The invariant of the scene holds of every behaviour of the services.
LEMMA TrackingInvariant == Spec => []TrackingHolds
<1>0. Tracking!NullAssumption /\ Tracking!StepAssumption
  BY ServicesAssumption DEF ServicesAssumption
<1>1. Init => TrackingHolds
  BY <1>0, TrackingInitial DEF Init, TrackingHolds
<1>2. TrackingHolds /\ [Next]_vars => TrackingHolds'
  <2> SUFFICES ASSUME TrackingHolds, [Next]_vars, scene' = "tracking" PROVE TrackingIInv'
    BY DEF TrackingHolds
  <2>1. scene = "tracking"
    BY DEF Next, vars
  <2>2. TrackingIInv /\ [Tracking!Next]_(Tracking!vars)
    BY <2>1, TrackingSteps DEF TrackingHolds
  <2> QED BY <1>0, <2>2, TrackingStep
<1> QED BY <1>1, <1>2, PTL DEF Spec
-----------------------------------------------------------------------------
(***************************************************************************)
(* OrderAmounts: the amounts of orders (OrderService).                     *)
(***************************************************************************)
\* Finite sets are those of the library.
LEMMA ChargingCounts ==
    \A S : /\ Charging!Cardinality(S) = Cardinality(S)
           /\ Charging!IsFiniteSet(S) <=> IsFiniteSet(S)
  BY DEF Charging!Cardinality, Cardinality, Charging!IsFiniteSet, IsFiniteSet

\* Sums are those of the library.
LEMMA ChargingSums == \A f : Charging!SumFunction(f) = SumFunction(f)
  BY DEF Charging!SumFunction, SumFunction, Charging!SumFunctionOnSet, SumFunctionOnSet,
    Charging!FoldFunctionOnSet, FoldFunctionOnSet, Charging!MapThenFoldSet, MapThenFoldSet

ChargingAssumption == Charging!CartAssumption /\ Charging!AmountAssumption /\ Charging!NullAssumption

ChargingSteady(o) == \A p \in Charging!Lines(o) : product[p].status # "NOT_YET_OPEN"

\* The rows of orders: each is one of a payment, adds up, and keeps the weights it
\* was made with.
ChargingOrdersAddUp ==
    \A o \in Orders : order[o] # Null =>
        /\ payment[BatchOf[o]] # Null
        /\ Charging!FitsInt(order[o].total_amount) /\ Charging!FitsInt(order[o].shipping_fee)
        /\ \A p \in Charging!Lines(o) : order[o].details[p].unit_price \in Int /\
             order[o].details[p].weight \in Nat
                               /\ Charging!Whole(order[o].details[p].weight)
        /\ Charging!ValueOf(o) + order[o].shipping_fee = order[o].total_amount
        /\ Charging!Untouched(o) => ChargingSteady(o) /\ Charging!WeightNow(o) = Charging!WeightOf(o)

ChargingQuotesHold ==
    \A o \in Orders : quote[o] # Null /\ Charging!Untouched(o) =>
        /\ ChargingSteady(o)
        /\ order[o] = Null => quote[o].price = Charging!PriceNow(o) /\ quote[o].weight = Charging!WeightNow(o)
        /\ order[o] # Null => /\ quote[o].price + order[o].shipping_fee = order[o].total_amount
                              /\ quote[o].weight = Charging!WeightOf(o)

\* What is on its way to GHN, or there, is the order's.
ChargingFits(o, parcel) ==
    /\ order[o] # Null
    /\ parcel.cod_amount \in {0, order[o].total_amount}
    /\ parcel.insurance_value + order[o].shipping_fee = order[o].total_amount
    /\ Charging!Untouched(o) => parcel.weight = Charging!WeightOf(o)

ChargingParcelsFit ==
    \A o \in Orders :
        /\ booking[o] # Null => delivery[o] = Null /\ ChargingFits(o, booking[o])
        /\ shipment[o] # Null => shipment[o].cod_amount \in reported[o] /\ ChargingFits(o, shipment[o])

ChargingBillsAddUp ==
    \A b \in Batches : payment[b] # Null =>
        payment[b].amount = Charging!SumFunction([o \in Charging!OrdersOf(b) |-> order[o].total_amount])

ChargingDeliveriesReported == \A o \in Orders : delivery[o] # Null => delivery[o] \in reported[o]

\* The rows that steps change one at a time.
ChargingRows ==
    /\ product \in [Products -> Charging!Shop]
    /\ editing \in [Products -> {"NOT_YET_OPEN", Null}] /\ edited \subseteq Products
    /\ quote \in [Orders -> [price : Int, weight : Nat] \cup {Null}]
    /\ payment \in [Batches -> Charging!Bill \cup {Null}]
    /\ booking \in [Orders -> Charging!Parcel \cup {Null}]
    /\ shipment \in [Orders -> Charging!Parcel \cup {Null}]
    /\ reported \in [Orders -> SUBSET Charging!IntColumn]
    /\ delivery \in [Orders -> Charging!IntColumn \cup {Null}]

ChargingIInv == ChargingRows /\ ChargingBillsAddUp /\ ChargingOrdersAddUp /\ ChargingQuotesHold /\
    ChargingParcelsFit /\ ChargingDeliveriesReported
-----------------------------------------------------------------------------
\* Products of natural numbers.
LEMMA ChargingProducts0 == \A a \in Nat, b \in Nat : a * b \in Nat
  OBVIOUS
\* Products of integers with them.
LEMMA ChargingProducts1 == \A a \in Int, b \in Nat : a * b \in Int
  OBVIOUS

\* A finite sum of integers is one.
LEMMA ChargingSumIsInt ==
    ASSUME NEW f, Charging!IsFiniteSet(DOMAIN f), \A x \in DOMAIN f : f[x] \in Int
    PROVE  Charging!SumFunction(f) \in Int
  BY ChargingSums, ChargingCounts, SumIsIn
\* A finite sum of natural numbers is one.
LEMMA ChargingSumIsNat ==
    ASSUME NEW f, Charging!IsFiniteSet(DOMAIN f), \A x \in DOMAIN f : f[x] \in Nat
    PROVE  Charging!SumFunction(f) \in Nat
<1>1. 0 \in Nat /\ \A a, b \in Nat : a + b \in Nat
  OBVIOUS
<1> QED BY ChargingSums, ChargingCounts, <1>1, SumIsIn
\* A finite sum of whole amounts is one.
LEMMA ChargingSumIsWhole ==
    ASSUME NEW f, Charging!IsFiniteSet(DOMAIN f),
           \A x \in DOMAIN f : f[x] \in Nat /\ Charging!Whole(f[x])
    PROVE  Charging!SumFunction(f) \in Nat /\ Charging!Whole(Charging!SumFunction(f))
<1> DEFINE N == {n \in Nat : n % 2 = 0}
<1>1. \A x \in DOMAIN f : f[x] \in N
  BY DEF Charging!Whole
<1>2. 0 \in N /\ \A a, b \in N : a + b \in N
  OBVIOUS
<1> HIDE DEF N
<1>3. Charging!SumFunction(f) \in N
  BY ChargingSums, ChargingCounts, <1>1, <1>2, SumIsIn
<1> QED BY <1>3 DEF N, Charging!Whole

\* The sums are numbers.
LEMMA ChargingNumbersNow ==
    ASSUME ChargingAssumption, ChargingRows, NEW o \in Orders
    PROVE  Charging!PriceNow(o) \in Int /\ Charging!WeightNow(o) \in Nat
<1>1. \A p \in Charging!Lines(o) : p \in Products /\ product[p].price \in Int /\
        product[p].weight \in Nat /\ Cart[o][p] \in Nat
  BY DEF ChargingAssumption, Charging!CartAssumption, ChargingRows, Charging!Shop
<1>2. \A p \in Charging!Lines(o) : product[p].price * Cart[o][p] \in Int /\
        product[p].weight * Cart[o][p] \in Nat
  BY <1>1, ChargingProducts0, ChargingProducts1
<1>3. Charging!IsFiniteSet(Charging!Lines(o))
  BY DEF ChargingAssumption, Charging!CartAssumption
<1>4. Charging!PriceNow(o) \in Int
  BY <1>2, <1>3, ChargingSumIsInt DEF Charging!PriceNow
<1>5. Charging!WeightNow(o) \in Nat
  BY <1>2, <1>3, ChargingSumIsNat DEF Charging!WeightNow
<1> QED BY <1>4, <1>5

\* What the numbers of an order are, and that its total is what it is worth with the fee.
LEMMA ChargingNumbersOf ==
    ASSUME ChargingAssumption, ChargingOrdersAddUp, NEW o \in Orders, order[o] # Null
    PROVE  /\ Charging!ValueOf(o) \in Int /\ Charging!WeightOf(o) \in Nat /\
                Charging!Whole(Charging!WeightOf(o))
           /\ order[o].total_amount \in Charging!IntColumn /\ Charging!Whole(order[o].total_amount)
           /\ order[o].shipping_fee \in Charging!IntColumn /\ Charging!Whole(order[o].shipping_fee)
           /\ Charging!ValueOf(o) + order[o].shipping_fee = order[o].total_amount
<1>1. Charging!IsFiniteSet(Charging!Lines(o)) /\ \A p \in Charging!Lines(o) : Cart[o][p] \in Nat
  BY DEF ChargingAssumption, Charging!CartAssumption
<1>2. \A p \in Charging!Lines(o) : order[o].details[p].unit_price \in Int /\
        order[o].details[p].weight \in Nat
                          /\ Charging!Whole(order[o].details[p].weight)
  BY DEF ChargingOrdersAddUp
<1>3. \A p \in Charging!Lines(o) : order[o].details[p].unit_price * Cart[o][p] \in Int
  BY <1>1, <1>2, ChargingProducts1
<1>4. Charging!ValueOf(o) \in Int
  BY <1>1, <1>3, ChargingSumIsInt DEF Charging!ValueOf
<1>5. Charging!WeightOf(o) \in Nat /\ Charging!Whole(Charging!WeightOf(o))
  BY <1>1, <1>2, ChargingSumIsWhole DEF Charging!WeightOf
<1> QED BY <1>4, <1>5 DEF ChargingOrdersAddUp, Charging!FitsInt

\* The invariant implies the promise.
LEMMA ChargingCharged ==
    ASSUME ChargingAssumption, ChargingIInv PROVE Charging!TypeOK /\ Charging!ChargedAsOrdered
<1>1. Charging!TypeOK
  BY DEF ChargingIInv, ChargingRows, Charging!TypeOK, ChargingOrdersAddUp
<1>2. Charging!ChargedAsOrdered
  <2>1. \A b \in Batches : payment[b] # Null =>
           payment[b].amount = Charging!SumFunction([o \in Charging!OrdersOf(b) |-> order[o].total_amount])
    BY DEF ChargingIInv, ChargingBillsAddUp
  <2>2. \A o \in Orders : quote[o] # Null /\ order[o] # Null /\ Charging!Untouched(o) =>
                /\ quote[o].price + order[o].shipping_fee = order[o].total_amount
                /\ quote[o].weight = Charging!WeightOf(o)
    BY DEF ChargingIInv, ChargingQuotesHold
  <2>3. \A o \in Orders : shipment[o] # Null =>
                /\ shipment[o].cod_amount \in {0, order[o].total_amount}
                /\ shipment[o].insurance_value + order[o].shipping_fee = order[o].total_amount
                /\ Charging!Untouched(o) => shipment[o].weight = Charging!WeightOf(o)
    BY DEF ChargingIInv, ChargingParcelsFit, ChargingFits
  <2>4. \A o \in Orders : delivery[o] # Null => delivery[o] \in reported[o]
    BY DEF ChargingIInv, ChargingDeliveriesReported
  <2> QED BY <2>1, <2>2, <2>3, <2>4 DEF Charging!ChargedAsOrdered
<1> QED BY <1>1, <1>2

\* The initial states satisfy the invariant.
LEMMA ChargingInitial == ASSUME ChargingAssumption, Charging!Init PROVE ChargingIInv
<1>1. ChargingRows
  <2>1. PICK offer \in [Products -> UNION {Offers[p] : p \in Products}] :
          /\ \A p \in Products : offer[p] \in Offers[p]
          /\ product = [p \in Products |-> [price |-> offer[p].price, weight |-> offer[p].weight,
                                            status |-> "NOT_YET_OPEN"]]
    BY DEF Charging!Init
  <2>2. \A p \in Products : offer[p].price \in Int /\ offer[p].weight \in Nat
    BY <2>1 DEF ChargingAssumption, Charging!AmountAssumption
  <2>3. product \in [Products -> Charging!Shop]
    BY <2>1, <2>2 DEF Charging!Shop
  <2> QED BY <2>3 DEF Charging!Init, ChargingRows
<1>2. ChargingBillsAddUp /\ ChargingOrdersAddUp /\ ChargingQuotesHold /\ ChargingParcelsFit /\
        ChargingDeliveriesReported
  BY DEF Charging!Init, ChargingBillsAddUp, ChargingOrdersAddUp, ChargingQuotesHold,
    ChargingParcelsFit, ChargingDeliveriesReported
<1> QED BY <1>1, <1>2 DEF ChargingIInv
-----------------------------------------------------------------------------
\* Sums are those of their terms.
LEMMA ChargingSameProducts ==
    ASSUME NEW o \in Orders,
           \A p \in Charging!Lines(o) : product'[p].price = product[p].price /\
             product'[p].weight = product[p].weight
    PROVE  Charging!PriceNow(o)' = Charging!PriceNow(o) /\ Charging!WeightNow(o)' = Charging!WeightNow(o)
<1>1. /\ [p \in Charging!Lines(o) |-> product'[p].price * Cart[o][p]] = [p \in Charging!Lines(o) |-> product[p].price * Cart[o][p]]
      /\ [p \in Charging!Lines(o) |-> product'[p].weight * Cart[o][p]] = [p \in Charging!Lines(o) |-> product[p].weight * Cart[o][p]]
  OBVIOUS
<1> QED BY <1>1 DEF Charging!PriceNow, Charging!WeightNow

\* An order that stays has its value and weight.
LEMMA ChargingSameOrder ==
    ASSUME NEW o \in Orders, order'[o] = order[o]
    PROVE  Charging!ValueOf(o)' = Charging!ValueOf(o) /\ Charging!WeightOf(o)' = Charging!WeightOf(o)
  BY DEF Charging!ValueOf, Charging!WeightOf

\* Orders whose totals stay have their sum.
LEMMA ChargingSameBills ==
    ASSUME NEW b \in Batches,
           \A o \in Charging!OrdersOf(b) : order'[o].total_amount = order[o].total_amount
    PROVE  Charging!SumFunction([o \in Charging!OrdersOf(b) |-> order'[o].total_amount])
             = Charging!SumFunction([o \in Charging!OrdersOf(b) |-> order[o].total_amount])
<1>1. [o \in Charging!OrdersOf(b) |-> order'[o].total_amount] = [o \in Charging!OrdersOf(b) |-> order[o].total_amount]
  OBVIOUS
<1> QED BY <1>1

\* The farm may do as it likes with a product that is not on sale.
LEMMA ChargingShopStep ==
    ASSUME ChargingIInv, product' \in [Products -> Charging!Shop],
           editing' \in [Products -> {"NOT_YET_OPEN", Null}],
           edited \subseteq edited', edited' \subseteq Products, Charging!CartAssumption,
           \A p \in Products \ edited' : product[p].status # "NOT_YET_OPEN" =>
               /\ product'[p].price = product[p].price
               /\ product'[p].weight = product[p].weight
               /\ product'[p].status # "NOT_YET_OPEN",
           UNCHANGED <<quote, order, payment, booking, shipment, reported, delivery>>
    PROVE  ChargingIInv'
<1>1. \A o \in Orders : Charging!ValueOf(o)' = Charging!ValueOf(o) /\
        Charging!WeightOf(o)' = Charging!WeightOf(o)
  BY ChargingSameOrder
<1>2. \A o \in Orders : Charging!Untouched(o)' => Charging!Untouched(o)
  BY DEF Charging!Untouched
<1>3. ASSUME NEW o \in Orders, Charging!Untouched(o)', ChargingSteady(o)
      PROVE  ChargingSteady(o)' /\ Charging!PriceNow(o)' = Charging!PriceNow(o) /\
               Charging!WeightNow(o)' = Charging!WeightNow(o)
  <2>1. \A p \in Charging!Lines(o) : p \in Products \ edited' /\ product[p].status # "NOT_YET_OPEN"
    BY <1>3 DEF Charging!Untouched, ChargingSteady, Charging!CartAssumption
  <2>2. ChargingSteady(o)'
    BY <2>1 DEF ChargingSteady
  <2> QED BY <2>1, <2>2, ChargingSameProducts
<1>4. ChargingRows'
  BY DEF ChargingIInv, ChargingRows
<1>5. ChargingBillsAddUp' /\ ChargingDeliveriesReported'
  BY DEF ChargingIInv, ChargingBillsAddUp, ChargingDeliveriesReported
<1>6. ChargingOrdersAddUp'
  BY <1>1, <1>2, <1>3 DEF ChargingIInv, ChargingOrdersAddUp
<1>7. ChargingQuotesHold'
  BY <1>1, <1>2, <1>3 DEF ChargingIInv, ChargingQuotesHold
<1>8. ChargingParcelsFit'
  BY <1>1, <1>2 DEF ChargingIInv, ChargingParcelsFit, ChargingFits
<1> QED BY <1>4, <1>5, <1>6, <1>7, <1>8 DEF ChargingIInv

\* What a farm does to its products.
LEMMA ChargingFarmStep ==
    ASSUME ChargingAssumption, ChargingIInv, NEW p \in Products,
           Charging!SetStatus(p) \/ Charging!ReadToEdit(p) \/ Charging!SaveEdit(p)
    PROVE  ChargingIInv'
<1>0. Charging!CartAssumption /\ product \in [Products -> Charging!Shop] /\ edited \subseteq Products
      /\ editing \in [Products -> {"NOT_YET_OPEN", Null}]
  BY DEF ChargingAssumption, ChargingIInv, ChargingRows
<1>1. CASE Charging!SetStatus(p)
  <2>1. PICK state \in {"OPEN_FOR_SALE", "CLOSED"} : product' = [product EXCEPT ![p] = [product[p] EXCEPT !.status = state]]
    BY <1>1 DEF Charging!SetStatus
  <2>2. product[p] \in Charging!Shop
    BY <1>0
  <2>3. /\ [product[p] EXCEPT !.status = state] \in Charging!Shop
        /\ [product[p] EXCEPT !.status = state].price = product[p].price
        /\ [product[p] EXCEPT !.status = state].weight = product[p].weight
        /\ [product[p] EXCEPT !.status = state].status = state
    BY <2>2 DEF Charging!Shop
  <2>4. UNCHANGED <<editing, quote, order, payment, booking, shipment, reported, delivery, edited>>
    BY <1>1 DEF Charging!SetStatus
  <2>5. product' \in [Products -> Charging!Shop] /\ \A q \in Products : product[q].status # "NOT_YET_OPEN" =>
               /\ product'[q].price = product[q].price
               /\ product'[q].weight = product[q].weight
               /\ product'[q].status # "NOT_YET_OPEN"
    BY <1>0, <2>1, <2>3
  <2> QED BY <1>0, <2>4, <2>5, ChargingShopStep
<1>2. CASE Charging!ReadToEdit(p)
  BY <1>0, <1>2, ChargingShopStep DEF Charging!ReadToEdit
<1>3. CASE Charging!SaveEdit(p)
  <2>1. editing[p] = "NOT_YET_OPEN"
    BY <1>0, <1>3 DEF Charging!SaveEdit
  <2>2. PICK f \in Offers[p] : product' = [product EXCEPT ![p] = [price |-> f.price, weight |-> f.weight,
                                                                 status |-> "NOT_YET_OPEN"]]
    BY <1>3, <2>1 DEF Charging!SaveEdit
  <2>3. f.price \in Int /\ f.weight \in Nat
    BY DEF ChargingAssumption, Charging!AmountAssumption
  <2>4. product' \in [Products -> Charging!Shop]
    BY <1>0, <2>2, <2>3 DEF Charging!Shop
  <2>5. /\ edited' = IF product[p].status = "NOT_YET_OPEN" THEN edited ELSE edited \cup {p}
        /\ UNCHANGED <<quote, order, payment, booking, shipment, reported, delivery>>
        /\ editing' = [editing EXCEPT ![p] = Null]
    BY <1>3, <2>1 DEF Charging!SaveEdit
  <2>6. \A q \in Products \ edited' : product[q].status # "NOT_YET_OPEN" => product'[q] = product[q]
    BY <1>0, <2>2, <2>5
  <2> QED BY <1>0, <2>4, <2>5, <2>6, ChargingShopStep
<1> QED BY <1>1, <1>2, <1>3

\* Of a step that leaves products and orders alone.
LEMMA ChargingRestStays ==
    ASSUME UNCHANGED <<product, order, edited>>, NEW o \in Orders
    PROVE  /\ Charging!ValueOf(o)' = Charging!ValueOf(o) /\ Charging!WeightOf(o)' = Charging!WeightOf(o)
           /\ Charging!PriceNow(o)' = Charging!PriceNow(o) /\ Charging!WeightNow(o)' = Charging!WeightNow(o)
           /\ Charging!Untouched(o)' <=> Charging!Untouched(o)
           /\ ChargingSteady(o)' <=> ChargingSteady(o)
  BY ChargingSameOrder, ChargingSameProducts DEF Charging!Untouched, ChargingSteady

\* A fee is quoted.
LEMMA ChargingQuoteStep ==
    ASSUME ChargingAssumption, ChargingIInv, NEW o \in Orders, Charging!Quote(o) PROVE ChargingIInv'
<1>1. /\ order[o] = Null
      /\ Charging!OnSale(o)
      /\ quote' = [quote EXCEPT ![o] = [price |-> Charging!PriceNow(o), weight |-> Charging!WeightNow(o)]]
      /\ UNCHANGED <<product, editing, order, payment, booking, shipment, reported, delivery, edited>>
  BY DEF Charging!Quote
<1>2. \A q \in Orders :
           /\ Charging!ValueOf(q)' = Charging!ValueOf(q) /\ Charging!WeightOf(q)' = Charging!WeightOf(q)
           /\ Charging!PriceNow(q)' = Charging!PriceNow(q) /\ Charging!WeightNow(q)' = Charging!WeightNow(q)
           /\ Charging!Untouched(q)' <=> Charging!Untouched(q)
           /\ ChargingSteady(q)' <=> ChargingSteady(q)
  BY <1>1, ChargingRestStays
<1>3. Charging!PriceNow(o) \in Int /\ Charging!WeightNow(o) \in Nat /\ ChargingSteady(o)
  BY <1>1, ChargingNumbersNow DEF ChargingIInv, Charging!OnSale, ChargingSteady
<1>4. ChargingRows'
  BY <1>1, <1>3 DEF ChargingIInv, ChargingRows
<1>5. ChargingBillsAddUp' /\ ChargingDeliveriesReported'
  BY <1>1 DEF ChargingIInv, ChargingBillsAddUp, ChargingDeliveriesReported
<1>6. ChargingOrdersAddUp'
  BY <1>1, <1>2 DEF ChargingIInv, ChargingOrdersAddUp
<1>7. ChargingQuotesHold'
  <2>1. quote'[o].price = Charging!PriceNow(o) /\ quote'[o].weight = Charging!WeightNow(o)
    BY <1>1 DEF ChargingIInv, ChargingRows
  <2>2. \A q \in Orders \ {o} : quote'[q] = quote[q]
    BY <1>1 DEF ChargingIInv, ChargingRows
  <2> QED BY <1>1, <1>2, <1>3, <2>1, <2>2 DEF ChargingIInv, ChargingQuotesHold
<1>8. ChargingParcelsFit'
  BY <1>1, <1>2 DEF ChargingIInv, ChargingParcelsFit, ChargingFits
<1> QED BY <1>4, <1>5, <1>6, <1>7, <1>8 DEF ChargingIInv

\* Of a step that leaves products, quotes and orders alone.
LEMMA ChargingParcelStep ==
    ASSUME ChargingIInv, ChargingRows', ChargingBillsAddUp', ChargingParcelsFit',
           ChargingDeliveriesReported',
           UNCHANGED <<product, editing, quote, order, edited>>,
           \A b \in Batches : payment[b] # Null => payment'[b] # Null,
           BatchOf \in [Orders -> Batches]
    PROVE  ChargingIInv'
<1>1. \A q \in Orders :
           /\ Charging!ValueOf(q)' = Charging!ValueOf(q) /\ Charging!WeightOf(q)' = Charging!WeightOf(q)
           /\ Charging!PriceNow(q)' = Charging!PriceNow(q) /\ Charging!WeightNow(q)' = Charging!WeightNow(q)
           /\ Charging!Untouched(q)' <=> Charging!Untouched(q)
           /\ ChargingSteady(q)' <=> ChargingSteady(q)
  BY ChargingRestStays
<1>2. ChargingOrdersAddUp'
  BY <1>1 DEF ChargingIInv, ChargingOrdersAddUp
<1>3. ChargingQuotesHold'
  BY <1>1 DEF ChargingIInv, ChargingQuotesHold
<1> QED BY <1>2, <1>3 DEF ChargingIInv

\* A parcel that fits its order goes on to.
LEMMA ChargingFitsStays ==
    ASSUME UNCHANGED <<product, order, edited>>, NEW o \in Orders, NEW parcel
    PROVE  ChargingFits(o, parcel) => ChargingFits(o, parcel)'
  BY ChargingRestStays DEF ChargingFits

\* A batch is paid for.
LEMMA ChargingPayStep ==
    ASSUME ChargingAssumption, ChargingIInv, NEW b \in Batches, Charging!Pay(b) PROVE ChargingIInv'
<1>1. /\ payment[b] # Null
      /\ payment' = [payment EXCEPT ![b] = [payment[b] EXCEPT !.status = "COMPLETED"]]
      /\ UNCHANGED <<product, editing, quote, order, booking, shipment, reported, delivery, edited>>
  BY DEF Charging!Pay
<1>2. payment[b] \in Charging!Bill
  BY <1>1 DEF ChargingIInv, ChargingRows
<1>3. /\ [payment[b] EXCEPT !.status = "COMPLETED"] \in Charging!Bill
      /\ [payment[b] EXCEPT !.status = "COMPLETED"].amount = payment[b].amount
  BY <1>2 DEF Charging!Bill
<1>4. ChargingRows'
  BY <1>1, <1>3 DEF ChargingIInv, ChargingRows
<1>5. \A c \in Batches : payment'[c] # Null => payment[c] # Null /\ payment'[c].amount = payment[c].amount
  BY <1>1, <1>3 DEF ChargingIInv, ChargingRows
<1>6. ChargingBillsAddUp'
  BY <1>1, <1>5, ChargingSameBills DEF ChargingIInv, ChargingBillsAddUp
<1>7. ChargingParcelsFit' /\ ChargingDeliveriesReported'
  BY <1>1, ChargingFitsStays DEF ChargingIInv, ChargingParcelsFit, ChargingDeliveriesReported
<1>8. \A c \in Batches : payment[c] # Null => payment'[c] # Null
  BY <1>1, <1>3 DEF ChargingIInv, ChargingRows, ChargingAssumption, Charging!NullAssumption
<1> QED BY <1>1, <1>4, <1>6, <1>7, <1>8, ChargingParcelStep DEF ChargingAssumption,
    Charging!CartAssumption

\* A farm confirms an order.
LEMMA ChargingConfirmStep ==
    ASSUME ChargingAssumption, ChargingIInv, NEW o \in Orders, Charging!Confirm(o)
    PROVE  ChargingIInv'
<1> DEFINE cod == IF payment[BatchOf[o]].status = "UNPAID" THEN Charging!Round(Charging!ValueOf(o) + order[o].shipping_fee) ELSE 0
           parcel == [weight |-> Charging!Round(Charging!WeightNow(o)), insurance_value |-> Charging!Round(Charging!ValueOf(o)), cod_amount |-> cod]
<1>1. /\ order[o] # Null /\ delivery[o] = Null
      /\ booking' = [booking EXCEPT ![o] = parcel]
      /\ UNCHANGED <<product, editing, quote, order, payment, shipment, reported, delivery, edited>>
  BY DEF Charging!Confirm
<1>2. /\ Charging!ValueOf(o) \in Int /\ Charging!WeightOf(o) \in Nat /\ Charging!Whole(Charging!WeightOf(o))
      /\ order[o].total_amount \in Charging!IntColumn /\ Charging!Whole(order[o].total_amount)
      /\ order[o].shipping_fee \in Charging!IntColumn /\ Charging!Whole(order[o].shipping_fee)
      /\ Charging!ValueOf(o) + order[o].shipping_fee = order[o].total_amount
  BY <1>1, ChargingNumbersOf DEF ChargingIInv
<1>3. Charging!WeightNow(o) \in Nat /\ MaxInt \in Nat
  BY ChargingNumbersNow DEF ChargingIInv, ChargingAssumption, Charging!AmountAssumption
<1>4. order[o].total_amount \in Int /\ order[o].shipping_fee \in Int
  BY <1>2, <1>3 DEF Charging!IntColumn
<1>5. Charging!Whole(Charging!ValueOf(o))
  BY <1>2, <1>4 DEF Charging!Whole
<1>6. Charging!Round(Charging!ValueOf(o)) = Charging!ValueOf(o) /\
        Charging!Round(Charging!ValueOf(o) + order[o].shipping_fee) = order[o].total_amount
  BY <1>2, <1>4, <1>5 DEF Charging!Round, Charging!Whole
<1>7. Charging!Round(Charging!WeightOf(o)) = Charging!WeightOf(o) /\
        Charging!Round(Charging!WeightNow(o)) \in Nat
  BY <1>2, <1>3 DEF Charging!Round, Charging!Whole
<1>8. cod \in {0, order[o].total_amount} /\ cod \in Charging!IntColumn
  BY <1>2, <1>3, <1>6 DEF Charging!IntColumn
<1> HIDE DEF cod
<1>9. /\ parcel.cod_amount = cod /\ parcel.insurance_value = Charging!ValueOf(o) /\
           parcel.weight = Charging!Round(Charging!WeightNow(o))
      /\ parcel \in Charging!Parcel
  BY <1>2, <1>6, <1>7, <1>8 DEF Charging!Parcel
<1>10. Charging!Untouched(o) => Charging!WeightNow(o) = Charging!WeightOf(o)
  BY <1>1 DEF ChargingIInv, ChargingOrdersAddUp
<1> HIDE DEF parcel
<1>11. ChargingFits(o, parcel)
  BY <1>1, <1>2, <1>7, <1>8, <1>9, <1>10 DEF ChargingFits
<1>12. ChargingRows'
  BY <1>1, <1>9 DEF ChargingIInv, ChargingRows
<1>13. ChargingBillsAddUp' /\ ChargingDeliveriesReported'
  BY <1>1, ChargingSameBills DEF ChargingIInv, ChargingBillsAddUp, ChargingDeliveriesReported
<1>14. PICK r : r = parcel
  OBVIOUS
<1>15. ChargingParcelsFit'
  <2>1. ChargingFits(o, r)' /\ booking'[o] = r
    BY <1>1, <1>11, <1>14, ChargingFitsStays DEF ChargingIInv, ChargingRows
  <2>2. ChargingFits(o, booking[o])'
    BY <2>1 DEF ChargingFits
  <2>3. \A q \in Orders : ChargingFits(q, shipment[q]) => ChargingFits(q, shipment[q])'
    BY <1>1, ChargingFitsStays DEF ChargingFits
  <2>4. \A q \in Orders \ {o} : booking'[q] = booking[q] /\
          (ChargingFits(q, booking[q]) => ChargingFits(q, booking[q])')
    BY <1>1, ChargingFitsStays DEF ChargingIInv, ChargingRows, ChargingFits
  <2> QED BY <1>1, <2>1, <2>2, <2>3, <2>4 DEF ChargingIInv, ChargingParcelsFit
<1> QED BY <1>1, <1>12, <1>13, <1>15, ChargingParcelStep DEF ChargingAssumption,
    Charging!CartAssumption

\* What GHN does, and what is told of it.
LEMMA ChargingGhnStep ==
    ASSUME ChargingAssumption, ChargingIInv, NEW o \in Orders,
           Charging!GhnBooks(o) \/ Charging!Booked(o) \/ Charging!NotBooked(o) \/
             Charging!Correct(o) \/ Charging!TakeAmount(o)
    PROVE  ChargingIInv'
<1>1. UNCHANGED <<product, editing, quote, order, payment, edited>>
  BY DEF Charging!GhnBooks, Charging!Booked, Charging!NotBooked, Charging!Correct,
    Charging!TakeAmount
<1>2. booking[o] # Null => booking[o] \in Charging!Parcel /\ booking[o].cod_amount \in Charging!IntColumn
  BY DEF ChargingIInv, ChargingRows, Charging!Parcel
<1>3. ChargingRows'
  <2> USE DEF ChargingIInv, ChargingRows
  <2>1. CASE Charging!GhnBooks(o)
    BY <1>2, <2>1 DEF Charging!GhnBooks
  <2>2. CASE Charging!Booked(o) \/ Charging!NotBooked(o)
    BY <1>2, <2>2 DEF Charging!Booked, Charging!NotBooked
  <2>3. CASE Charging!Correct(o)
    BY <2>3 DEF Charging!Correct, ChargingAssumption, Charging!AmountAssumption
  <2>4. CASE Charging!TakeAmount(o)
    BY <2>4 DEF Charging!TakeAmount
  <2> QED BY <2>1, <2>2, <2>3, <2>4
<1>4. ChargingBillsAddUp'
  BY <1>1, ChargingSameBills DEF ChargingIInv, ChargingBillsAddUp
<1>5. \A q \in Orders, r \in Charging!Parcel : ChargingFits(q, r) => ChargingFits(q, r)'
  BY <1>1, ChargingFitsStays
<1>6. ChargingParcelsFit' /\ ChargingDeliveriesReported'
  <2>1. \A q \in Orders : /\ booking'[q] # Null => booking'[q] = booking[q] /\ delivery'[q] = delivery[q]
                          /\ shipment'[q] # Null =>
                                /\ shipment'[q].cod_amount \in reported'[q]
                                /\ \/ shipment[q] # Null /\ shipment'[q] = shipment[q]
                                   \/ booking[q] # Null /\ shipment'[q] = booking[q]
                          /\ delivery'[q] # Null => delivery'[q] \in reported'[q]
    <3> USE DEF ChargingIInv, ChargingRows, ChargingParcelsFit, ChargingDeliveriesReported
    <3>1. CASE Charging!GhnBooks(o)
      BY <3>1 DEF Charging!GhnBooks
    <3>2. CASE Charging!Booked(o)
      BY <3>2 DEF Charging!Booked
    <3>3. CASE Charging!NotBooked(o)
      BY <3>3 DEF Charging!NotBooked
    <3>4. CASE Charging!Correct(o)
      BY <3>4 DEF Charging!Correct
    <3>5. CASE Charging!TakeAmount(o)
      BY <3>5 DEF Charging!TakeAmount
    <3> QED BY <3>1, <3>2, <3>3, <3>4, <3>5
  <2>2. \A q \in Orders, r \in Charging!Parcel :
           /\ shipment'[q] = r /\ ChargingFits(q, r)' => ChargingFits(q, shipment[q])'
           /\ booking'[q] = r /\ ChargingFits(q, r)' => ChargingFits(q, booking[q])'
    BY DEF ChargingFits
  <2>3. \A q \in Orders : shipment'[q] # Null => \E r \in Charging!Parcel : shipment'[q] = r /\
          ChargingFits(q, r)
    BY <2>1 DEF ChargingIInv, ChargingRows, ChargingParcelsFit
  <2>4. \A q \in Orders : booking'[q] # Null =>
           delivery'[q] = Null /\ \E r \in Charging!Parcel : booking'[q] = r /\ ChargingFits(q, r)
    BY <2>1 DEF ChargingIInv, ChargingRows, ChargingParcelsFit
  <2>5. \A q \in Orders : (shipment'[q] # Null => ChargingFits(q, shipment[q])') /\
          (booking'[q] # Null => ChargingFits(q, booking[q])')
    BY <1>5, <2>2, <2>3, <2>4
  <2> QED BY <2>1, <2>4, <2>5 DEF ChargingParcelsFit, ChargingDeliveriesReported
<1> QED BY <1>1, <1>3, <1>4, <1>6, ChargingParcelStep DEF ChargingAssumption,
    Charging!CartAssumption

\* The orders of a batch are placed.
LEMMA ChargingPlaceStep ==
    ASSUME ChargingAssumption, ChargingIInv, NEW b \in Batches,
           NEW fee \in [Charging!OrdersOf(b) -> Fees], Charging!PlaceOrders(b, fee)
    PROVE  ChargingIInv'
<1> DEFINE total(o) == Charging!PriceNow(o) + fee[o]
           item(o) == [total_amount |-> total(o), shipping_fee |-> fee[o], details |-> Charging!DetailsNow(o)]
           grandTotal == Charging!SumFunction([o \in Charging!OrdersOf(b) |-> total(o)])
<1>1. /\ payment[b] = Null
      /\ \A o \in Charging!OrdersOf(b) : Charging!OnSale(o) /\ Charging!Storable(o, fee[o])
      /\ Charging!FitsInt(grandTotal)
      /\ \E state \in {"PENDING", "UNPAID"} : payment' = [payment EXCEPT ![b] = [amount |-> grandTotal, status |-> state]]
      /\ order' = [o \in Orders |-> IF o \in Charging!OrdersOf(b) THEN item(o) ELSE order[o]]
      /\ UNCHANGED <<product, editing, quote, booking, shipment, reported, delivery, edited>>
  BY DEF Charging!PlaceOrders
<1>2. \A o \in Orders : (o \in Charging!OrdersOf(b) <=> BatchOf[o] = b) /\ BatchOf[o] \in Batches
  BY DEF Charging!OrdersOf, ChargingAssumption, Charging!CartAssumption
<1>3. \A o \in Charging!OrdersOf(b) : o \in Orders /\ order[o] = Null /\ order'[o] = item(o)
  BY <1>1, <1>2 DEF Charging!OrdersOf, ChargingIInv, ChargingOrdersAddUp
<1>4. \A o \in Orders \ Charging!OrdersOf(b) : order'[o] = order[o]
  BY <1>1
<1>18. \A o \in Charging!OrdersOf(b) : /\ item(o).total_amount = total(o) /\ item(o).shipping_fee = fee[o]
                             /\ item(o).details = Charging!DetailsNow(o)
  OBVIOUS
<1> HIDE DEF grandTotal, item
<1>5. PICK state \in {"PENDING", "UNPAID"} : payment' = [payment EXCEPT ![b] = [amount |-> grandTotal, status |-> state]]
  BY <1>1
<1>6. grandTotal \in Charging!IntColumn
  BY <1>1 DEF Charging!FitsInt
<1>7. [amount |-> grandTotal, status |-> state] \in Charging!Bill
  BY <1>6 DEF Charging!Bill
<1>8. /\ payment'[b] # Null /\ payment'[b].amount = grandTotal
      /\ \A c \in Batches \ {b} : payment'[c] = payment[c]
      /\ payment' \in [Batches -> Charging!Bill \cup {Null}]
  BY <1>5, <1>7 DEF ChargingIInv, ChargingRows, ChargingAssumption, Charging!NullAssumption
<1>9. ChargingRows'
  BY <1>1, <1>8 DEF ChargingIInv, ChargingRows
<1>10. \A o \in Orders : /\ Charging!PriceNow(o)' = Charging!PriceNow(o) /\
                              Charging!WeightNow(o)' = Charging!WeightNow(o)
                         /\ Charging!Untouched(o)' <=> Charging!Untouched(o)
                         /\ ChargingSteady(o)' <=> ChargingSteady(o)
  BY <1>1, ChargingSameProducts DEF Charging!Untouched, ChargingSteady
<1>11. \A o \in Orders \ Charging!OrdersOf(b) : Charging!ValueOf(o)' = Charging!ValueOf(o) /\
         Charging!WeightOf(o)' = Charging!WeightOf(o)
  BY <1>4, ChargingSameOrder
<1>12. ASSUME NEW o \in Charging!OrdersOf(b)
       PROVE  /\ ChargingSteady(o)
              /\ Charging!FitsInt(order'[o].total_amount) /\ Charging!FitsInt(order'[o].shipping_fee)
              /\ \A p \in Charging!Lines(o) : order'[o].details[p].unit_price \in Int
                                     /\ order'[o].details[p].weight \in Nat
                                     /\ Charging!Whole(order'[o].details[p].weight)
              /\ Charging!ValueOf(o)' = Charging!PriceNow(o) /\ Charging!WeightOf(o)' = Charging!WeightNow(o)
              /\ order'[o].total_amount = Charging!PriceNow(o) + order'[o].shipping_fee
              /\ Charging!PriceNow(o) \in Int /\ order'[o].shipping_fee \in Int
  <2>1. o \in Orders /\ Charging!OnSale(o) /\ Charging!Storable(o, fee[o]) /\ fee[o] \in Nat
    BY <1>1, <1>3 DEF ChargingAssumption, Charging!AmountAssumption
  <2>2. order'[o].total_amount = total(o) /\ order'[o].shipping_fee = fee[o] /\
          order'[o].details = Charging!DetailsNow(o)
    BY <1>3, <1>18
  <2>3. \A p \in Charging!Lines(o) : /\ Charging!DetailsNow(o)[p].unit_price = product[p].price
                                     /\ Charging!DetailsNow(o)[p].weight = product[p].weight * Cart[o][p]
    BY DEF Charging!DetailsNow
  <2>4. \A p \in Charging!Lines(o) : product[p].price \in Int /\ product[p].weight \in Nat /\
          Cart[o][p] \in Nat
    BY <2>1 DEF ChargingIInv, ChargingRows, Charging!Shop, ChargingAssumption,
      Charging!CartAssumption
  <2>5. \A p \in Charging!Lines(o) : product[p].weight * Cart[o][p] \in Nat
    BY <2>4, ChargingProducts0
  <2>6. Charging!ValueOf(o)' = Charging!PriceNow(o)
    <3>1. [p \in Charging!Lines(o) |-> order'[o].details[p].unit_price * Cart[o][p]]
            = [p \in Charging!Lines(o) |-> product[p].price * Cart[o][p]]
      BY <2>2, <2>3
    <3> QED BY <3>1 DEF Charging!ValueOf, Charging!PriceNow
  <2>7. Charging!WeightOf(o)' = Charging!WeightNow(o)
    <3>1. [p \in Charging!Lines(o) |-> order'[o].details[p].weight]
            = [p \in Charging!Lines(o) |-> product[p].weight * Cart[o][p]]
      BY <2>2, <2>3
    <3> QED BY <3>1 DEF Charging!WeightOf, Charging!WeightNow
  <2>8. Charging!PriceNow(o) \in Int
    BY <2>1, ChargingNumbersNow DEF ChargingIInv
  <2>9. \A p \in Charging!Lines(o) : Charging!Whole(product[p].weight * Cart[o][p])
    BY <2>1 DEF Charging!Storable, Charging!FitsInt
  <2>10. Charging!FitsInt(total(o)) /\ Charging!FitsInt(fee[o])
    BY <2>1 DEF Charging!Storable
  <2>11. ChargingSteady(o)
    BY <2>1 DEF Charging!OnSale, ChargingSteady
  <2> QED BY <2>1, <2>2, <2>3, <2>4, <2>5, <2>6, <2>7, <2>8, <2>9, <2>10, <2>11
<1>13. ChargingOrdersAddUp'
  <2> SUFFICES ASSUME NEW o \in Orders, order'[o] # Null
               PROVE  /\ payment'[BatchOf[o]] # Null
                      /\ Charging!FitsInt(order'[o].total_amount) /\ Charging!FitsInt(order'[o].shipping_fee)
                      /\ \A p \in Charging!Lines(o) : order'[o].details[p].unit_price \in Int
                                            /\ order'[o].details[p].weight \in Nat
                                            /\ Charging!Whole(order'[o].details[p].weight)
                      /\ Charging!ValueOf(o)' + order'[o].shipping_fee = order'[o].total_amount
                      /\ Charging!Untouched(o)' => ChargingSteady(o)' /\
                           Charging!WeightNow(o)' = Charging!WeightOf(o)'
    BY DEF ChargingOrdersAddUp
  <2>1. CASE o \in Charging!OrdersOf(b)
    BY <1>2, <1>8, <1>10, <1>12, <2>1
  <2>2. CASE o \notin Charging!OrdersOf(b)
    BY <1>2, <1>4, <1>8, <1>10, <1>11, <2>2 DEF ChargingIInv, ChargingOrdersAddUp
  <2> QED BY <2>1, <2>2
<1>14. ChargingQuotesHold'
  <2> SUFFICES ASSUME NEW o \in Orders, quote[o] # Null, Charging!Untouched(o)
               PROVE  /\ ChargingSteady(o)
                      /\ order'[o] = Null => quote[o].price = Charging!PriceNow(o) /\
                           quote[o].weight = Charging!WeightNow(o)
                      /\ order'[o] # Null =>
                            /\ quote[o].price + order'[o].shipping_fee = order'[o].total_amount
                            /\ quote[o].weight = Charging!WeightOf(o)'
    BY <1>1, <1>10 DEF ChargingQuotesHold
  <2>1. CASE o \in Charging!OrdersOf(b)
    BY <1>3, <1>12, <2>1 DEF ChargingIInv, ChargingQuotesHold
  <2>2. CASE o \notin Charging!OrdersOf(b)
    BY <1>4, <1>11, <2>2 DEF ChargingIInv, ChargingQuotesHold
  <2> QED BY <2>1, <2>2
<1>15. ChargingBillsAddUp'
  <2>1. [o \in Charging!OrdersOf(b) |-> order'[o].total_amount] = [o \in Charging!OrdersOf(b) |-> total(o)]
    BY <1>3, <1>18
  <2>2. payment'[b].amount = Charging!SumFunction([o \in Charging!OrdersOf(b) |-> order'[o].total_amount])
    BY <1>8, <2>1 DEF grandTotal
  <2>3. \A c \in Batches \ {b} : \A o \in Charging!OrdersOf(c) : order'[o].total_amount = order[o].total_amount
    BY <1>4 DEF Charging!OrdersOf
  <2>4. \A c \in Batches \ {b} : payment'[c] # Null =>
           payment'[c].amount = Charging!SumFunction([o \in Charging!OrdersOf(c) |-> order'[o].total_amount])
    BY <1>8, <2>3, ChargingSameBills DEF ChargingIInv, ChargingBillsAddUp
  <2> QED BY <2>2, <2>4 DEF ChargingBillsAddUp
<1>16. ChargingParcelsFit'
  <2>1. \A o \in Orders : \A r : ChargingFits(o, r) => o \notin Charging!OrdersOf(b) /\
          order'[o] = order[o] /\ Charging!WeightOf(o)' = Charging!WeightOf(o)
    BY <1>3, <1>4, <1>11 DEF ChargingFits
  <2>2. \A o \in Orders : /\ ChargingFits(o, booking[o]) => ChargingFits(o, booking[o])'
                          /\ ChargingFits(o, shipment[o]) => ChargingFits(o, shipment[o])'
    BY <1>1, <1>10, <2>1 DEF ChargingFits
  <2> QED BY <1>1, <2>2 DEF ChargingIInv, ChargingParcelsFit
<1>17. ChargingDeliveriesReported'
  BY <1>1 DEF ChargingIInv, ChargingDeliveriesReported
<1> QED BY <1>9, <1>13, <1>14, <1>15, <1>16, <1>17 DEF ChargingIInv

\* Every step keeps the invariant.
LEMMA ChargingStep ==
    ASSUME ChargingAssumption, ChargingIInv, [Charging!Next]_(Charging!vars)
    PROVE  ChargingIInv'
<1>1. CASE UNCHANGED Charging!vars
  <2>1. ChargingRows' /\ ChargingBillsAddUp' /\ ChargingDeliveriesReported'
    BY <1>1 DEF Charging!vars, ChargingIInv, ChargingRows, ChargingBillsAddUp,
      ChargingDeliveriesReported
  <2>2. ChargingParcelsFit'
    BY <1>1, ChargingFitsStays DEF Charging!vars, ChargingIInv, ChargingParcelsFit
  <2> QED BY <1>1, <2>1, <2>2, ChargingParcelStep DEF Charging!vars, ChargingAssumption,
      Charging!CartAssumption
<1>2. CASE Charging!Next
  BY <1>2, ChargingFarmStep, ChargingPayStep, ChargingPlaceStep, ChargingQuoteStep,
    ChargingConfirmStep, ChargingGhnStep DEF Charging!Next
<1> QED BY <1>1, <1>2
-----------------------------------------------------------------------------
\* In its scene a step of the services is one of OrderAmounts.
LEMMA ChargingSteps ==
    ASSUME scene = "amounts", [Next]_vars
    PROVE  scene' = "amounts" /\ [Charging!Next]_(Charging!vars)
<1>1. CASE Next
  BY <1>1 DEF Next
<1>2. CASE UNCHANGED vars
  BY <1>2 DEF vars, vCharging, Charging!vars
<1> QED BY <1>1, <1>2

ChargingHolds == scene = "amounts" => ChargingIInv

\* The invariant of the scene holds of every behaviour of the services.
LEMMA ChargingInvariant == Spec => []ChargingHolds
<1>0. ChargingAssumption
  BY ServicesAssumption DEF ServicesAssumption, ChargingAssumption
<1>1. Init => ChargingHolds
  BY <1>0, ChargingInitial DEF Init, ChargingHolds
<1>2. ChargingHolds /\ [Next]_vars => ChargingHolds'
  <2> SUFFICES ASSUME ChargingHolds, [Next]_vars, scene' = "amounts" PROVE ChargingIInv'
    BY DEF ChargingHolds
  <2>1. scene = "amounts"
    BY DEF Next, vars
  <2>2. ChargingIInv /\ [Charging!Next]_(Charging!vars)
    BY <2>1, ChargingSteps DEF ChargingHolds
  <2> QED BY <1>0, <2>2, ChargingStep
<1> QED BY <1>1, <1>2, PTL DEF Spec
-----------------------------------------------------------------------------
\* Every password was let in by an approved row: that of an address has had its
\* code accepted, that of a number was approved as it was made.  It is a row of the
\* account itself, unless the request for a new password named an address and a
\* number; and only by requests at once does a row let two through, or a contact get
\* more codes than the limit (VerificationService, AuthService, UserService).
THEOREM AccountsAreProven == Spec => []AccountsProven
<1>1. RegisteringHolds => (scene = "registration" => Registering!AccountsProven)
  BY RegisteringAccounts DEF RegisteringHolds
<1>2. RegisteringHolds => AccountsProven
  BY <1>1 DEF AccountsProven
<1> QED BY <1>2, RegisteringInvariant, PTL

\* Whoever is a FARMER, and was not made one by an administrator, owns one farm,
\* and was identified as its owner, however the requests overlap (FarmService).
THEOREM FarmersOwnOneFarm == Spec => []FarmerHasOneFarm
<1>1. OnboardingHolds => (scene = "farm" => Onboarding!FarmerHasOneFarm)
  BY OnboardingOwned DEF OnboardingHolds
<1>2. OnboardingHolds => FarmerHasOneFarm
  BY <1>1 DEF FarmerHasOneFarm
<1> QED BY <1>2, OnboardingInvariant, PTL

\* The status of a farm follows the last decision, and certificates that are
\* PENDING await one, but for what a rollback or a stale save did (FarmService).
THEOREM StatusJustified == Spec => []FarmStatusJustified
<1>1. OnboardingHolds => (scene = "farm" => Onboarding!FarmStatusJustified)
  BY DEF OnboardingIInv, Onboarding!FarmStatusJustified, OnboardingHolds
<1>2. OnboardingHolds => FarmStatusJustified
  BY <1>1 DEF FarmStatusJustified
<1> QED BY <1>2, OnboardingInvariant, PTL

\* verify tells one scan of a code at most that the product is genuine, and blocks
\* it for good, unless two handlers worked on the code at once (QrService).
THEOREM GenuineToOne == Spec => []GenuineOnce
<1>1. ScanningHolds => (scene = "qr" => Scanning!GenuineOnce)
  BY DEF ScanningIInv, ScanningCountsAgree, Scanning!GenuineOnce, ScanningHolds
<1>2. ScanningHolds => GenuineOnce
  BY <1>1 DEF GenuineOnce
<1> QED BY <1>2, ScanningInvariant, PTL

\* A user whose requests do not overlap and are not broken off has one primary
\* address at most, and one whenever there is an address, unless it was unset
\* (DeliveryAddressService).
THEOREM OneIsPrimary == Spec => []OnePrimary
<1>1. AddressingHolds => (scene = "address" => Addressing!OnePrimary)
  BY DEF AddressingIInv, AddressingOrderly, AddressingAtMostOne, AddressingSettled,
    Addressing!OnePrimary, AddressingHolds
<1>2. AddressingHolds => OnePrimary
  BY <1>1 DEF OnePrimary
<1> QED BY <1>2, AddressingInvariant, PTL

\* A plot has one season at most that has not ended, unless requests overlapped or
\* a stale save put a status back (SeasonService).
THEOREM OneSeasonIsOpen == Spec => []OneOpenSeason
<1>1. PlantingHolds => (scene = "plot" => Planting!OneOpenSeason)
  BY ServicesAssumption, PlantingOpen1 DEF ServicesAssumption, PlantingHolds
<1>2. PlantingHolds => OneOpenSeason
  BY <1>1 DEF OneOpenSeason
<1> QED BY <1>2, PlantingInvariant, PTL

\* What GHN, PayOS and the chain said is kept: the code of a place is of that place,
\* a shipment refused is not made, the payment that was paid is the one completed,
\* what was hashed is shown as verified, the courier collects what the order cost
\* (GhnService, PaymentService, ProcessTrackingService, OrderService).
THEOREM AnswersAreKept == Spec => []AnswersKept
<1>1. LocatingHolds => (scene = "locations" => Locating!CodesAreRight)
  BY DEF LocatingIInv, LocatingHolds
<1>2. RequestingHolds => (scene = "requests" => Requesting!RefusalIsFinal)
  BY DEF RequestingIInv, RequestingHolds
<1>3. LinkingHolds => (scene = "links" => Linking!PaidIsCompleted)
  BY DEF LinkingIInv, LinkingHolds
<1>4. TrackingHolds => (scene = "tracking" => Tracking!ShownAsRecorded)
  BY ServicesAssumption, TrackingShown DEF ServicesAssumption, TrackingHolds
<1>5. ChargingHolds => (scene = "amounts" => Charging!ChargedAsOrdered)
  BY ServicesAssumption, ChargingCharged DEF ServicesAssumption, ChargingAssumption, ChargingHolds
<1>6. /\ LocatingHolds
      /\ RequestingHolds
      /\ LinkingHolds
      /\ TrackingHolds
      /\ ChargingHolds
      => AnswersKept
  BY <1>1, <1>2, <1>3, <1>4, <1>5 DEF AnswersKept
<1> QED BY <1>6, LocatingInvariant, RequestingInvariant, LinkingInvariant, TrackingInvariant,
  ChargingInvariant, PTL
=============================================================================
