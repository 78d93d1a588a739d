---------------------------- MODULE GhnLocations ----------------------------
(***************************************************************************)
(* The codes GHN, the courier, has for provinces, districts and wards,     *)
(* kept in the tables of OldAddressService.  GHNService finds the code of  *)
(* a name in the table or asks GHN and stores the answer; the sync jobs    *)
(* walk the tables and store what GHNService answers, and a reset may run  *)
(* at any time.                                                            *)
(*                                                                         *)
(* The three levels have a copy of each function; one definition stands    *)
(* for the three.  Names are compared after normalisation (prefixes such   *)
(* as "quan" and case dropped): a name here is what is left of it.         *)
(***************************************************************************)
EXTENDS Integers

CONSTANTS
    Places,         \* rows of old_province, old_district and old_ward
    Parent,         \* Parent[p]: the row p belongs to, Null for a province
    Name,           \* Name[p]: its normalised name
    GhnIds,         \* GHN's ids
    GhnParent,      \* (external) GhnParent[g]: what g lies in, Null for a province
    GhnName,        \* (external) GhnName[g]: its name, prefixed or not
    Jobs,           \* handlers that can be in flight at once
    Null            \* no code, no row

\* A province lies in nothing, a district in a province, a ward in a district.
PlaceAssumption ==
    /\ Null \notin Places /\ Null \notin GhnIds
    /\ Parent \in [Places -> Places \cup {Null}]
    /\ \A p \in Places : \/ Parent[p] = Null
                       \/ Parent[Parent[p]] = Null
                       \/ Parent[Parent[Parent[p]]] = Null

\* The table of a row: old_province, old_district or old_ward.
Level(p) == IF Parent[p] = Null THEN 1 ELSE IF Parent[Parent[p]] = Null THEN 2 ELSE 3

VARIABLES
    code,           \* code[p]: ghn_code of the row, or Null
    job             \* job[j]: handler in flight

vars == <<code, job>>

\* level: the tables still to be walked; parents and places: rows of them still
\* to be done; within: code of the parent as it was read; place, answer: the
\* row at work and its code.
Job == [op : {"sync", "ask", "match", "store", "reset"}, levels : SUBSET (1 .. 3),
        parents : SUBSET Places, places : SUBSET Places, within : GhnIds \cup {Null},
        place : Places \cup {Null}, answer : GhnIds \cup {Null}]
Idle == [op |-> "none"]
NewJob == [op |-> "sync", levels |-> {}, parents |-> {}, places |-> {},
           within |-> Null, place |-> Null, answer |-> Null]

At(l) == {p \in Places : Level(p) = l}
ChildrenOf(q) == {p \in Places : Parent[p] = q}

\* parents.find(p => p.ghn_code === id)
Coded(g) == {q \in Places : g # Null /\ code[q] = g}

Start(j, record) == job[j] = Idle /\ job' = [job EXCEPT ![j] = record]
Go(j, record) == job' = [job EXCEPT ![j] = record]
-----------------------------------------------------------------------------
Init ==
    /\ code = [p \in Places |-> Null]
    /\ job = [j \in Jobs |-> Idle]
-----------------------------------------------------------------------------
(***************************************************************************)
(* The sync jobs                                                           *)
(***************************************************************************)
\* syncAllProvinces, syncAllDistricts, syncAllWards
SyncAll(j, l) == Start(j, [NewJob EXCEPT !.levels = {l}]) /\ UNCHANGED code

\* syncAllAddresses: the three of them, one after the other.
SyncAddresses(j) == Start(j, [NewJob EXCEPT !.levels = 1 .. 3]) /\ UNCHANGED code

\* syncDistrictsForProvince, syncWardsForDistrict: a parent with a code.
SyncOf(j, q) ==
    /\ code[q] # Null
    /\ ChildrenOf(q) # {}
    /\ Start(j, [NewJob EXCEPT !.places = ChildrenOf(q), !.within = code[q]])
    /\ UNCHANGED code

\* The next table: all provinces, or the parents that have a code.
OpenLevel(j) ==
    /\ job[j].op = "sync" /\ job[j].places = {} /\ job[j].parents = {}
    /\ IF job[j].levels = {}
       THEN Go(j, Idle)
       ELSE LET l == CHOOSE n \in job[j].levels : \A m \in job[j].levels : n <= m
                rest == [job[j] EXCEPT !.levels = @ \ {l}, !.within = Null]
            IN  IF l = 1
                THEN Go(j, [rest EXCEPT !.places = At(1)])
                ELSE Go(j, [rest EXCEPT !.parents = {q \in At(l - 1) : code[q] # Null}])
    /\ UNCHANGED code

\* A parent is read again; one that lost its code is logged and passed over.
OpenParent(j, q) ==
    /\ job[j].op = "sync" /\ job[j].places = {} /\ q \in job[j].parents
    /\ Go(j, [job[j] EXCEPT !.parents = @ \ {q}, !.within = code[q],
                            !.places = IF code[q] = Null THEN {} ELSE ChildrenOf(q)])
    /\ UNCHANGED code
-----------------------------------------------------------------------------
(***************************************************************************)
(* getIdProvince, getIdDistrict, getIdWard                                 *)
(***************************************************************************)
\* MUTANT: the row is searched by its name alone.
AnyNamesake(p, g) == {m \in At(Level(p)) : Name[m] = Name[p]}

\* findProvinceByName; findDistrictByName and findWardByName among the rows of
\* the parent whose code is g, as far as there is one.
Namesakes(p, g) ==
    {m \in At(Level(p)) : Name[m] = Name[p] /\ (Level(p) > 1 => Parent[m] \in Coded(g))}

\* A code in the table is the answer; without one, or after an error, GHN is asked.
LookUp(j, p) ==
    /\ job[j].op = "sync" /\ p \in job[j].places
    /\ LET next == [job[j] EXCEPT !.places = @ \ {p}, !.place = p]
       IN  \/ \E m \in Namesakes(p, job[j].within) :
                 code[m] # Null /\ Go(j, [next EXCEPT !.op = "store", !.answer = code[m]])
           \/ Go(j, [next EXCEPT !.op = "ask"])
    /\ UNCHANGED code

\* The first of GHN's places under the parent with that name; none, or an
\* error, fails the row and the job goes on.
AskGhn(j) ==
    /\ job[j].op = "ask"
    /\ \/ \E g \in GhnIds :
             /\ GhnParent[g] = job[j].within
             /\ GhnName[g] = Name[job[j].place]
             /\ Go(j, [job[j] EXCEPT !.op = "match", !.answer = g])
       \/ Go(j, [job[j] EXCEPT !.op = "sync", !.place = Null])
    /\ UNCHANGED code

\* The row found by name, perhaps not the one at work, gets the code at once;
\* an error here is logged.
StoreMatch(j) ==
    /\ job[j].op = "match"
    /\ \/ \E m \in Namesakes(job[j].place, job[j].within) :
             code' = [code EXCEPT ![m] = job[j].answer]
       \/ UNCHANGED code
    /\ Go(j, [job[j] EXCEPT !.op = "store"])

\* updateProvinceGhnCode, updateDistrictGhnCode, updateWardGhnCode
StoreAnswer(j) ==
    /\ job[j].op = "store"
    /\ code' \in {code, [code EXCEPT ![job[j].place] = job[j].answer]}
    /\ Go(j, [job[j] EXCEPT !.op = "sync", !.place = Null, !.answer = Null])
-----------------------------------------------------------------------------
(***************************************************************************)
(* resetProvincesGhnCode, ..., and resetAllGhnCodes one after the other    *)
(***************************************************************************)
ResetAll(j) == Start(j, [NewJob EXCEPT !.op = "reset", !.levels = 1 .. 3]) /\ UNCHANGED code
Reset(j, l) == Start(j, [NewJob EXCEPT !.op = "reset", !.levels = {l}]) /\ UNCHANGED code

ResetLevel(j) ==
    /\ job[j].op = "reset"
    /\ LET l == CHOOSE n \in job[j].levels : \A m \in job[j].levels : n <= m
       IN  /\ code' = [p \in Places |-> IF Level(p) = l THEN Null ELSE code[p]]
           /\ IF job[j].levels = {l}
              THEN Go(j, Idle)
              ELSE Go(j, [job[j] EXCEPT !.levels = @ \ {l}])
-----------------------------------------------------------------------------
\* An error of the database, or a restart.
BreakOff(j) ==
    /\ job[j] # Idle
    /\ Go(j, Idle)
    /\ UNCHANGED code

Next == \E j \in Jobs :
    \/ \E l \in 1 .. 3 : SyncAll(j, l) \/ Reset(j, l)
    \/ \E p \in Places : SyncOf(j, p) \/ OpenParent(j, p) \/ LookUp(j, p)
    \/ SyncAddresses(j) \/ OpenLevel(j) \/ AskGhn(j) \/ StoreMatch(j) \/ StoreAnswer(j)
    \/ ResetAll(j) \/ ResetLevel(j) \/ BreakOff(j)

Spec == Init /\ [][Next]_vars
-----------------------------------------------------------------------------
\* Every variable has its type: the codes of the three tables, and the jobs.
TypeOK ==
    /\ code \in [Places -> GhnIds \cup {Null}]
    /\ job \in [Jobs -> Job \cup {Idle}]

\* Right(p): GHN's places with the name of p, in one with the name of its parent.
Named(p, within) == {g \in GhnIds : GhnName[g] = Name[p] /\ GhnParent[g] \in within}

Right(p) ==
    CASE Level(p) = 1 -> Named(p, {Null})
      [] Level(p) = 2 -> Named(p, Named(Parent[p], {Null}))
      [] Level(p) = 3 -> Named(p, Named(Parent[p], Named(Parent[Parent[p]], {Null})))

\* Whatever syncs and resets run at once, and wherever one breaks off, a code
\* that GHNService and OldAddressService have stored is that of a place with
\* the names of the row and of everything it lies in.
CodesAreRight == \A p \in Places : code[p] # Null => code[p] \in Right(p)
=============================================================================
