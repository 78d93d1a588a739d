---------------------------- MODULE AddressBook ----------------------------
(***************************************************************************)
(* The delivery addresses of users and farms, one of a user's being the    *)
(* primary one (DeliveryAddressService).  The service sets and unsets      *)
(* is_primary by statements that no transaction holds together.            *)
(***************************************************************************)
CONSTANTS
    Users,          \* rows of the table user
    Addresses,      \* ids of the table delivery_address
    Calls,          \* handlers that can be in flight at once
    Null            \* no row, no user

Address == [user : Users \cup {Null}, is_primary : BOOLEAN]

NullAssumption == Null \notin Users /\ Null \notin Address

\* The address of a farm, or none any more: the ids of deleted rows do not return.
Nobodys == [user |-> Null, is_primary |-> FALSE]

VARIABLES
    address,        \* address[a]: the row, Null before its INSERT
    call,           \* call[k]: handler in flight
    cleared,        \* (history) users who unset their primary address themselves
    disturbed       \* (history) users with two handlers at once, or a broken off one

vars == <<address, call, cleared, disturbed>>

\* What is still to be written: value or change of is_primary, "kept" if the
\* column is not in the UPDATE.
NoCall == [op : {"none"}]
AddCall == [op : {"add"}, user : Users, value : BOOLEAN]
SetCall == [op : {"set"}, user : Users, id : Addresses, change : {"primary", "other", "kept"}]
DeleteCall == [op : {"delete"}, user : Users, id : Addresses, value : BOOLEAN]
NextCall == [op : {"search", "promote"}, user : Users, id : Addresses]
CallRecords == NoCall \cup AddCall \cup SetCall \cup DeleteCall \cup NextCall

Idle == [op |-> "none"]
AtWork(u) == \E k \in Calls : call[k] # Idle /\ call[k].user = u
Start(k, record) ==
    /\ call[k] = Idle
    /\ call' = [call EXCEPT ![k] = record]
    /\ disturbed' = IF AtWork(record.user) THEN disturbed \cup {record.user} ELSE disturbed
End(k) == call' = [call EXCEPT ![k] = Idle]

\* getUserAddresses
AddressesOf(u) == {a \in Addresses : address[a] # Null /\ address[a].user = u}
PrimaryOf(u) == {a \in AddressesOf(u) : address[a].is_primary}

SetPrimary(a, value) == address' = [address EXCEPT ![a].is_primary = value]
UnsetAll(u) ==
    address' = [a \in Addresses |-> IF a \in AddressesOf(u)
                                    THEN [address[a] EXCEPT !.is_primary = FALSE]
                                    ELSE address[a]]
-----------------------------------------------------------------------------
Init ==
    /\ address = [a \in Addresses |-> Null]
    /\ call = [k \in Calls |-> Idle]
    /\ cleared = {}
    /\ disturbed = {}
-----------------------------------------------------------------------------
(***************************************************************************)
(* addUserAddress                                                          *)
(***************************************************************************)
\* The request asks for a primary address: the others are unset.
UnsetForAdd(k, u) ==
    /\ UnsetAll(u)
    /\ Start(k, [op |-> "add", user |-> u, value |-> TRUE])
    /\ UNCHANGED cleared

\* It does not: the address becomes primary if there is no other.
CheckForAdd(k, u) ==
    /\ Start(k, [op |-> "add", user |-> u, value |-> PrimaryOf(u) = {}])
    /\ UNCHANGED <<address, cleared>>

AddUserAddress(k, a) ==
    /\ call[k].op = "add"
    /\ address[a] = Null
    /\ address' = [address EXCEPT ![a] = [user |-> call[k].user, is_primary |-> call[k].value]]
    /\ cleared' = IF call[k].value THEN cleared \ {call[k].user} ELSE cleared
    /\ End(k)
    /\ UNCHANGED disturbed

\* addFarmAddress, in the transaction of farmRegister: of no user.
AddFarmAddress(a) ==
    /\ address[a] = Null
    /\ address' = [address EXCEPT ![a] = Nobodys]
    /\ UNCHANGED <<call, cleared, disturbed>>
-----------------------------------------------------------------------------
(***************************************************************************)
(* updateUserAddress: neither the address nor its owner is looked up first *)
(***************************************************************************)
UnsetForUpdate(k, u, a) ==
    /\ UnsetAll(u)
    /\ Start(k, [op |-> "set", user |-> u, id |-> a, change |-> "primary"])
    /\ cleared' = IF a \in AddressesOf(u) THEN cleared ELSE cleared \cup {u}

\* is_primary is false or left out of the request; without another primary
\* address it is set all the same.
CheckForUpdate(k, u, a) ==
    /\ \E change \in {"other", "kept"} :
          Start(k, [op |-> "set", user |-> u, id |-> a,
                    change |-> IF PrimaryOf(u) = {} THEN "primary" ELSE change])
    /\ UNCHANGED <<address, cleared>>

UpdateUserAddress(k) ==
    /\ call[k].op = "set"
    /\ LET u == call[k].user
           a == call[k].id
       IN  \/ /\ a \in AddressesOf(u)
              /\ call[k].change = "primary"
              /\ SetPrimary(a, TRUE)
              /\ cleared' = cleared \ {u}
           \/ /\ a \in AddressesOf(u)
              /\ call[k].change = "other"
              /\ SetPrimary(a, FALSE)
              /\ cleared' = IF address[a].is_primary THEN cleared \cup {u} ELSE cleared
           \/ /\ a \notin AddressesOf(u) \/ call[k].change = "kept"
              /\ UNCHANGED <<address, cleared>>
    /\ End(k)
    /\ UNCHANGED disturbed
-----------------------------------------------------------------------------
(***************************************************************************)
(* deleteUserLocation                                                      *)
(***************************************************************************)
ReadForDelete(k, u, a) ==
    /\ a \in AddressesOf(u)
    /\ Start(k, [op |-> "delete", user |-> u, id |-> a, value |-> address[a].is_primary])
    /\ UNCHANGED <<address, cleared>>

\* DELETE by id; the successor of a primary address is searched after that.
DeleteUserLocation(k) ==
    /\ call[k].op = "delete"
    /\ address' = [address EXCEPT ![call[k].id] = Nobodys]
    /\ IF call[k].value
       THEN call' = [call EXCEPT ![k] = [op |-> "search", user |-> call[k].user, id |-> call[k].id]]
       ELSE End(k)
    /\ UNCHANGED <<cleared, disturbed>>

\* MUTANT: no other address takes the place of the primary one.
NoSuccessor(k) ==
    /\ call[k].op = "search"
    /\ End(k)
    /\ UNCHANGED <<address, cleared, disturbed>>

\* findOne without an order: any other address of the user.
FindSuccessor(k) ==
    /\ call[k].op = "search"
    /\ LET rest == AddressesOf(call[k].user)
       IN  \/ /\ rest = {}
              /\ End(k)
           \/ \E a \in rest :
                 call' = [call EXCEPT ![k] = [op |-> "promote", user |-> call[k].user, id |-> a]]
    /\ UNCHANGED <<address, cleared, disturbed>>

PromoteSuccessor(k) ==
    /\ call[k].op = "promote"
    /\ IF address[call[k].id] # Nobodys THEN SetPrimary(call[k].id, TRUE) ELSE UNCHANGED address
    /\ End(k)
    /\ UNCHANGED <<cleared, disturbed>>
-----------------------------------------------------------------------------
\* An error or a restart: what has been written stays.
BreakOff(k) ==
    /\ call[k] # Idle
    /\ disturbed' = disturbed \cup {call[k].user}
    /\ End(k)
    /\ UNCHANGED <<address, cleared>>

Next ==
    \/ \E k \in Calls :
          \/ \E u \in Users : UnsetForAdd(k, u) \/ CheckForAdd(k, u)
          \/ \E u \in Users, a \in Addresses :
                UnsetForUpdate(k, u, a) \/ CheckForUpdate(k, u, a) \/ ReadForDelete(k, u, a)
          \/ \E a \in Addresses : AddUserAddress(k, a)
          \/ UpdateUserAddress(k) \/ DeleteUserLocation(k)
          \/ FindSuccessor(k) \/ PromoteSuccessor(k) \/ BreakOff(k)
    \/ \E a \in Addresses : AddFarmAddress(a)

Spec == Init /\ [][Next]_vars
-----------------------------------------------------------------------------
\* Every variable has its type: the rows of delivery_address, and the handlers
\* of DeliveryAddressService.
TypeOK ==
    /\ address \in [Addresses -> Address \cup {Null}]
    /\ call \in [Calls -> CallRecords]
    /\ cleared \subseteq Users
    /\ disturbed \subseteq Users

\* With one request of a user after the other and none broken off, a user has
\* at most one primary address, and one as soon as there is an address, unless
\* the user unset it (or named an address that is not there as the primary).
OnePrimary ==
    \A u \in Users \ disturbed :
        /\ \A a, b \in PrimaryOf(u) : a = b
        /\ ~AtWork(u) /\ AddressesOf(u) # {} => PrimaryOf(u) # {} \/ u \in cleared
=============================================================================
