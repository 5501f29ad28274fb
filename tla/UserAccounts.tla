---------------------------- MODULE UserAccounts ----------------------------
(***************************************************************************)
(* The user service, for one email address: registration, which creates an *)
(* account or upgrades a buyer's to a seller's, login and the profile.     *)
(* Register looks the address up in an index that lags behind the table,   *)
(* and writes later under a key that is always new.  A token carries the   *)
(* role that the account had in the index at login.                        *)
(***************************************************************************)
EXTENDS Integers, FiniteSets

CONSTANTS
  Ids,             \* user ids in the order in which they are drawn, 1..n
  Names,           \* usernames
  Registrations,   \* calls of POST /users
  Devices,         \* where the user is logged in
  MaxFaults        \* bound: how often something goes wrong

ASSUME IdsAssumption == IsFiniteSet(Ids) /\ Ids = 1..Cardinality(Ids)
ASSUME NamesAssumption == Names # {}
ASSUME AccountBounds == MaxFaults \in Nat

VARIABLES
  users,      \* the table Users
  index,      \* its index on email
  register,   \* the calls of Register
  token,      \* the token of each device
  faults,     \* how often something went wrong
  misled      \* history: a lookup that found nothing was wrong

accounts == <<users, index, register, token, misled>>

Roles   == {"buyer", "seller"}
Account == [role : Roles, name : Names]
NoAccount == [role |-> "none"]
Claims  == [id : Ids, role : Roles]
NoToken == [id |-> 0, role |-> "none"]

AnyName == CHOOSE n \in Names : TRUE

(* id: the account to upgrade, or the one that resulted. *)
Registration ==
  [stage : {"new", "save", "upgrade", "rename", "registered", "failed"},
   role : Roles, name : Names, id : Ids \cup {0}, rename : BOOLEAN]
NewRegistration ==
  [stage |-> "new", role |-> "buyer", name |-> AnyName,
   id |-> 0, rename |-> FALSE]

InitAccounts ==
  /\ users = [i \in Ids |-> NoAccount]
  /\ index = [i \in Ids |-> NoAccount]
  /\ register = [r \in Registrations |-> NewRegistration]
  /\ token = [d \in Devices |-> NoToken]
  /\ faults = 0
  /\ misled = FALSE

Fault   == faults < MaxFaults /\ faults' = faults + 1
NoFault == UNCHANGED faults

Taken(table) == {i \in Ids : table[i] # NoAccount}
Fails == [NewRegistration EXCEPT !.stage = "failed"]
Registered(r, i) ==
  [NewRegistration EXCEPT !.stage = "registered", !.role = register[r].role, !.id = i]

-----------------------------------------------------------------------------
(* FindByEmail found nothing, or failed, which is taken for the same. *)
LookupFindsNone(r, role, name) ==
  /\ register[r].stage = "new"
  /\ (Taken(index) = {} /\ NoFault) \/ Fault
  /\ register' = [register EXCEPT ![r] =
       [NewRegistration EXCEPT !.stage = "save", !.role = role, !.name = name]]
  /\ misled' = (misled \/ Taken(users) # {} \/ \E q \in Registrations : register[q].stage = "save")
  /\ UNCHANGED <<users, index, token>>

(* Mutant: whoever has an account may sign up again as a seller. *)
LookupUpgradesAny(r, role, name, confirm) ==
  /\ register[r].stage = "new"
  /\ \E i \in Taken(index) :
       register' = [register EXCEPT ![r] =
         IF role = "seller"
           THEN [stage |-> "save", role |-> role, name |-> name, id |-> i, rename |-> FALSE]
           ELSE [@ EXCEPT !.stage = "failed"]]
  /\ UNCHANGED <<users, index, token, misled, faults>>

(* A buyer who registers as a seller is upgraded; another name has to be   *)
(* confirmed.  Everybody else, and whoever gives a wrong password, is      *)
(* refused.                                                                *)
LookupFindsAccount(r, role, name, confirm) ==
  /\ register[r].stage = "new"
  /\ \E i \in Taken(index) :
       \/ /\ role = "seller" /\ index[i].role = "buyer"
          /\ name # index[i].name => confirm
          /\ register' = [register EXCEPT ![r] =
               [stage |-> "upgrade", role |-> role, name |-> name, id |-> i,
                rename |-> name # index[i].name]]
       \/ register' = [register EXCEPT ![r].stage = "failed"]
  /\ UNCHANGED <<users, index, token, misled, faults>>

(* PutItem under a new id; its reply may be lost. *)
SaveUser(r) == \E i \in Ids \ Taken(users) :
  LET saved == [users EXCEPT ![i] = [role |-> register[r].role, name |-> register[r].name]] IN
  /\ register[r].stage = "save"
  /\ \A j \in Ids \ Taken(users) : i <= j
  /\ \/ /\ NoFault /\ users' = saved
        /\ register' = [register EXCEPT ![r] = Registered(r, i)]
     \/ /\ Fault /\ users' \in {users, saved}
        /\ register' = [register EXCEPT ![r] = Fails]
  /\ UNCHANGED <<index, token, misled>>

(* UpdateRole, and a call of its own for the name. *)
UpdateRole(r) ==
  LET i == register[r].id
      upgraded == [users EXCEPT ![i].role = "seller"] IN
  /\ register[r].stage = "upgrade"
  /\ \/ /\ NoFault /\ users' = upgraded
        /\ register' = [register EXCEPT ![r] =
             IF @.rename THEN [@ EXCEPT !.stage = "rename"]
                         ELSE Registered(r, i)]
     \/ /\ Fault /\ users' \in {users, upgraded}
        /\ register' = [register EXCEPT ![r] = Fails]
  /\ UNCHANGED <<index, token, misled>>

RenameUpgraded(r) ==
  LET i == register[r].id
      renamed == [users EXCEPT ![i].name = register[r].name] IN
  /\ register[r].stage = "rename"
  /\ \/ /\ NoFault /\ users' = renamed
        /\ register' = [register EXCEPT ![r] = Registered(r, i)]
     \/ /\ Fault /\ users' \in {users, renamed}
        /\ register' = [register EXCEPT ![r] = Fails]
  /\ UNCHANGED <<index, token, misled>>

(* The index takes over an item. *)
Propagate(i) ==
  /\ index[i] # users[i]
  /\ index' = [index EXCEPT ![i] = users[i]]
  /\ UNCHANGED <<users, register, token, misled, faults>>

(* With the right password.  The token is good for a day, whatever becomes *)
(* of the account.                                                         *)
Login(d) ==
  /\ \E i \in Taken(index) :
       token' = [token EXCEPT ![d] = [id |-> i, role |-> index[i].role]]
  /\ UNCHANGED <<users, index, register, misled, faults>>

(* Mutant: the account is put back as the token describes it. *)
UpdateProfileFromToken(d, name) ==
  /\ token[d] # NoToken
  /\ users' = [users EXCEPT ![token[d].id] = [role |-> token[d].role, name |-> name]]
  /\ UNCHANGED <<index, register, token, misled, faults>>

(* FindByID sees that the account is there, as it always is. *)
UpdateProfile(d, name) ==
  /\ token[d] # NoToken
  /\ users' = [users EXCEPT ![token[d].id].name = name]
  /\ UNCHANGED <<index, register, token, misled, faults>>

RegisterStep(r) ==
  \/ \E role \in Roles, name \in Names :
       \/ LookupFindsNone(r, role, name)
       \/ \E confirm \in BOOLEAN : LookupFindsAccount(r, role, name, confirm)
  \/ SaveUser(r) \/ UpdateRole(r) \/ RenameUpgraded(r)

AccountsNext ==
  \/ \E r \in Registrations : RegisterStep(r)
  \/ \E i \in Ids : Propagate(i)
  \/ \E d \in Devices : Login(d) \/ \E name \in Names : UpdateProfile(d, name)

-----------------------------------------------------------------------------
(* Every variable has the values that its item or call can hold. *)
AccountsTypeOK ==
  /\ users \in [Ids -> Account \cup {NoAccount}]
  /\ index \in [Ids -> Account \cup {NoAccount}]
  /\ register \in [Registrations -> Registration]
  /\ token \in [Devices -> Claims \cup {NoToken}]
  /\ faults \in 0..MaxFaults /\ misled \in BOOLEAN

(* An address has one account, unless a lookup failed or came too early to *)
(* see the account of another registration; with upgrades, renames and     *)
(* lost replies going on.                                                  *)
OneAccount == ~misled => Cardinality(Taken(users)) <= 1

(* The inductive invariant behind it: whoever is about to save found the   *)
(* address free, which it still is, and is the only one.                   *)
Saving == {r \in Registrations : register[r].stage = "save"}

AddressFree ==
  ~misled =>
    /\ \A i, j \in Taken(users) : i = j
    /\ \A r, q \in Saving : r = q
    /\ Saving # {} => Taken(users) = {}

(* What the index, the tokens and the calls of Register know of an account *)
(* is no more than the table has: an account is never deleted and a seller *)
(* never a buyer again.                                                    *)
AccountsAgree ==
  /\ \A i \in Ids : /\ index[i] # NoAccount => users[i] # NoAccount
                    /\ index[i].role = "seller" => users[i].role = "seller"
  /\ \A d \in Devices : token[d] # NoToken => users[token[d].id] # NoAccount
  /\ \A r \in Registrations :
       /\ register[r].stage \in {"upgrade", "rename", "registered"} =>
            register[r].id \in Ids /\ users[register[r].id] # NoAccount
       /\ register[r].stage = "rename" => users[register[r].id].role = "seller"

(* A role that was granted stays: whoever registered as a seller is one,   *)
(* and so is everybody whose token says so, although profiles are changed  *)
(* with old tokens and upgrades rest on an old index.                      *)
RolesHold ==
  /\ \A r \in Registrations :
       register[r].stage = "registered" /\ register[r].role = "seller" =>
         users[register[r].id].role = "seller"
  /\ \A d \in Devices : token[d].role = "seller" => users[token[d].id].role = "seller"
=============================================================================
