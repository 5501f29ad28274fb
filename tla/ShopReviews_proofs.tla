------------------------ MODULE ShopReviews_proofs ------------------------
(***************************************************************************)
(* Proof that roles, shops and reviews stay in agreement with accounts and *)
(* payments: MarketInv is an invariant for any number of calls, devices    *)
(* and faults, whatever copies and indexes the calls read.                 *)
(***************************************************************************)
EXTENDS ShopReviews, FiniteSetTheorems, TLAPS

AccountsInv == AccountsTypeOK /\ AccountsAgree /\ RolesHold

LEMMA IdsArePositive == \A i \in Ids : i # 0
<1>1. Cardinality(Ids) \in Nat
  BY IdsAssumption, FS_CardinalityType
<1> QED BY <1>1, IdsAssumption

LEMMA AnyNameIsName == AnyName \in Names
BY NamesAssumption DEF AnyName

LEMMA NewIsTyped ==
  NewRegistration \in Registration /\ NewRegistration.stage = "new"
BY AnyNameIsName DEF NewRegistration, Registration, Roles

LEMMA AccountsAreRecords ==
  ASSUME NEW u \in Account \cup {NoAccount}
  PROVE  /\ u.role = "seller" => u # NoAccount
         /\ u # NoAccount <=> u \in Account
         /\ u # NoAccount <=> u.role # "none"
BY DEF Account, NoAccount, Roles

LEMMA RenamedAccount ==
  ASSUME NEW u \in Account, NEW name \in Names
  PROVE  /\ [u EXCEPT !.name = name] \in Account
         /\ [u EXCEPT !.name = name].role = u.role
BY DEF Account

LEMMA UpgradedAccount ==
  ASSUME NEW u \in Account
  PROVE  /\ [u EXCEPT !.role = "seller"] \in Account
         /\ [u EXCEPT !.role = "seller"].role = "seller"
BY DEF Account, Roles

LEMMA AccountFaultIsTyped ==
  faults \in 0..MaxFaults /\ (Fault \/ NoFault) => faults' \in 0..MaxFaults
BY AccountBounds DEF Fault, NoFault

(* No step deletes an account or takes a seller's role away.               *)
Grown ==
  \A i \in Ids : /\ users[i] # NoAccount => users'[i] # NoAccount
                 /\ users[i].role = "seller" => users'[i].role = "seller"

(* What the table grows by disturbs nothing that the rest knows of it.     *)
LEMMA GrowthIsSound ==
  ASSUME AccountsInv, Grown, users' \in [Ids -> Account \cup {NoAccount}],
         UNCHANGED <<index, token>>, misled' \in BOOLEAN, Fault \/ NoFault,
         NEW r \in Registrations, NEW reg \in Registration,
         register' = [register EXCEPT ![r] = reg],
         reg.stage \in {"upgrade", "rename", "registered"} =>
           reg.id \in Ids /\ users'[reg.id] # NoAccount,
         reg.stage = "rename" => users'[reg.id].role = "seller",
         reg.stage = "registered" /\ reg.role = "seller" =>
           users'[reg.id].role = "seller"
  PROVE  AccountsInv'
<1>1. AccountsTypeOK'
  BY AccountFaultIsTyped DEF AccountsInv, AccountsTypeOK
<1>2. ASSUME NEW q \in Registrations
      PROVE  /\ register'[q].stage \in {"upgrade", "rename", "registered"} =>
                  register'[q].id \in Ids /\ users'[register'[q].id] # NoAccount
             /\ register'[q].stage = "rename" => users'[register'[q].id].role = "seller"
             /\ register'[q].stage = "registered" /\ register'[q].role = "seller" =>
                  users'[register'[q].id].role = "seller"
  <2>1. CASE q = r
    BY <2>1 DEF AccountsInv, AccountsTypeOK
  <2>2. CASE q # r
    <3>1. register'[q] = register[q]
      BY <2>2 DEF AccountsInv, AccountsTypeOK
    <3> QED BY <3>1 DEF AccountsInv, AccountsAgree, RolesHold, Grown
  <2> QED BY <2>1, <2>2
<1>3. ASSUME NEW d \in Devices
      PROVE  /\ token'[d] # NoToken => users'[token'[d].id] # NoAccount
             /\ token'[d].role = "seller" => users'[token'[d].id].role = "seller"
  <2>1. token'[d] = token[d] /\ token[d] \in Claims \cup {NoToken}
    BY DEF AccountsInv, AccountsTypeOK
  <2>2. token[d] # NoToken => token[d].id \in Ids
    BY <2>1 DEF Claims
  <2>3. token[d].role = "seller" => token[d] # NoToken
    BY DEF NoToken
  <2> QED BY <2>1, <2>2, <2>3 DEF AccountsInv, AccountsAgree, RolesHold, Grown
<1>4. AccountsAgree' /\ RolesHold'
  BY <1>2, <1>3 DEF AccountsInv, AccountsAgree, RolesHold, Grown
<1> QED BY <1>1, <1>4 DEF AccountsInv

-----------------------------------------------------------------------------
(* The steps of accounts.                                                  *)
LEMMA StaysGrown == UNCHANGED users => Grown
BY DEF Grown

LEMMA LookupKeepsAccounts ==
  ASSUME AccountsInv, NEW r \in Registrations, NEW role \in Roles, NEW name \in Names,
         \/ LookupFindsNone(r, role, name)
         \/ \E confirm \in BOOLEAN : LookupFindsAccount(r, role, name, confirm)
  PROVE  AccountsInv' /\ Grown
<1>1. register[r] \in Registration /\ register \in [Registrations -> Registration]
  BY DEF AccountsInv, AccountsTypeOK
<1>2. CASE LookupFindsNone(r, role, name)
  <2> DEFINE reg == [NewRegistration EXCEPT !.stage = "save", !.role = role, !.name = name]
  <2>1. reg \in Registration /\ reg.stage = "save"
    BY NewIsTyped DEF Registration
  <2>2. /\ UNCHANGED <<users, index, token>> /\ misled' \in BOOLEAN /\ (Fault \/ NoFault)
        /\ register' = [register EXCEPT ![r] = reg]
    BY <1>2 DEF LookupFindsNone, AccountsInv, AccountsTypeOK
  <2> HIDE DEF reg
  <2>3. users' \in [Ids -> Account \cup {NoAccount}]
    BY <2>2 DEF AccountsInv, AccountsTypeOK
  <2> QED BY <2>1, <2>2, <2>3, StaysGrown, GrowthIsSound
<1>3. ASSUME NEW confirm \in BOOLEAN, LookupFindsAccount(r, role, name, confirm)
      PROVE  AccountsInv' /\ Grown
  <2>1. /\ UNCHANGED <<users, index, token>> /\ misled' \in BOOLEAN /\ NoFault
        /\ users' \in [Ids -> Account \cup {NoAccount}]
    BY <1>3 DEF LookupFindsAccount, AccountsInv, AccountsTypeOK, NoFault
  <2>2. PICK i \in Taken(index) :
          \/ /\ role = "seller"
             /\ register' = [register EXCEPT ![r] =
                  [stage |-> "upgrade", role |-> role, name |-> name, id |-> i,
                   rename |-> name # index[i].name]]
          \/ register' = [register EXCEPT ![r].stage = "failed"]
    BY <1>3 DEF LookupFindsAccount
  <2>3. CASE register' = [register EXCEPT ![r] =
               [stage |-> "upgrade", role |-> role, name |-> name, id |-> i,
                rename |-> name # index[i].name]]
    <3> DEFINE reg == [stage |-> "upgrade", role |-> role, name |-> name, id |-> i,
                       rename |-> name # index[i].name]
    <3>1. i \in Ids /\ users'[i] # NoAccount
      BY <2>1, <2>2 DEF Taken, AccountsInv, AccountsAgree
    <3>2. /\ reg \in Registration /\ reg.stage = "upgrade" /\ reg.id = i
      BY <3>1 DEF Registration
    <3>3. register' = [register EXCEPT ![r] = reg]
      BY <2>3
    <3> HIDE DEF reg
    <3> QED BY <2>1, <3>1, <3>2, <3>3, StaysGrown, GrowthIsSound
  <2>4. CASE register' = [register EXCEPT ![r].stage = "failed"]
    <3> DEFINE reg == [register[r] EXCEPT !.stage = "failed"]
    <3>1. reg \in Registration /\ reg.stage = "failed"
      BY <1>1 DEF Registration
    <3>2. register' = [register EXCEPT ![r] = reg]
      BY <2>4
    <3> HIDE DEF reg
    <3> QED BY <2>1, <3>1, <3>2, StaysGrown, GrowthIsSound
  <2> QED BY <2>2, <2>3, <2>4
<1> QED BY <1>2, <1>3

LEMMA EndsAreTyped ==
  ASSUME AccountsInv, NEW r \in Registrations, NEW i \in Ids
  PROVE  /\ Fails \in Registration /\ Fails.stage = "failed"
         /\ Registered(r, i) \in Registration /\ Registered(r, i).id = i
         /\ Registered(r, i).role = register[r].role
         /\ Registered(r, i).stage = "registered"
<1>1. register[r].role \in Roles
  BY DEF AccountsInv, AccountsTypeOK, Registration
<1> QED BY <1>1, NewIsTyped DEF Fails, Registered, Registration

LEMMA SaveKeepsAccounts ==
  ASSUME AccountsInv, NEW r \in Registrations, SaveUser(r)
  PROVE  AccountsInv' /\ Grown
<1> DEFINE saved(i) ==
      [users EXCEPT ![i] = [role |-> register[r].role, name |-> register[r].name]]
<1>1. PICK i \in Ids \ Taken(users) :
        /\ \/ /\ NoFault /\ users' = saved(i)
              /\ register' = [register EXCEPT ![r] = Registered(r, i)]
           \/ /\ Fault /\ users' \in {users, saved(i)}
              /\ register' = [register EXCEPT ![r] = Fails]
        /\ UNCHANGED <<index, token, misled>>
  BY DEF SaveUser
<1>2. /\ users[i] = NoAccount /\ users \in [Ids -> Account \cup {NoAccount}]
      /\ register[r].role \in Roles /\ register[r].name \in Names
      /\ misled' \in BOOLEAN
  BY <1>1 DEF AccountsInv, AccountsTypeOK, Registration, Taken
<1>3. /\ saved(i) \in [Ids -> Account \cup {NoAccount}]
      /\ saved(i)[i] # NoAccount /\ saved(i)[i].role = register[r].role
      /\ \A j \in Ids \ {i} : saved(i)[j] = users[j]
  BY <1>1, <1>2 DEF Account, NoAccount, Roles
<1>4. users' \in [Ids -> Account \cup {NoAccount}] /\ Grown
  <2>1. NoAccount.role # "seller"
    BY DEF NoAccount
  <2> HIDE DEF saved
  <2> QED BY <1>1, <1>2, <1>3, <2>1 DEF Grown
<1> HIDE DEF saved
<1>5. CASE NoFault /\ users' = saved(i) /\ register' = [register EXCEPT ![r] = Registered(r, i)]
  <2> DEFINE reg == Registered(r, i)
  <2>1. /\ reg \in Registration /\ reg.id = i /\ reg.role = register[r].role
        /\ reg.stage = "registered"
    BY <1>1, EndsAreTyped
  <2>2. register' = [register EXCEPT ![r] = reg] /\ (Fault \/ NoFault)
    BY <1>5
  <2> HIDE DEF reg
  <2>3. users'[reg.id] # NoAccount /\ users'[reg.id].role = reg.role /\ reg.id \in Ids
    BY <1>1, <1>3, <1>5, <2>1
  <2>4. /\ users' \in [Ids -> Account \cup {NoAccount}] /\ Grown
        /\ UNCHANGED <<index, token>> /\ misled' \in BOOLEAN
    BY <1>1, <1>2, <1>4
  <2> QED BY <2>1, <2>2, <2>3, <2>4, GrowthIsSound
<1>6. CASE Fault /\ register' = [register EXCEPT ![r] = Fails]
  BY <1>1, <1>2, <1>4, <1>6, EndsAreTyped, GrowthIsSound
<1> QED BY <1>1, <1>4, <1>5, <1>6

(* UpdateRole and RenameUpgraded change an account that is there.          *)
LEMMA UpdateKeepsAccounts ==
  ASSUME AccountsInv, NEW r \in Registrations, UpdateRole(r) \/ RenameUpgraded(r)
  PROVE  AccountsInv' /\ Grown
<1> DEFINE i == register[r].id
           u == users[i]
<1>1. /\ register[r] \in Registration /\ register[r].stage \in {"upgrade", "rename"}
      /\ i \in Ids /\ u # NoAccount
      /\ register[r].stage = "rename" => u.role = "seller"
  BY DEF UpdateRole, RenameUpgraded, AccountsInv, AccountsTypeOK, AccountsAgree
<1>2. u \in Account /\ users \in [Ids -> Account \cup {NoAccount}]
  BY <1>1 DEF AccountsInv, AccountsTypeOK
<1>3. register[r].name \in Names
  BY <1>1 DEF Registration
<1>4. PICK v \in Account :
        /\ u.role = "seller" => v.role = "seller"
        /\ users' = [users EXCEPT ![i] = v]
        /\ register'[r].stage \in {"registered", "rename"} => v.role = "seller"
  <2>1. CASE UpdateRole(r)
    <3> DEFINE v == [u EXCEPT !.role = "seller"]
    <3>1. v \in Account /\ v.role = "seller"
      BY <1>2, UpgradedAccount
    <3>2. CASE users' = users
      <4>1. register' = [register EXCEPT ![r] = Fails] \/ users' = [users EXCEPT ![i] = v]
        BY <2>1 DEF UpdateRole
      <4>2. CASE register' = [register EXCEPT ![r] = Fails]
        <5>1. register'[r].stage = "failed"
          BY <1>1, <4>2, EndsAreTyped DEF AccountsInv, AccountsTypeOK
        <5>2. users' = [users EXCEPT ![i] = u]
          BY <1>1, <1>2, <3>2
        <5> QED BY <1>2, <5>1, <5>2
      <4> QED BY <3>1, <4>1, <4>2
    <3>3. CASE users' = [users EXCEPT ![i] = v]
      BY <3>1, <3>3
    <3>4. users' = users \/ users' = [users EXCEPT ![i] = v]
      BY <2>1 DEF UpdateRole
    <3> QED BY <3>2, <3>3, <3>4
  <2>2. CASE RenameUpgraded(r)
    <3> DEFINE v == [u EXCEPT !.name = register[r].name]
    <3>1. v \in Account /\ v.role = u.role
      BY <1>2, <1>3, RenamedAccount
    <3>2. u.role = "seller"
      BY <1>1, <2>2 DEF RenameUpgraded
    <3>3. users' = [users EXCEPT ![i] = v] \/ users' = [users EXCEPT ![i] = u]
      BY <1>1, <1>2, <2>2 DEF RenameUpgraded
    <3> HIDE DEF v
    <3> QED BY <1>2, <3>1, <3>2, <3>3
  <2> QED BY <2>1, <2>2
<1>5. PICK reg \in Registration :
        /\ register' = [register EXCEPT ![r] = reg]
        /\ reg.stage = "failed" \/ (reg.stage \in {"rename", "registered"} /\ reg.id = i)
  <2> DEFINE renaming == [register[r] EXCEPT !.stage = "rename"]
  <2>1. renaming \in Registration /\ renaming.stage = "rename" /\ renaming.id = i
    BY <1>1 DEF Registration
  <2>2. \E reg \in {renaming, Registered(r, i), Fails} :
          register' = [register EXCEPT ![r] = reg]
    BY DEF UpdateRole, RenameUpgraded
  <2>3. /\ Fails \in Registration /\ Fails.stage = "failed"
        /\ Registered(r, i) \in Registration /\ Registered(r, i).id = i
        /\ Registered(r, i).stage = "registered"
    BY <1>1, EndsAreTyped
  <2> HIDE DEF renaming, i
  <2> QED BY <2>1, <2>2, <2>3
<1>6. users' \in [Ids -> Account \cup {NoAccount}] /\ Grown /\ users'[i] = v
  <2>1. v # NoAccount
    BY AccountsAreRecords
  <2> HIDE DEF i, u
  <2> QED BY <1>1, <1>2, <1>4, <2>1 DEF Grown, u
<1>7. register'[r] = reg
  BY <1>5 DEF AccountsInv, AccountsTypeOK
<1>8. v # NoAccount
  BY AccountsAreRecords
<1>9. /\ UNCHANGED <<index, token>> /\ misled' \in BOOLEAN /\ (Fault \/ NoFault)
  BY DEF UpdateRole, RenameUpgraded, AccountsInv, AccountsTypeOK
<1> HIDE DEF i, u
<1> QED BY <1>1, <1>4, <1>5, <1>6, <1>7, <1>8, <1>9, GrowthIsSound

(* The other steps leave the calls of Register alone.                      *)
LEMMA OthersKeepAccounts ==
  ASSUME AccountsInv,
         \/ \E i \in Ids : Propagate(i)
         \/ \E d \in Devices : Login(d) \/ \E name \in Names : UpdateProfile(d, name)
  PROVE  AccountsInv' /\ Grown
<1>1. ASSUME NEW i \in Ids, Propagate(i)
      PROVE  AccountsInv' /\ Grown
  <2>1. /\ index' = [index EXCEPT ![i] = users[i]]
        /\ UNCHANGED <<users, register, token, misled, faults>>
    BY <1>1 DEF Propagate
  <2>2. AccountsTypeOK'
    BY <2>1 DEF AccountsInv, AccountsTypeOK
  <2>3. AccountsAgree' /\ RolesHold'
    BY <2>1 DEF AccountsInv, AccountsTypeOK, AccountsAgree, RolesHold
  <2> QED BY <2>1, <2>2, <2>3, StaysGrown DEF AccountsInv
<1>2. ASSUME NEW d \in Devices, Login(d)
      PROVE  AccountsInv' /\ Grown
  <2>1. PICK i \in Taken(index) :
          /\ token' = [token EXCEPT ![d] = [id |-> i, role |-> index[i].role]]
          /\ UNCHANGED <<users, index, register, misled, faults>>
    BY <1>2 DEF Login
  <2>2. i \in Ids /\ index[i] \in Account
    BY DEF Taken, AccountsInv, AccountsTypeOK
  <2> DEFINE tok == [id |-> i, role |-> index[i].role]
  <2>3. tok \in Claims /\ tok.id = i /\ tok.role = index[i].role
    BY <2>2 DEF Claims, Account
  <2>4. /\ users[i] # NoAccount
        /\ index[i].role = "seller" => users[i].role = "seller"
    BY <2>1, <2>2 DEF Taken, AccountsInv, AccountsAgree
  <2>5. token' = [token EXCEPT ![d] = tok]
    BY <2>1
  <2> HIDE DEF tok
  <2>6. AccountsTypeOK'
    BY <2>1, <2>3, <2>5 DEF AccountsInv, AccountsTypeOK
  <2>7. AccountsAgree' /\ RolesHold'
    BY <2>1, <2>2, <2>3, <2>4, <2>5 DEF AccountsInv, AccountsTypeOK, AccountsAgree, RolesHold
  <2> QED BY <2>1, <2>6, <2>7, StaysGrown DEF AccountsInv
<1>3. ASSUME NEW d \in Devices, NEW name \in Names, UpdateProfile(d, name)
      PROVE  AccountsInv' /\ Grown
  <2> DEFINE i == token[d].id
             v == [users[i] EXCEPT !.name = name]
  <2>1. /\ users' = [users EXCEPT ![i] = v]
        /\ UNCHANGED <<index, register, token, misled, faults>>
    BY <1>3 DEF UpdateProfile
  <2>2. i \in Ids /\ users[i] \in Account
    BY <1>3 DEF UpdateProfile, AccountsInv, AccountsTypeOK, AccountsAgree, Claims
  <2>3. v \in Account /\ v.role = users[i].role /\ v # NoAccount
    BY <2>2, RenamedAccount, AccountsAreRecords
  <2> HIDE DEF i, v
  <2>4. /\ users' \in [Ids -> Account \cup {NoAccount}]
        /\ \A j \in Ids : users'[j].role = users[j].role
        /\ \A j \in Ids : users[j] # NoAccount => users'[j] # NoAccount
    BY <2>1, <2>2, <2>3 DEF AccountsInv, AccountsTypeOK
  <2>5. Grown
    BY <2>4 DEF Grown
  <2>6. AccountsTypeOK'
    BY <2>1, <2>4 DEF AccountsInv, AccountsTypeOK
  <2>7. AccountsAgree' /\ RolesHold'
    <3>1. \A e \in Devices : token[e] # NoToken => token[e].id \in Ids
      BY DEF AccountsInv, AccountsTypeOK, Claims
    <3>2. \A e \in Devices : token[e].role = "seller" => token[e] # NoToken
      BY DEF NoToken
    <3> QED BY <2>1, <2>5, <3>1, <3>2 DEF AccountsInv, AccountsAgree, RolesHold, Grown
  <2> QED BY <2>5, <2>6, <2>7 DEF AccountsInv
<1> QED BY <1>1, <1>2, <1>3

LEMMA AccountsKeepInv ==
  ASSUME AccountsInv, AccountsNext
  PROVE  AccountsInv' /\ Grown
<1>1. ASSUME NEW r \in Registrations, RegisterStep(r)
      PROVE  AccountsInv' /\ Grown
  BY <1>1, LookupKeepsAccounts, SaveKeepsAccounts, UpdateKeepsAccounts DEF RegisterStep
<1> QED BY <1>1, OthersKeepAccounts DEF AccountsNext

-----------------------------------------------------------------------------
(* The steps of shops and reviews.                                         *)
ShopTypeOK ==
  /\ shop \in Ids \cup {NoShop} /\ replica \in Ids \cup {NoShop} /\ items \subseteq Ids
  /\ payment \in [Ids -> {"none", "pending", "completed"}]
  /\ reviews \in [ReviewCalls -> Review \cup {NoReview}]
  /\ reviewIndex \subseteq Written
  /\ review \in [ReviewCalls -> ReviewCall]
  /\ update \in [UpdateCalls -> UpdateCall]
  /\ early \in BOOLEAN

ShopInv == ShopTypeOK /\ CallsAgree /\ OwnersAreSellers /\ ReviewersHavePaid

LEMMA PartsOfMarketInv == MarketInv <=> AccountsInv /\ ShopInv
BY DEF MarketInv, AccountsInv, ShopInv, TypeOK, ShopTypeOK

LEMMA AccountsKeepShop ==
  ASSUME ShopInv, Grown, UNCHANGED shopState
  PROVE  ShopInv'
<1>1. ShopTypeOK' /\ CallsAgree' /\ ReviewersHavePaid'
  BY DEF ShopInv, ShopTypeOK, CallsAgree, ReviewersHavePaid, shopState, Written
<1>2. OwnersAreSellers'
  BY DEF ShopInv, ShopTypeOK, OwnersAreSellers, shopState, Grown, NoShop
<1> QED BY <1>1, <1>2 DEF ShopInv

LEMMA ShopKeepsAccounts ==
  ASSUME AccountsInv, UNCHANGED accounts, Fault \/ NoFault
  PROVE  AccountsInv'
<1>1. AccountsTypeOK'
  BY AccountFaultIsTyped DEF AccountsInv, AccountsTypeOK, accounts
<1> QED BY <1>1 DEF AccountsInv, AccountsAgree, RolesHold, accounts

LEMMA EveryStepMayFail == ShopNext => Fault \/ NoFault
BY DEF ShopNext, CreateShop, CreateItem, UpdateReads, ReviewStarts, ReplyToReview,
       UpdatePuts, CheckPayment, LookupReview, SaveReview, IndexReview, Pay, Replicate,
       NoFault

LEMMA SellersHaveAccounts ==
  ASSUME AccountsInv, NEW d \in Devices
  PROVE  /\ token[d] # NoToken => token[d].id \in Ids
         /\ IsSeller(d) => /\ token[d].id \in Ids
                           /\ users[token[d].id].role = "seller"
<1>1. token[d] \in Claims \cup {NoToken}
  BY DEF AccountsInv, AccountsTypeOK
<1> QED BY <1>1 DEF Claims, NoToken, IsSeller, AccountsInv, RolesHold

(* CreateShop is the only step that makes a shop, for a seller.            *)
LEMMA CreateShopKeepsShop ==
  ASSUME AccountsInv, ShopInv, UNCHANGED accounts,
         NEW d \in Devices, CreateShop(d)
  PROVE  ShopInv'
<1>1. token[d].id \in Ids /\ users[token[d].id].role = "seller"
  BY SellersHaveAccounts DEF CreateShop
<1>2. /\ shop = NoShop /\ shop' = token[d].id /\ users' = users
      /\ UNCHANGED <<replica, items, payment, reviews, reviewIndex, review, update, early>>
  BY DEF CreateShop, accounts
<1>3. ShopTypeOK' /\ ReviewersHavePaid'
  BY <1>1, <1>2 DEF ShopInv, ShopTypeOK, ReviewersHavePaid, Written
<1>4. CallsAgree'
  BY <1>2 DEF ShopInv, CallsAgree
<1>5. OwnersAreSellers'
  <2>1. items = {}
    BY <1>2, IdsArePositive DEF ShopInv, ShopTypeOK, OwnersAreSellers, NoShop
  <2> QED BY <1>1, <1>2, <2>1 DEF OwnersAreSellers
<1> QED BY <1>3, <1>4, <1>5 DEF ShopInv

(* Replicate, UpdateReads, UpdatePuts and CreateItem leave the owner be.   *)
LEMMA ShopStepsKeepShop ==
  ASSUME AccountsInv, ShopInv, UNCHANGED accounts,
         \/ Replicate
         \/ \E d \in Devices : CreateItem(d) \/ \E c \in UpdateCalls : UpdateReads(c, d)
         \/ \E c \in UpdateCalls : UpdatePuts(c)
  PROVE  ShopInv'
<1> USE DEF ShopInv
<1>1. ReadShop = {shop, replica} /\ users' = users
  BY DEF ReadShop, accounts
<1>2. CASE Replicate
  BY <1>1, <1>2 DEF Replicate, ShopTypeOK, CallsAgree, OwnersAreSellers, ReviewersHavePaid, Written
<1>3. ASSUME NEW d \in Devices, CreateItem(d)
      PROVE  ShopInv'
  <2>1. token[d].id \in Ids /\ token[d].id = shop
    BY <1>1, <1>3, SellersHaveAccounts, IdsArePositive DEF CreateItem, CallsAgree, NoShop
  <2> QED BY <1>1, <1>3, <2>1
          DEF CreateItem, ShopTypeOK, CallsAgree, OwnersAreSellers, ReviewersHavePaid, Written
<1>4. ASSUME NEW d \in Devices, NEW c \in UpdateCalls, UpdateReads(c, d)
      PROVE  ShopInv'
  <2>1. PICK s \in {shop, replica} :
          update' = [update EXCEPT ![c] =
            IF s = token[d].id THEN [stage |-> "put", read |-> s]
                               ELSE [stage |-> "done", read |-> NoShop]]
    BY <1>1, <1>4 DEF UpdateReads
  <2>2. token[d].id \in Ids /\ token[d].id # NoShop
    BY <1>4, SellersHaveAccounts, IdsArePositive DEF UpdateReads, NoShop
  <2>3. s = token[d].id => s = shop /\ s # NoShop /\ s \in Ids
    BY <2>2 DEF CallsAgree
  <2> DEFINE call == IF s = token[d].id THEN [stage |-> "put", read |-> s]
                                        ELSE [stage |-> "done", read |-> NoShop]
  <2>4. call \in UpdateCall /\ (call.stage = "put" => call.read = shop /\ shop # NoShop)
    BY <2>3 DEF UpdateCall
  <2>5. update' = [update EXCEPT ![c] = call]
    BY <2>1
  <2> HIDE DEF call
  <2>6. UNCHANGED <<shop, replica, items, payment, reviews, reviewIndex, review, early>>
    BY <1>4 DEF UpdateReads
  <2>7. update' \in [UpdateCalls -> UpdateCall]
        /\ \A e \in UpdateCalls : update'[e].stage = "put" =>
             update'[e].read = shop /\ shop # NoShop
    BY <2>4, <2>5 DEF ShopTypeOK, CallsAgree
  <2> QED BY <1>1, <2>6, <2>7
          DEF ShopTypeOK, CallsAgree, OwnersAreSellers, ReviewersHavePaid, Written
<1>5. ASSUME NEW c \in UpdateCalls, UpdatePuts(c)
      PROVE  ShopInv'
  <2>1. UNCHANGED <<shop, replica, items, payment, reviews, reviewIndex, review, early>>
    BY <1>5 DEF UpdatePuts, CallsAgree
  <2>2. update' = [update EXCEPT ![c] = [stage |-> "done", read |-> NoShop]]
    BY <1>5 DEF UpdatePuts
  <2>3. update' \in [UpdateCalls -> UpdateCall]
        /\ \A e \in UpdateCalls : update'[e].stage = "put" =>
             update'[e].read = shop /\ shop # NoShop
    BY <2>2 DEF ShopTypeOK, CallsAgree, UpdateCall
  <2> QED BY <1>1, <2>1, <2>3
          DEF ShopTypeOK, CallsAgree, OwnersAreSellers, ReviewersHavePaid, Written
<1> QED BY <1>2, <1>3, <1>4, <1>5

(* What one call of CreateReview does to itself.                           *)
LEMMA OneReviewMoves ==
  ASSUME ShopInv, UNCHANGED <<shop, replica, items, payment, reviews, reviewIndex, update>>,
         early' \in BOOLEAN, users' = users,
         NEW c \in ReviewCalls, NEW call \in ReviewCall,
         review' = [review EXCEPT ![c] = call],
         call.stage \in {"pay", "look", "save"} => call.by \in Ids,
         call.stage \in {"look", "save"} => payment[call.by] = "completed"
  PROVE  ShopInv'
<1>1. ASSUME NEW e \in ReviewCalls
      PROVE  /\ review'[e].stage \in {"pay", "look", "save"} => review'[e].by \in Ids
             /\ review'[e].stage \in {"look", "save"} =>
                  payment[review'[e].by] = "completed"
  BY DEF ShopInv, ShopTypeOK, CallsAgree
<1>2. ShopTypeOK'
  BY DEF ShopInv, ShopTypeOK, Written
<1>3. CallsAgree' /\ OwnersAreSellers' /\ ReviewersHavePaid'
  BY <1>1 DEF ShopInv, CallsAgree, OwnersAreSellers, ReviewersHavePaid, Written
<1> QED BY <1>2, <1>3 DEF ShopInv

LEMMA LookingMovesOneReview ==
  ASSUME AccountsInv, ShopInv, UNCHANGED accounts, NEW c \in ReviewCalls,
         \/ \E d \in Devices : ReviewStarts(c, d)
         \/ CheckPayment(c) \/ LookupReview(c)
  PROVE  ShopInv'
<1>1. /\ UNCHANGED <<shop, replica, items, payment, reviews, reviewIndex, update>>
      /\ early' \in BOOLEAN /\ users' = users
  BY DEF ReviewStarts, CheckPayment, LookupReview, ShopInv, ShopTypeOK, accounts
<1>2. review[c] \in ReviewCall /\ [stage |-> "done", by |-> 0] \in ReviewCall
  BY DEF ShopInv, ShopTypeOK, ReviewCall
<1>3. CASE ReviewEnds(c)
  <2> DEFINE call == [stage |-> "done", by |-> 0]
  <2>1. review' = [review EXCEPT ![c] = call]
    BY <1>3 DEF ReviewEnds
  <2> QED BY <1>1, <1>2, <2>1, OneReviewMoves
<1>4. ASSUME NEW d \in Devices, ReviewStarts(c, d), ~ReviewEnds(c)
      PROVE  ShopInv'
  <2> DEFINE call == [stage |-> "pay", by |-> token[d].id]
  <2>1. review' = [review EXCEPT ![c] = call] /\ token[d].id \in Ids
    BY <1>4, SellersHaveAccounts DEF ReviewStarts
  <2>2. call \in ReviewCall /\ call.stage = "pay" /\ call.by \in Ids
    BY <2>1 DEF ReviewCall
  <2> HIDE DEF call
  <2> QED BY <1>1, <2>1, <2>2, OneReviewMoves
<1>5. ASSUME NEW stage \in {"look", "save"}, ReviewGoes(c, stage),
             review[c].by \in Ids, payment[review[c].by] = "completed"
      PROVE  ShopInv'
  <2> DEFINE call == [review[c] EXCEPT !.stage = stage]
  <2>1. review' = [review EXCEPT ![c] = call]
    BY <1>5 DEF ReviewGoes
  <2>2. call \in ReviewCall /\ call.by = review[c].by
    BY <1>2 DEF ReviewCall
  <2> HIDE DEF call
  <2> QED BY <1>1, <1>5, <2>1, <2>2, OneReviewMoves
<1>6. CASE CheckPayment(c)
  <2>1. /\ review[c].by \in Ids
        /\ ReviewEnds(c) \/ (payment[review[c].by] = "completed" /\ ReviewGoes(c, "look"))
    BY <1>6 DEF CheckPayment, ShopInv, CallsAgree
  <2> QED BY <1>3, <1>5, <2>1
<1>7. CASE LookupReview(c)
  <2>1. /\ review[c].by \in Ids /\ payment[review[c].by] = "completed"
        /\ ReviewEnds(c) \/ ReviewGoes(c, "save")
    BY <1>7 DEF LookupReview, ShopInv, CallsAgree
  <2> QED BY <1>3, <1>5, <2>1
<1> QED BY <1>3, <1>4, <1>6, <1>7

LEMMA SaveReviewKeepsShop ==
  ASSUME ShopInv, UNCHANGED accounts, NEW c \in ReviewCalls, SaveReview(c)
  PROVE  ShopInv'
<1> DEFINE new == [by |-> review[c].by, replied |-> FALSE]
<1>1. /\ review[c].by \in Ids /\ payment[review[c].by] = "completed"
      /\ review[c] \in ReviewCall
  BY DEF SaveReview, ShopInv, ShopTypeOK, CallsAgree
<1>2. new \in Review /\ new # NoReview /\ new.by = review[c].by
  BY <1>1 DEF Review, NoReview
<1>3. reviews' \in {reviews, [reviews EXCEPT ![c] = new]}
  BY DEF SaveReview
<1>4. /\ UNCHANGED <<shop, replica, items, payment, reviewIndex, update, early, users>>
      /\ review' = [review EXCEPT ![c] = [stage |-> "done", by |-> 0]]
  BY DEF SaveReview, ReviewEnds, accounts
<1> HIDE DEF new
<1>5. /\ reviews' \in [ReviewCalls -> Review \cup {NoReview}]
      /\ Written \subseteq Written'
      /\ \A w \in Written' : payment[reviews'[w].by] = "completed"
  BY <1>1, <1>2, <1>3 DEF ShopInv, ShopTypeOK, ReviewersHavePaid, Written
<1>6. review' \in [ReviewCalls -> ReviewCall]
  BY <1>4 DEF ShopInv, ShopTypeOK, ReviewCall
<1>7. \A e \in ReviewCalls : e # c => review'[e] = review[e]
  BY <1>4 DEF ShopInv, ShopTypeOK
<1>8. review'[c].stage = "done"
  BY <1>4 DEF ShopInv, ShopTypeOK
<1>9. ShopTypeOK'
  BY <1>4, <1>5, <1>6 DEF ShopInv, ShopTypeOK
<1>10. CallsAgree' /\ OwnersAreSellers' /\ ReviewersHavePaid'
  BY <1>4, <1>5, <1>7, <1>8 DEF ShopInv, CallsAgree, OwnersAreSellers, ReviewersHavePaid
<1> QED BY <1>9, <1>10 DEF ShopInv

LEMMA ReviewStepsKeepShop ==
  ASSUME AccountsInv, ShopInv, UNCHANGED accounts,
         \/ \E c \in ReviewCalls :
              IndexReview(c) \/ \E d \in Devices : ReplyToReview(c, d)
         \/ \E i \in Ids : Pay(i)
  PROVE  ShopInv'
<1> USE DEF ShopInv
<1>1. users' = users
  BY DEF accounts
<1>2. ASSUME NEW c \in ReviewCalls, IndexReview(c)
      PROVE  ShopInv'
  BY <1>1, <1>2
     DEF IndexReview, ShopTypeOK, CallsAgree, OwnersAreSellers, ReviewersHavePaid, Written
<1>3. ASSUME NEW c \in ReviewCalls, NEW d \in Devices, ReplyToReview(c, d)
      PROVE  ShopInv'
  <2> DEFINE new == [reviews[c] EXCEPT !.replied = TRUE]
  <2>1. /\ UNCHANGED <<shop, replica, items, payment, reviewIndex, review, update, early>>
        /\ reviews' = [reviews EXCEPT ![c] = new] /\ c \in Written
    BY <1>3 DEF ReplyToReview
  <2>2. reviews[c] \in Review
    BY <2>1 DEF Written, ShopTypeOK
  <2>3. new \in Review /\ new.by = reviews[c].by /\ new # NoReview
    BY <2>2 DEF Review, NoReview
  <2> HIDE DEF new
  <2>4. /\ reviews' \in [ReviewCalls -> Review \cup {NoReview}]
        /\ Written' = Written
        /\ \A w \in Written : reviews'[w].by = reviews[w].by
    BY <2>1, <2>3 DEF ShopTypeOK, Written
  <2> QED BY <1>1, <2>1, <2>4 DEF ShopTypeOK, CallsAgree, OwnersAreSellers, ReviewersHavePaid
<1>4. ASSUME NEW i \in Ids, Pay(i)
      PROVE  ShopInv'
  <2>1. /\ UNCHANGED <<shop, replica, items, reviews, reviewIndex, review, update, early>>
        /\ payment' \in [Ids -> {"none", "pending", "completed"}]
        /\ \A j \in Ids : payment[j] = "completed" => payment'[j] = "completed"
    BY <1>4 DEF Pay, ShopTypeOK
  <2>2. /\ \A w \in Written : reviews[w].by \in Ids
        /\ Written' = Written
    BY <2>1 DEF ShopTypeOK, Written, Review
  <2> QED BY <1>1, <2>1, <2>2 DEF ShopTypeOK, CallsAgree, OwnersAreSellers, ReviewersHavePaid
<1> QED BY <1>2, <1>3, <1>4

LEMMA ShopKeepsInv ==
  ASSUME AccountsInv, ShopInv, ShopNext, UNCHANGED accounts
  PROVE  ShopInv'
<1>1. \/ \E d \in Devices : CreateShop(d)
      \/ \E d \in Devices : CreateItem(d) \/ \E c \in UpdateCalls : UpdateReads(c, d)
      \/ \E c \in UpdateCalls : UpdatePuts(c)
      \/ Replicate
      \/ \E c \in ReviewCalls :
            \/ \E d \in Devices : ReviewStarts(c, d)
            \/ CheckPayment(c) \/ LookupReview(c)
      \/ \E c \in ReviewCalls : SaveReview(c)
      \/ \E c \in ReviewCalls : IndexReview(c) \/ \E d \in Devices : ReplyToReview(c, d)
      \/ \E i \in Ids : Pay(i)
  BY DEF ShopNext
<1> QED BY <1>1, CreateShopKeepsShop, ShopStepsKeepShop, LookingMovesOneReview,
           SaveReviewKeepsShop, ReviewStepsKeepShop

-----------------------------------------------------------------------------
LEMMA InitIsSound == Init => MarketInv
<1> SUFFICES ASSUME Init PROVE MarketInv
  OBVIOUS
<1>1. AccountsTypeOK
  <2>1. 0 \in 0..MaxFaults
    BY AccountBounds
  <2>2. InitAccounts
    BY DEF Init
  <2>3. users \in [Ids -> Account \cup {NoAccount}] /\ index \in [Ids -> Account \cup {NoAccount}]
    BY <2>2 DEF InitAccounts
  <2>4. register \in [Registrations -> Registration] /\ token \in [Devices -> Claims \cup {NoToken}]
    BY <2>2, NewIsTyped DEF InitAccounts
  <2> QED BY <2>1, <2>2, <2>3, <2>4 DEF InitAccounts, AccountsTypeOK
<1>2. AccountsAgree /\ RolesHold
  BY NewIsTyped DEF Init, InitAccounts, AccountsAgree, RolesHold, NoAccount, NoToken
<1>3. ShopTypeOK
  BY DEF Init, ShopTypeOK, NoShop, Written, ReviewCall, UpdateCall
<1>4. CallsAgree /\ OwnersAreSellers /\ ReviewersHavePaid
  BY DEF Init, CallsAgree, OwnersAreSellers, ReviewersHavePaid, NoShop, Written, NoReview
<1> QED BY <1>1, <1>2, <1>3, <1>4, PartsOfMarketInv DEF AccountsInv, ShopInv

LEMMA StepKeepsMarket == MarketInv /\ [Next]_vars => MarketInv'
<1> SUFFICES ASSUME AccountsInv, ShopInv, [Next]_vars
             PROVE  AccountsInv' /\ ShopInv'
  BY PartsOfMarketInv DEF MarketInv, AccountsInv, ShopInv, TypeOK, ShopTypeOK
<1>1. CASE AccountsNext /\ UNCHANGED shopState
  BY <1>1, AccountsKeepInv, AccountsKeepShop
<1>2. CASE ShopNext /\ UNCHANGED accounts
  BY <1>2, EveryStepMayFail, ShopKeepsAccounts, ShopKeepsInv
<1>3. CASE UNCHANGED vars
  BY <1>3, StaysGrown, AccountsKeepShop, ShopKeepsAccounts DEF vars, accounts, NoFault
<1> QED BY <1>1, <1>2, <1>3 DEF Next

(* Roles, shops and reviews agree with the accounts and payments that they *)
(* rest on (service.go of shop and user), whatever order calls, index      *)
(* updates and faults come in.                                             *)
THEOREM MarketIsSound == Spec => []MarketInv
BY InitIsSound, StepKeepsMarket, PTL DEF Spec

(* A role that was granted stays: no old token and no old index entry      *)
(* takes it away (user service.go, UpdateProfile and Register).            *)
THEOREM RolesAreKept == Spec => []RolesHold
<1>1. MarketInv => RolesHold
  BY DEF MarketInv
<1> QED BY <1>1, MarketIsSound, PTL

(* A shop and its items stay with one seller (shop service.go).            *)
THEOREM OwnersStaySellers == Spec => []OwnersAreSellers
<1>1. MarketInv => OwnersAreSellers
  BY DEF MarketInv
<1> QED BY <1>1, MarketIsSound, PTL

(* Nobody reviews an auction without a completed payment (shop service.go, *)
(* CreateReview).                                                          *)
THEOREM OnlyPayersReview == Spec => []ReviewersHavePaid
<1>1. MarketInv => ReviewersHavePaid
  BY DEF MarketInv
<1> QED BY <1>1, MarketIsSound, PTL

-----------------------------------------------------------------------------
(* One account to an address.                                              *)

(* A step that saves nothing new and prepares no save.                     *)
LEMMA QuietKeepsAddress ==
  ASSUME AddressFree, UNCHANGED misled, Taken(users') \subseteq Taken(users),
         Saving' \subseteq Saving
  PROVE  AddressFree'
<1>1. Taken(users)' = Taken(users')
  BY DEF Taken
<1> QED BY <1>1 DEF AddressFree

(* A call of Register that goes on, to anything but a save.                *)
LEMMA GoingOnSavesNothing ==
  ASSUME AccountsInv, NEW r \in Registrations, NEW reg,
         register' = [register EXCEPT ![r] = reg], reg.stage # "save"
  PROVE  Saving' \subseteq Saving \ {r}
<1>1. register \in [Registrations -> Registration]
  BY DEF AccountsInv, AccountsTypeOK
<1> QED BY <1>1 DEF Saving

(* An account that is changed was there.                                   *)
LEMMA ChangedWasTaken ==
  ASSUME AccountsInv, NEW i \in Ids, users[i] # NoAccount, NEW v,
         users' \in {users, [users EXCEPT ![i] = v]}
  PROVE  Taken(users') \subseteq Taken(users)
<1>1. users \in [Ids -> Account \cup {NoAccount}]
  BY DEF AccountsInv, AccountsTypeOK
<1> QED BY <1>1 DEF Taken

LEMMA LookupKeepsAddress ==
  ASSUME AccountsInv, AddressFree, NEW r \in Registrations, NEW role \in Roles,
         NEW name \in Names,
         \/ LookupFindsNone(r, role, name)
         \/ \E confirm \in BOOLEAN : LookupFindsAccount(r, role, name, confirm)
  PROVE  AddressFree'
<1>1. CASE LookupFindsNone(r, role, name)
  <2>1. /\ users' = users /\ register \in [Registrations -> Registration]
        /\ misled' = (misled \/ Taken(users) # {} \/ Saving # {})
    BY <1>1 DEF LookupFindsNone, Saving, AccountsInv, AccountsTypeOK
  <2>2. Saving' \subseteq Saving \cup {r}
    BY <1>1, <2>1 DEF LookupFindsNone, Saving
  <2>3. Taken(users)' = Taken(users)
    BY <2>1 DEF Taken
  <2>4. misled' \/ (Taken(users) = {} /\ Saving = {})
    BY <2>1
  <2>5. CASE Taken(users) = {} /\ Saving = {}
    BY <2>2, <2>3, <2>5 DEF AddressFree
  <2>6. CASE misled'
    BY <2>6 DEF AddressFree
  <2> QED BY <2>4, <2>5, <2>6
<1>2. ASSUME NEW confirm \in BOOLEAN, LookupFindsAccount(r, role, name, confirm)
      PROVE  AddressFree'
  <2>1. PICK i \in Taken(index) :
          \/ register' = [register EXCEPT ![r] =
               [stage |-> "upgrade", role |-> role, name |-> name, id |-> i,
                rename |-> name # index[i].name]]
          \/ register' = [register EXCEPT ![r] = [register[r] EXCEPT !.stage = "failed"]]
    BY <1>2 DEF LookupFindsAccount
  <2>2. register[r] \in Registration
    BY DEF AccountsInv, AccountsTypeOK
  <2>3. [register[r] EXCEPT !.stage = "failed"].stage = "failed"
    BY <2>2 DEF Registration
  <2>4. Saving' \subseteq Saving \ {r}
    <3> DEFINE upgrading == [stage |-> "upgrade", role |-> role, name |-> name, id |-> i,
                             rename |-> name # index[i].name]
               failed == [register[r] EXCEPT !.stage = "failed"]
    <3>1. /\ upgrading.stage # "save" /\ failed.stage # "save"
          /\ \/ register' = [register EXCEPT ![r] = upgrading]
             \/ register' = [register EXCEPT ![r] = failed]
      BY <2>1, <2>3
    <3> HIDE DEF upgrading, failed
    <3> QED BY <3>1, GoingOnSavesNothing
  <2>5. UNCHANGED misled /\ users' = users
    BY <1>2 DEF LookupFindsAccount
  <2> QED BY <2>4, <2>5, QuietKeepsAddress
<1> QED BY <1>1, <1>2

LEMMA SaveKeepsAddress ==
  ASSUME AccountsInv, AddressFree, NEW r \in Registrations, SaveUser(r)
  PROVE  AddressFree'
<1>a. PICK i \in Ids \ Taken(users) : \E v :
        /\ users' \in {users, [users EXCEPT ![i] = v]}
        /\ register' \in {[register EXCEPT ![r] = Registered(r, i)],
                          [register EXCEPT ![r] = Fails]}
        /\ UNCHANGED misled
  BY DEF SaveUser
<1>1. PICK v :
        /\ users' \in {users, [users EXCEPT ![i] = v]}
        /\ register' \in {[register EXCEPT ![r] = Registered(r, i)],
                          [register EXCEPT ![r] = Fails]}
        /\ UNCHANGED misled
  BY <1>a
<1>2. Fails.stage = "failed" /\ Registered(r, i).stage = "registered"
  BY <1>1, EndsAreTyped
<1>3. Saving' \subseteq Saving \ {r} /\ r \in Saving
  BY <1>1, <1>2, GoingOnSavesNothing DEF SaveUser, Saving
<1>4. Taken(users') \subseteq Taken(users) \cup {i}
  BY <1>1 DEF Taken, AccountsInv, AccountsTypeOK
<1>5. Taken(users)' = Taken(users')
  BY DEF Taken
<1> QED BY <1>1, <1>3, <1>4, <1>5 DEF AddressFree

LEMMA UpdateKeepsAddress ==
  ASSUME AccountsInv, AddressFree, NEW r \in Registrations,
         UpdateRole(r) \/ RenameUpgraded(r)
  PROVE  AddressFree'
<1> DEFINE i == register[r].id
           renaming == [register[r] EXCEPT !.stage = "rename"]
<1>1. /\ register[r] \in Registration /\ i \in Ids /\ users[i] # NoAccount
  BY DEF UpdateRole, RenameUpgraded, AccountsInv, AccountsTypeOK, AccountsAgree
<1>2. \E reg \in {renaming, Registered(r, i), Fails} :
        register' = [register EXCEPT ![r] = reg]
  BY DEF UpdateRole, RenameUpgraded
<1>3. \E v : users' \in {users, [users EXCEPT ![i] = v]}
  BY DEF UpdateRole, RenameUpgraded
<1>4. Fails.stage = "failed" /\ Registered(r, i).stage = "registered"
  BY <1>1, EndsAreTyped
<1>5. renaming.stage = "rename"
  BY <1>1 DEF Registration
<1> HIDE DEF i, renaming
<1>6. Saving' \subseteq Saving
  BY <1>2, <1>4, <1>5, GoingOnSavesNothing
<1>7. Taken(users') \subseteq Taken(users)
  BY <1>1, <1>3, ChangedWasTaken
<1>8. UNCHANGED misled
  BY DEF UpdateRole, RenameUpgraded
<1> QED BY <1>6, <1>7, <1>8, QuietKeepsAddress

LEMMA AccountsKeepAddress ==
  ASSUME AccountsInv, AddressFree, AccountsNext
  PROVE  AddressFree'
<1>1. ASSUME NEW r \in Registrations, RegisterStep(r)
      PROVE  AddressFree'
  BY <1>1, LookupKeepsAddress, SaveKeepsAddress, UpdateKeepsAddress DEF RegisterStep
<1>2. ASSUME NEW i \in Ids, Propagate(i)
      PROVE  AddressFree'
  BY <1>2, QuietKeepsAddress DEF Propagate, Saving
<1>3. ASSUME NEW d \in Devices, Login(d)
      PROVE  AddressFree'
  BY <1>3, QuietKeepsAddress DEF Login, Saving
<1>4. ASSUME NEW d \in Devices, NEW name \in Names, UpdateProfile(d, name)
      PROVE  AddressFree'
  <2>1. /\ token[d].id \in Ids /\ users[token[d].id] # NoAccount
    BY <1>4 DEF UpdateProfile, AccountsInv, AccountsTypeOK, AccountsAgree, Claims
  <2>2. \E v : users' \in {users, [users EXCEPT ![token[d].id] = v]}
    BY <1>4 DEF UpdateProfile
  <2>3. UNCHANGED misled /\ Saving' = Saving
    BY <1>4 DEF UpdateProfile, Saving
  <2> QED BY <2>1, <2>2, <2>3, ChangedWasTaken, QuietKeepsAddress
<1> QED BY <1>1, <1>2, <1>3, <1>4 DEF AccountsNext

(* However registrations, upgrades, renames, logins and faults interleave, *)
(* an address has one account, unless a lookup came too early or failed    *)
(* (user service.go, Register).                                            *)
THEOREM AddressHasOneAccount == Spec => []OneAccount
<1>1. Init => AddressFree
  <2> SUFFICES ASSUME Init PROVE AddressFree
    OBVIOUS
  <2>1. Taken(users) = {} /\ Saving = {}
    BY NewIsTyped DEF Init, InitAccounts, Taken, Saving
  <2> QED BY <2>1 DEF AddressFree
<1>2. MarketInv /\ AddressFree /\ [Next]_vars => AddressFree'
  <2> SUFFICES ASSUME MarketInv, AddressFree, [Next]_vars PROVE AddressFree'
    OBVIOUS
  <2>1. AccountsInv
    BY PartsOfMarketInv
  <2>2. CASE AccountsNext
    BY <2>1, <2>2, AccountsKeepAddress
  <2>3. CASE UNCHANGED accounts
    BY <2>3, QuietKeepsAddress DEF accounts, Saving
  <2> QED BY <2>2, <2>3 DEF Next, vars
<1>3. ASSUME MarketInv, AddressFree PROVE OneAccount
  <2>1. CASE Taken(users) = {}
    BY <2>1, FS_EmptySet DEF OneAccount
  <2>2. ASSUME NEW i \in Taken(users), ~misled
        PROVE  Cardinality(Taken(users)) = 1
    <3>1. Taken(users) = {i}
      BY <1>3, <2>2 DEF AddressFree
    <3> QED BY <3>1, FS_Singleton
  <2> QED BY <2>1, <2>2 DEF OneAccount
<1>4. Spec => []AddressFree
  BY <1>1, <1>2, MarketIsSound, PTL DEF Spec
<1> QED BY <1>3, <1>4, MarketIsSound, PTL

-----------------------------------------------------------------------------
(* One review of a buyer.                                                  *)

(* A step that writes no review and prepares none.                         *)
LEMMA QuietKeepsBuyers ==
  ASSUME BuyersFree, UNCHANGED early, Written' \subseteq Written,
         \A w \in Written' : reviews'[w].by = reviews[w].by,
         SavingReview' \subseteq SavingReview,
         \A c \in SavingReview' : review'[c].by = review[c].by
  PROVE  BuyersFree'
BY DEF BuyersFree

(* A call of CreateReview that goes on, to anything but a save.            *)
LEMMA GoingOnReviewsNothing ==
  ASSUME ShopInv, NEW c \in ReviewCalls, NEW call,
         review' = [review EXCEPT ![c] = call], call.stage # "save"
  PROVE  /\ SavingReview' \subseteq SavingReview \ {c}
         /\ \A e \in SavingReview' : review'[e].by = review[e].by
<1>1. review \in [ReviewCalls -> ReviewCall]
  BY DEF ShopInv, ShopTypeOK
<1> QED BY <1>1 DEF SavingReview

LEMMA LookupKeepsBuyers ==
  ASSUME ShopInv, BuyersFree, NEW c \in ReviewCalls, LookupReview(c)
  PROVE  BuyersFree'
<1>1. /\ review \in [ReviewCalls -> ReviewCall] /\ review[c] \in ReviewCall
      /\ UNCHANGED reviews /\ Written' = Written
      /\ early' = (early \/ (~Reviewed(c) /\ Pending(c)))
  BY DEF ShopInv, ShopTypeOK, LookupReview, Written
<1>2. CASE ReviewEnds(c)
  <2> DEFINE call == [stage |-> "done", by |-> 0]
  <2>1. review' = [review EXCEPT ![c] = call] /\ call.stage # "save"
    BY <1>2 DEF ReviewEnds
  <2>2. /\ SavingReview' \subseteq SavingReview \ {c}
        /\ \A e \in SavingReview' : review'[e].by = review[e].by
    BY <2>1, GoingOnReviewsNothing
  <2> QED BY <1>1, <2>2 DEF BuyersFree
<1>3. CASE ~Reviewed(c) /\ ReviewGoes(c, "save")
  <2>1. SUFFICES ASSUME ~early, ~Pending(c) PROVE BuyersFree'
    BY <1>1, <1>3 DEF BuyersFree
  <2>2. /\ SavingReview' = SavingReview \cup {c}
        /\ \A e \in SavingReview' : review'[e].by = review[e].by
    BY <1>1, <1>3 DEF ReviewGoes, SavingReview, ReviewCall
  <2>3. /\ \A w \in Written : reviews[w].by # review[c].by
        /\ \A e \in SavingReview : review[e].by # review[c].by
    BY <2>1 DEF Pending, SavingReview
  <2> QED BY <1>1, <2>1, <2>2, <2>3 DEF BuyersFree
<1>4. ReviewEnds(c) \/ (~Reviewed(c) /\ ReviewGoes(c, "save"))
  BY DEF LookupReview
<1> QED BY <1>2, <1>3, <1>4

LEMMA SaveKeepsBuyers ==
  ASSUME ShopInv, BuyersFree, NEW c \in ReviewCalls, SaveReview(c)
  PROVE  BuyersFree'
<1> DEFINE new == [by |-> review[c].by, replied |-> FALSE]
           call == [stage |-> "done", by |-> 0]
<1>1. /\ review' = [review EXCEPT ![c] = call] /\ call.stage # "save"
      /\ UNCHANGED early /\ c \in SavingReview
      /\ reviews' \in {reviews, [reviews EXCEPT ![c] = new]}
      /\ reviews \in [ReviewCalls -> Review \cup {NoReview}]
  BY DEF SaveReview, ReviewEnds, SavingReview, ShopInv, ShopTypeOK
<1>2. /\ SavingReview' \subseteq SavingReview \ {c}
      /\ \A e \in SavingReview' : review'[e].by = review[e].by
  BY <1>1, GoingOnReviewsNothing
<1>3. new.by = review[c].by
  OBVIOUS
<1> HIDE DEF new, call
<1>4. \A w \in Written' : \/ w \in Written /\ reviews'[w].by = reviews[w].by
                          \/ w = c /\ reviews'[w].by = review[c].by
  BY <1>1, <1>3 DEF Written
<1> QED BY <1>1, <1>2, <1>4 DEF BuyersFree

LEMMA ShopKeepsBuyers ==
  ASSUME ShopInv, BuyersFree, ShopNext
  PROVE  BuyersFree'
<1>1. ASSUME UNCHANGED <<early, reviews, review>>
      PROVE  BuyersFree'
  BY <1>1, QuietKeepsBuyers DEF Written, SavingReview
<1>2. ASSUME NEW d \in Devices, CreateShop(d) \/ CreateItem(d)
      PROVE  BuyersFree'
  BY <1>1, <1>2 DEF CreateShop, CreateItem
<1>3. ASSUME NEW c \in UpdateCalls, UpdatePuts(c) \/ \E d \in Devices : UpdateReads(c, d)
      PROVE  BuyersFree'
  BY <1>1, <1>3 DEF UpdatePuts, UpdateReads
<1>4. ASSUME NEW c \in ReviewCalls, CheckPayment(c) \/ \E d \in Devices : ReviewStarts(c, d)
      PROVE  BuyersFree'
  <2>1. UNCHANGED <<early, reviews>> /\ review[c] \in ReviewCall
    BY <1>4 DEF CheckPayment, ReviewStarts, ShopInv, ShopTypeOK
  <2>2. PICK call : review' = [review EXCEPT ![c] = call] /\ call.stage \in {"done", "pay", "look"}
    <3>1. [review[c] EXCEPT !.stage = "look"].stage = "look"
      BY <2>1 DEF ReviewCall
    <3> QED BY <1>4, <3>1 DEF CheckPayment, ReviewStarts, ReviewGoes, ReviewEnds
  <2>3. /\ SavingReview' \subseteq SavingReview
        /\ \A e \in SavingReview' : review'[e].by = review[e].by
    BY <2>2, GoingOnReviewsNothing
  <2> QED BY <2>1, <2>3, QuietKeepsBuyers DEF Written
<1>5. ASSUME NEW c \in ReviewCalls, NEW d \in Devices, ReplyToReview(c, d)
      PROVE  BuyersFree'
  <2>1. /\ reviews' = [reviews EXCEPT ![c] = [reviews[c] EXCEPT !.replied = TRUE]]
        /\ c \in Written /\ UNCHANGED <<early, review>>
        /\ reviews \in [ReviewCalls -> Review \cup {NoReview}]
    BY <1>5 DEF ReplyToReview, ShopInv, ShopTypeOK
  <2>2. reviews[c] \in Review
    BY <2>1 DEF Written
  <2> DEFINE new == [reviews[c] EXCEPT !.replied = TRUE]
  <2>3. new.by = reviews[c].by
    BY <2>2 DEF Review
  <2>4. reviews' = [reviews EXCEPT ![c] = new]
    BY <2>1
  <2> HIDE DEF new
  <2>5. /\ Written' \subseteq Written
        /\ \A w \in Written' : reviews'[w].by = reviews[w].by
    BY <2>1, <2>3, <2>4 DEF Written
  <2> QED BY <2>1, <2>5, QuietKeepsBuyers DEF SavingReview
<1>6. ASSUME NEW c \in ReviewCalls, IndexReview(c)
      PROVE  BuyersFree'
  BY <1>1, <1>6 DEF IndexReview
<1>7. ASSUME NEW i \in Ids, Pay(i)
      PROVE  BuyersFree'
  BY <1>1, <1>7 DEF Pay
<1>8. CASE Replicate
  BY <1>1, <1>8 DEF Replicate
<1> QED BY <1>2, <1>3, <1>4, <1>5, <1>6, <1>7, <1>8, LookupKeepsBuyers, SaveKeepsBuyers
        DEF ShopNext

(* A buyer has one review of an auction at most, however calls, replies    *)
(* and faults interleave, unless the lookup of a second call came before   *)
(* the review of the first was in the index (shop service.go,              *)
(* CreateReview).                                                          *)
THEOREM BuyersReviewOnce == Spec => []OneReviewPerBuyer
<1>1. Init => BuyersFree
  BY DEF Init, BuyersFree, Written, SavingReview
<1>2. MarketInv /\ BuyersFree /\ [Next]_vars => BuyersFree'
  <2> SUFFICES ASSUME MarketInv, BuyersFree, [Next]_vars PROVE BuyersFree'
    OBVIOUS
  <2>1. ShopInv
    BY PartsOfMarketInv
  <2>2. CASE ShopNext
    BY <2>1, <2>2, ShopKeepsBuyers
  <2>3. CASE UNCHANGED shopState
    BY <2>3, QuietKeepsBuyers DEF shopState, Written, SavingReview
  <2> QED BY <2>2, <2>3 DEF Next, vars
<1>3. BuyersFree => OneReviewPerBuyer
  BY DEF BuyersFree, OneReviewPerBuyer
<1>4. Spec => []BuyersFree
  BY <1>1, <1>2, MarketIsSound, PTL DEF Spec
<1> QED BY <1>3, <1>4, PTL
=============================================================================
