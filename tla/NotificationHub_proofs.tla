----------------------- MODULE NotificationHub_proofs -----------------------
(***************************************************************************)
(* Proofs about the notification service, for any number of auctions,      *)
(* clients, workers, calls that mark the inbox, stories and faults.        *)
(* HubInv is inductive.  Its parts are proved one after another, each with *)
(* a general lemma about what a step may do (AudienceKept, TimesKept and   *)
(* QuietKeepsInbox, CountedKept, LossesKept) and a lemma for each action.  *)
(* Before them come trimming and marking, as facts about sets of entries.  *)
(***************************************************************************)
EXTENDS NotificationHub, FiniteSetTheorems, TLAPS

-----------------------------------------------------------------------------
(* Entries by their time of creation *)

LEMMA LeastNumber ==
  ASSUME NEW S, S \subseteq Nat, S # {}
  PROVE  \E x \in S : \A y \in S : x <= y
<1>1. PICK n \in S : TRUE
  OBVIOUS
<1> DEFINE B == 0..n
<1>2. IsFiniteSet(B)
  BY <1>1, FS_Interval
<1> DEFINE Under(x) == {y \in B : y < x}
           T == {Under(x) : x \in S \cap B}
<1>3. T \subseteq FiniteSubsetsOf(B) /\ T # {}
  <2>1. \A x : IsFiniteSet(Under(x)) /\ Under(x) \subseteq B
    BY <1>2, FS_Subset
  <2>2. n \in S \cap B
    BY <1>1
  <2> QED BY <2>1, <2>2 DEF FiniteSubsetsOf
<1>4. IsWellFoundedOn(StrictSubsetOrdering(B), FiniteSubsetsOf(B))
  BY FS_StrictSubsetOrderingWellFounded
<1>5. PICK m \in T : \A t \in T : <<t, m>> \notin StrictSubsetOrdering(B)
  <2> HIDE DEF T
  <2> QED BY <1>3, <1>4, WFMin
<1>6. PICK x \in S \cap B : m = Under(x)
  OBVIOUS
<1>7. ASSUME NEW y \in S
      PROVE  x <= y
  <2>1. SUFFICES ASSUME y < x PROVE FALSE
    BY <1>6
  <2>2. y \in S \cap B
    BY <1>1, <1>6, <2>1
  <2>3. Under(y) \subseteq Under(x) /\ y \in Under(x) /\ y \notin Under(y)
    BY <1>6, <2>1, <2>2
  <2>4. <<Under(y), m>> \in StrictSubsetOrdering(B)
    BY <2>3, <1>6 DEF StrictSubsetOrdering
  <2> QED BY <2>2, <2>4, <1>5
<1> QED BY <1>6, <1>7

LEMMA OldestExists ==
  ASSUME NEW S, S \subseteq Entry, S # {}
  PROVE  \E e \in S : \A f \in S : e.at <= f.at
<1> DEFINE T == {e.at : e \in S}
<1>1. T \subseteq Nat /\ T # {}
  BY DEF Entry
<1>2. PICK n \in T : \A k \in T : n <= k
  <2> HIDE DEF T
  <2> QED BY <1>1, LeastNumber
<1> QED BY <1>2

LEMMA NewestExists ==
  ASSUME NEW S, S \subseteq Entry, S # {}, NEW n \in Nat, \A e \in S : e.at <= n
  PROVE  \E e \in S : \A f \in S : f.at <= e.at
<1> DEFINE T == {n - e.at : e \in S}
<1>1. T \subseteq Nat /\ T # {}
  BY DEF Entry
<1>2. PICK m \in T : \A k \in T : m <= k
  <2> HIDE DEF T
  <2> QED BY <1>1, LeastNumber
<1>3. PICK e \in S : m = n - e.at
  OBVIOUS
<1>4. \A f \in S : f.at \in Nat
  BY DEF Entry
<1>5. ASSUME NEW f \in S PROVE f.at <= e.at
  <2>1. n - f.at \in T
    OBVIOUS
  <2>2. m <= n - f.at
    BY <2>1, <1>2
  <2> QED BY <2>2, <1>3, <1>4
<1> QED BY <1>5

-----------------------------------------------------------------------------
(* What trimming does *)

Newer(S, e) == {f \in S : f.at > e.at}

LEMMA NewerIsFinite ==
  ASSUME NEW S, IsFiniteSet(S), NEW e
  PROVE  IsFiniteSet(Newer(S, e)) /\ Cardinality(Newer(S, e)) \in Nat
BY FS_Subset, FS_CardinalityType DEF Newer

LEMMA TrimmedIsPart ==
  ASSUME NEW S, IsFiniteSet(S)
  PROVE  /\ Trimmed(S) = {e \in S : Cardinality(Newer(S, e)) < MaxNotifications}
         /\ Trimmed(S) \subseteq S /\ IsFiniteSet(Trimmed(S))
         /\ Cardinality(Trimmed(S)) \in Nat
<1>1. Trimmed(S) = {e \in S : Cardinality(Newer(S, e)) < MaxNotifications}
  BY DEF Trimmed, Newer
<1>2. Trimmed(S) \subseteq S
  BY <1>1
<1> QED BY <1>1, <1>2, FS_Subset, FS_CardinalityType

(* Entries of different times: at most MaxNotifications are left.          *)
LEMMA TrimmedFits ==
  ASSUME NEW S, IsFiniteSet(S), S \subseteq Entry,
         \A e, f \in S : e.at = f.at => e = f
  PROVE  Cardinality(Trimmed(S)) <= MaxNotifications
<1>1. CASE Trimmed(S) = {}
  BY <1>1, FS_EmptySet, HubBounds
<1>2. CASE Trimmed(S) # {}
  <2>1. PICK e \in Trimmed(S) : \A f \in Trimmed(S) : e.at <= f.at
    BY <1>2, OldestExists, TrimmedIsPart
  <2>2. Trimmed(S) \ {e} \subseteq Newer(S, e)
    <3>1. \A f \in S : f.at \in Nat
      BY DEF Entry
    <3> QED BY <2>1, <3>1, TrimmedIsPart DEF Newer
  <2>3. Cardinality(Trimmed(S) \ {e}) <= Cardinality(Newer(S, e))
    BY <2>2, NewerIsFinite, FS_Subset
  <2>4. Cardinality(Newer(S, e)) < MaxNotifications
    BY <2>1, TrimmedIsPart
  <2>5. Cardinality(Trimmed(S) \ {e}) = Cardinality(Trimmed(S)) - 1
    BY <2>1, TrimmedIsPart, FS_RemoveElement
  <2> QED BY <2>3, <2>4, <2>5, NewerIsFinite, TrimmedIsPart, HubBounds
<1> QED BY <1>1, <1>2

(* What is trimmed away leaves a full inbox behind.                        *)
LEMMA TrimmedIsFull ==
  ASSUME NEW S, IsFiniteSet(S), S \subseteq Entry, Trimmed(S) # S,
         NEW n \in Nat, \A e \in S : e.at <= n
  PROVE  Cardinality(Trimmed(S)) >= MaxNotifications
<1> DEFINE Gone == S \ Trimmed(S)
<1>1. Gone # {} /\ Gone \subseteq Entry
  BY TrimmedIsPart
<1>2. PICK e \in Gone : \A f \in Gone : f.at <= e.at
  <2> HIDE DEF Gone
  <2>1. \A f \in Gone : f.at <= n
    BY DEF Gone
  <2> QED BY <1>1, <2>1, NewestExists
<1>3. Newer(S, e) \subseteq Trimmed(S)
  <2>1. \A f \in S : f.at \in Nat
    BY DEF Entry
  <2> QED BY <1>2, <2>1 DEF Newer
<1>4. Cardinality(Newer(S, e)) <= Cardinality(Trimmed(S))
  BY <1>3, TrimmedIsPart, FS_Subset
<1>5. ~(Cardinality(Newer(S, e)) < MaxNotifications)
  BY <1>2, TrimmedIsPart
<1> QED BY <1>4, <1>5, NewerIsFinite, TrimmedIsPart, HubBounds

-----------------------------------------------------------------------------
(* What marking does *)

LEMMA NoEntryIsNone == NoEntry \notin Entry
<1>1. "key" \notin DOMAIN NoEntry
  BY DEF NoEntry
<1>2. \A e \in Entry : "key" \in DOMAIN e
  BY DEF Entry
<1> QED BY <1>1, <1>2

LEMMA EntryIsItsParts ==
  ASSUME NEW e \in Entry, NEW f \in Entry, e.key = f.key, e.at = f.at, e.read = f.read
  PROVE  e = f
<1>1. e = [key |-> e.key, at |-> e.at, read |-> e.read]
  BY DEF Entry
<1>2. f = [key |-> f.key, at |-> f.at, read |-> f.read]
  BY DEF Entry
<1> QED BY <1>1, <1>2

LEMMA ReadIsEntry ==
  ASSUME NEW e \in Entry
  PROVE  /\ AsRead(e) \in Entry /\ AsRead(e).read = TRUE
         /\ AsRead(e).key = e.key /\ AsRead(e).at = e.at
         /\ e.read = TRUE => AsRead(e) = e
<1>1. /\ AsRead(e) \in Entry /\ AsRead(e).read = TRUE
      /\ AsRead(e).key = e.key /\ AsRead(e).at = e.at
  BY DEF AsRead, Entry
<1> QED BY <1>1, EntryIsItsParts

LEMMA ImageIsFinite ==
  ASSUME NEW S, IsFiniteSet(S), NEW f, NEW T, T = {f[x] : x \in S}
  PROVE  IsFiniteSet(T) /\ Cardinality(T) \in Nat /\ Cardinality(T) <= Cardinality(S)
<1> DEFINE g == [x \in S |-> f[x]]
<1>1. g \in Surjection(S, T)
  BY DEF Surjection
<1> QED BY <1>1, FS_Surjection, FS_CardinalityType

(* An entry of the inbox as it is after the unread ones of seen were       *)
(* marked.                                                                 *)
AfterMark(seen, e) == IF e \in Unread(seen) THEN AsRead(e) ELSE e

LEMMA AfterMarkIsEntry ==
  ASSUME NEW seen, seen \subseteq Entry, NEW e \in Entry
  PROVE  /\ AfterMark(seen, e) \in Entry
         /\ AfterMark(seen, e).key = e.key /\ AfterMark(seen, e).at = e.at
BY ReadIsEntry DEF AfterMark, Unread

LEMMA MarkedInbox ==
  ASSUME NEW seen, seen \subseteq Entry, inbox \subseteq Entry, Marked(seen)
  PROVE  /\ inbox' = {AfterMark(seen, e) : e \in inbox} \cup {AsRead(e) : e \in Unread(seen)}
         /\ inbox' \subseteq Entry
         /\ \A e \in inbox' : \E f \in inbox \cup seen : f.key = e.key /\ f.at = e.at
         /\ \A e \in inbox : \E f \in inbox' : f.key = e.key /\ f.at = e.at
         /\ Unread(inbox') \subseteq Unread(inbox) \ seen
         /\ unread' = 0
<1> DEFINE new == Unread(seen)
<1>1. inbox' = (inbox \ new) \cup {AsRead(e) : e \in new} /\ unread' = 0
  BY DEF Marked
<1>2. new \subseteq Entry /\ new \subseteq seen /\ \A e \in new : ~e.read
  BY DEF Unread
<1>3. inbox' = {AfterMark(seen, e) : e \in inbox} \cup {AsRead(e) : e \in new}
  <2>1. \A e \in inbox \ new : AfterMark(seen, e) = e
    BY DEF AfterMark
  <2>2. \A e \in inbox \cap new : AfterMark(seen, e) = AsRead(e)
    BY DEF AfterMark
  <2> HIDE DEF new
  <2> QED BY <1>1, <2>1, <2>2
<1>4. \A e \in new : AsRead(e) \in Entry /\ AsRead(e).read /\ AsRead(e).key = e.key /\ AsRead(e).at = e.at
  BY <1>2, ReadIsEntry
<1>5. \A e \in inbox : /\ AfterMark(seen, e) \in inbox'
                       /\ AfterMark(seen, e).key = e.key /\ AfterMark(seen, e).at = e.at
  BY <1>3, AfterMarkIsEntry
<1> HIDE DEF new
<1>6. \A e \in inbox' : e \in Entry /\ \E f \in inbox \cup seen : f.key = e.key /\ f.at = e.at
  <2> TAKE e \in inbox'
  <2>1. CASE e \in inbox
    BY <2>1
  <2>2. CASE e \notin inbox
    <3>1. PICK f \in new : e = AsRead(f)
      BY <1>1, <2>2
    <3> QED BY <3>1, <1>4, <1>2
  <2> QED BY <2>1, <2>2
<1>7. Unread(inbox') \subseteq Unread(inbox) \ seen
  <2> SUFFICES ASSUME NEW e \in inbox', ~e.read
               PROVE  e \in inbox /\ e \notin seen
    BY DEF Unread
  <2>1. e \in inbox \ new
    BY <1>1, <1>4
  <2> QED BY <2>1 DEF new, Unread
<1> QED BY <1>1, <1>3, <1>5, <1>6, <1>7 DEF new

(* Entries told apart by their time are so after marking, and no fewer.    *)
LEMMA MarkedTimes ==
  ASSUME NEW seen, seen \subseteq Entry, inbox \subseteq Entry, Marked(seen),
         IsFiniteSet(inbox), IsFiniteSet(seen),
         \A e, f \in inbox \cup seen : e.at = f.at => e.key = f.key,
         \A e, f \in inbox : e.at = f.at => e = f
  PROVE  /\ IsFiniteSet(inbox')
         /\ \A e, f \in inbox' : e.at = f.at => e = f
         /\ Cardinality(inbox') \in Nat /\ Cardinality(inbox) <= Cardinality(inbox')
         /\ raced' = {} => Cardinality(inbox') <= Cardinality(inbox)
<1> DEFINE new == Unread(seen)
           old == {AfterMark(seen, e) : e \in inbox}
           read == {AsRead(e) : e \in new}
<1>1. inbox' = (inbox \ new) \cup read /\ inbox' = old \cup read
  BY MarkedInbox DEF Marked
<1>2. new \subseteq seen /\ new \subseteq Entry /\ \A e \in new : ~e.read
  BY DEF Unread
<1>3. IsFiniteSet(old) /\ Cardinality(old) \in Nat /\ Cardinality(old) <= Cardinality(inbox)
  <2> DEFINE g == [e \in inbox |-> AfterMark(seen, e)]
  <2>1. old = {g[e] : e \in inbox}
    OBVIOUS
  <2> HIDE DEF g, old
  <2> QED BY <2>1, ImageIsFinite
<1>4. IsFiniteSet(read)
  <2>1. IsFiniteSet(new)
    BY <1>2, FS_Subset
  <2> HIDE DEF new
  <2> DEFINE g == [e \in new |-> AsRead(e)]
  <2>2. read = {g[e] : e \in new}
    OBVIOUS
  <2> HIDE DEF g, read
  <2> QED BY <2>1, <2>2, ImageIsFinite
<1>5. IsFiniteSet(inbox') /\ Cardinality(inbox') \in Nat
  <2> HIDE DEF old, read
  <2>1. IsFiniteSet(old \cup read) /\ Cardinality(old \cup read) \in Nat
    BY <1>3, <1>4, FS_Union, FS_CardinalityType
  <2>2. inbox' = old \cup read
    BY <1>1
  <2> QED BY <2>1, <2>2
<1>6. \A e \in new : /\ AsRead(e) \in Entry /\ AsRead(e).read = TRUE
                     /\ AsRead(e).key = e.key /\ AsRead(e).at = e.at
  BY <1>2, ReadIsEntry
<1>7. ASSUME NEW e \in inbox', NEW f \in inbox', e.at = f.at
      PROVE  e = f
  <2>1. ASSUME NEW d \in inbox \ new, NEW g \in new, d.at = g.at
        PROVE  d = AsRead(g)
    <3>1. d.key = g.key /\ d.at = AsRead(g).at /\ d.key = AsRead(g).key
      BY <2>1, <1>2, <1>6
    <3>2. d.read = TRUE
      <4>1. SUFFICES ASSUME d.read # TRUE PROVE FALSE
        OBVIOUS
      <4>2. d \in Entry /\ g \in Entry
        BY <1>2
      <4>3. d.read = g.read
        BY <4>1, <4>2, <1>2 DEF Entry
      <4>4. d = g
        BY <4>2, <4>3, <3>1, <2>1, EntryIsItsParts
      <4> QED BY <4>4
    <3> QED BY <3>1, <3>2, <1>6, EntryIsItsParts
  <2>2. ASSUME NEW g \in new, NEW h \in new, g.at = h.at
        PROVE  AsRead(g) = AsRead(h)
    <3>1. g.key = h.key
      BY <2>2, <1>2
    <3> QED BY <3>1, <2>2, <1>6, EntryIsItsParts
  <2> HIDE DEF new
  <2>3. CASE e \in inbox \ new /\ f \in inbox \ new
    BY <2>3, <1>7
  <2>4. CASE e \in inbox \ new /\ f \in read
    <3>1. PICK g \in new : f = AsRead(g)
      BY <2>4
    <3> QED BY <3>1, <2>4, <2>1, <1>6, <1>7
  <2>5. CASE e \in read /\ f \in inbox \ new
    <3>1. PICK g \in new : e = AsRead(g)
      BY <2>5
    <3> QED BY <3>1, <2>5, <2>1, <1>6, <1>7
  <2>6. CASE e \in read /\ f \in read
    <3>1. PICK g \in new, h \in new : e = AsRead(g) /\ f = AsRead(h)
      BY <2>6
    <3> QED BY <3>1, <2>2, <1>6, <1>7
  <2> QED BY <2>3, <2>4, <2>5, <2>6, <1>1
<1>8. Cardinality(inbox) <= Cardinality(inbox')
  <2> DEFINE g == [e \in inbox |-> AfterMark(seen, e)]
  <2>1. g \in [inbox -> inbox']
    BY <1>1
  <2>2. \A e, f \in inbox : g[e] = g[f] => e = f
    <3>1. \A e \in inbox : g[e].at = e.at
      BY AfterMarkIsEntry
    <3> HIDE DEF g
    <3> QED BY <3>1
  <2>3. g \in Injection(inbox, inbox')
    <3> HIDE DEF g
    <3> QED BY <2>1, <2>2 DEF Injection, IsInjective
  <2> QED BY <2>3, <1>5, FS_Injection
<1>9. ASSUME raced' = {}
      PROVE  Cardinality(inbox') <= Cardinality(inbox)
  <2>1. {e \in new : e \notin inbox /\ AsRead(e) \notin inbox} = {}
    BY <1>9 DEF Marked
  <2>2. ASSUME NEW e \in new PROVE AsRead(e) \in old
    <3>1. CASE e \in inbox
      BY <3>1 DEF AfterMark
    <3>2. CASE AsRead(e) \in inbox
      <4>1. AsRead(e) \notin new
        BY <1>2, <1>6
      <4> QED BY <3>2, <4>1 DEF AfterMark
    <3> QED BY <2>1, <3>1, <3>2
  <2>3. inbox' = old
    <3> HIDE DEF old
    <3> QED BY <1>1, <2>2
  <2> QED BY <2>3, <1>3
<1> QED BY <1>5, <1>7, <1>8, <1>9

(* Where no call raced, the hash has the only entry of a key.              *)
LEMMA MarkedDedup ==
  ASSUME NEW seen, seen \subseteq Entry, inbox \subseteq Entry, Marked(seen),
         dedup \in [Keys -> Entry \cup {NoEntry}],
         \A k \in Keys : dedup[k] # NoEntry => dedup[k].key = k,
         \A e \in inbox : e.key \notin raced => dedup[e.key] = e
  PROVE  /\ dedup' \in [Keys -> Entry \cup {NoEntry}]
         /\ \A k \in Keys : dedup'[k] # NoEntry => dedup'[k].key = k
         /\ \A e \in inbox' : e.key \notin raced' => dedup'[e.key] = e
         /\ raced' \subseteq raced \cup Keys
<1> DEFINE new == Unread(seen)
           Oldest(k) == CHOOSE e \in new : e.key = k /\ \A f \in new : f.key = k => f.at >= e.at
           back == {e \in new : e \notin inbox /\ AsRead(e) \notin inbox}
<1>1. /\ inbox' = (inbox \ new) \cup {AsRead(e) : e \in new}
      /\ dedup' = [k \in Keys |-> IF \E e \in new : e.key = k THEN AsRead(Oldest(k)) ELSE dedup[k]]
      /\ raced' = raced \cup {e.key : e \in back}
  BY DEF Marked
<1>2. new \subseteq Entry /\ \A e \in new : ~e.read
  BY DEF Unread
<1> HIDE DEF new
<1>3. \A e \in new : /\ AsRead(e) \in Entry /\ AsRead(e).read = TRUE
                     /\ AsRead(e).key = e.key /\ AsRead(e).at = e.at
  BY <1>2, ReadIsEntry
<1>4. ASSUME NEW k, \E e \in new : e.key = k
      PROVE  Oldest(k) \in new /\ Oldest(k).key = k
  <2> DEFINE S == {e \in new : e.key = k}
  <2>1. S \subseteq Entry /\ S # {}
    BY <1>2, <1>4
  <2>2. PICK e \in S : \A f \in S : e.at <= f.at
    <3> HIDE DEF S
    <3> QED BY <2>1, OldestExists
  <2>3. \A f \in new : f.at \in Nat
    BY <1>2 DEF Entry
  <2>4. e \in new /\ e.key = k /\ \A f \in new : f.key = k => f.at >= e.at
    BY <2>2, <2>3
  <2> QED BY <2>4
<1> HIDE DEF Oldest
<1>5. ASSUME NEW k \in Keys
      PROVE  /\ dedup'[k] \in Entry \cup {NoEntry}
             /\ dedup'[k] # NoEntry => dedup'[k].key = k
  BY <1>1, <1>3, <1>4
<1>6. ASSUME NEW e \in inbox', e.key \notin raced'
      PROVE  dedup'[e.key] = e
  <2> DEFINE k == e.key
  <2>1. k \in Keys
    <3>1. e \in Entry
      BY <1>1, <1>3
    <3> QED BY <3>1 DEF Entry
  <2>2. k \notin raced /\ \A f \in back : f.key # k
    BY <1>1, <1>6
  <2>3. \A f \in new : f.key = k => f \in inbox \/ AsRead(f) \in inbox
    BY <2>2
  <2>4. \A f \in inbox : f.key = k => f = dedup[k]
    BY <2>2
  <2>5. \A f \in new : f.key = k => dedup[k] = f \/ dedup[k] = AsRead(f)
    BY <2>3, <2>4, <1>3
  <2>6. \A f, g \in new : f.key = k /\ g.key = k => AsRead(f) = AsRead(g)
    <3> SUFFICES ASSUME NEW f \in new, NEW g \in new, f.key = k, g.key = k
                 PROVE  AsRead(f) = AsRead(g)
      OBVIOUS
    <3>1. f.at = dedup[k].at /\ g.at = dedup[k].at
      BY <2>5, <1>3
    <3>3. AsRead(f) \in Entry /\ AsRead(g) \in Entry
      BY <1>3
    <3>4. /\ AsRead(f).key = AsRead(g).key /\ AsRead(f).at = AsRead(g).at
          /\ AsRead(f).read = AsRead(g).read
      BY <3>1, <1>3
    <3> QED BY <3>3, <3>4, EntryIsItsParts
  <2>7. CASE \E f \in new : f.key = k
    <3>1. PICK f \in new : f.key = k
      BY <2>7
    <3>2. dedup'[k] = AsRead(f)
      BY <1>1, <1>4, <2>1, <2>6, <2>7, <3>1
    <3>3. e = AsRead(f)
      <4>1. CASE e \in inbox \ new
        <5>1. e = dedup[k]
          BY <4>1, <2>4
        <5> QED BY <5>1, <4>1, <2>5, <3>1
      <4>2. CASE e \notin inbox \ new
        <5>1. PICK g \in new : e = AsRead(g)
          BY <1>1, <4>2
        <5> QED BY <5>1, <1>3, <2>6, <3>1
      <4> QED BY <4>1, <4>2
    <3> QED BY <3>2, <3>3
  <2>8. CASE ~\E f \in new : f.key = k
    <3>1. e \in inbox
      BY <1>1, <1>3, <2>8
    <3>2. dedup'[k] = dedup[k]
      BY <1>1, <2>1, <2>8
    <3> QED BY <3>1, <3>2, <2>4
  <2> QED BY <2>7, <2>8
<1>7. raced' \subseteq raced \cup Keys
  BY <1>1, <1>2 DEF Entry
<1>8. dedup' \in [Keys -> Entry \cup {NoEntry}]
  BY <1>1, <1>5
<1> QED BY <1>5, <1>6, <1>7, <1>8

-----------------------------------------------------------------------------
(* What adding an entry does, one whose time is new.                       *)

LEMMA AddedInbox ==
  ASSUME NEW e \in Entry, NEW old \in Entry \cup {NoEntry}, Added(e, old),
         old # NoEntry => old.key = e.key,
         inbox \subseteq Entry, IsFiniteSet(inbox),
         NEW n \in Nat, e.at <= n, \A f \in inbox : f.at <= n,
         \A f \in inbox : f.at # e.at,
         \A f, g \in inbox : f.at = g.at => f = g
  PROVE  /\ inbox' \subseteq inbox \cup {e} /\ IsFiniteSet(inbox')
         /\ Cardinality(inbox') \in Nat /\ Cardinality(inbox') <= MaxNotifications
         /\ \A f, g \in inbox' : f.at = g.at => f = g
         /\ \A f \in inbox \cup {e} : \/ \E g \in inbox' : g.key = f.key
                                     \/ Cardinality(inbox') >= MaxNotifications
         /\ Cardinality(inbox) >= MaxNotifications => Cardinality(inbox') >= MaxNotifications
         /\ unread' = unread + 1
<1> DEFINE S == (inbox \ {old}) \cup {e}
<1>1. inbox' = Trimmed(S) /\ unread' = unread + 1
  BY DEF Added
<1>2. S \subseteq Entry /\ \A f \in S : f.at <= n
  OBVIOUS
<1>3. \A f, g \in S : f.at = g.at => f = g
  OBVIOUS
<1>4. IsFiniteSet(S) /\ Cardinality(S) \in Nat /\ Cardinality(inbox) <= Cardinality(S)
  <2>1. e \notin inbox
    OBVIOUS
  <2>2. /\ IsFiniteSet(inbox \ {old}) /\ Cardinality(inbox \ {old}) \in Nat
        /\ Cardinality(inbox) \in Nat /\ Cardinality(inbox \ {old}) + 1 >= Cardinality(inbox)
    <3>1. IsFiniteSet(inbox \ {old})
      BY FS_Subset
    <3>2. Cardinality(inbox) \in Nat /\ Cardinality(inbox \ {old}) \in Nat
      BY <3>1, FS_CardinalityType
    <3>3. CASE old \in inbox
      <4>1. Cardinality(inbox \ {old}) = Cardinality(inbox) - 1
        BY <3>3, FS_RemoveElement
      <4> QED BY <3>1, <3>2, <4>1
    <3>4. CASE old \notin inbox
      <4>1. inbox \ {old} = inbox
        BY <3>4
      <4> QED BY <3>1, <3>2, <4>1
    <3> QED BY <3>3, <3>4
  <2>3. e \notin inbox \ {old}
    BY <2>1
  <2>4. IsFiniteSet(S) /\ Cardinality(S) = Cardinality(inbox \ {old}) + 1
    BY <2>2, <2>3, FS_AddElement
  <2> QED BY <2>2, <2>4
<1>5. \A f \in inbox \cup {e} : \E g \in S : g.key = f.key
  <2> TAKE f \in inbox \cup {e}
  <2>1. CASE f = old
    BY <2>1, NoEntryIsNone
  <2>2. CASE f # old
    BY <2>2
  <2> QED BY <2>1, <2>2
<1> HIDE DEF S
<1>6. /\ inbox' \subseteq S /\ IsFiniteSet(inbox') /\ Cardinality(inbox') \in Nat
      /\ Cardinality(inbox') <= MaxNotifications
  BY <1>1, <1>2, <1>3, <1>4, TrimmedIsPart, TrimmedFits
<1>7. inbox' = S \/ Cardinality(inbox') >= MaxNotifications
  BY <1>1, <1>2, <1>4, TrimmedIsFull
<1>8. S \subseteq inbox \cup {e}
  BY DEF S
<1>9. ASSUME Cardinality(inbox) >= MaxNotifications
      PROVE  Cardinality(inbox') >= MaxNotifications
  <2>1. Cardinality(inbox) \in Nat
    BY FS_CardinalityType
  <2>2. CASE inbox' = S
    BY <2>1, <2>2, <1>4, <1>9, HubBounds
  <2> QED BY <2>2, <1>7
<1> QED BY <1>1, <1>3, <1>5, <1>6, <1>7, <1>8, <1>9

LEMMA AddedDedup ==
  ASSUME NEW e \in Entry, NEW old \in Entry \cup {NoEntry}, Added(e, old),
         dedup \in [Keys -> Entry \cup {NoEntry}],
         \A k \in Keys : dedup[k] # NoEntry => dedup[k].key = k,
         inbox \subseteq Entry, IsFiniteSet(inbox),
         \A f \in inbox : f.key \notin raced => dedup[f.key] = f
  PROVE  /\ dedup' \in [Keys -> Entry \cup {NoEntry}]
         /\ \A k \in Keys : dedup'[k] # NoEntry => dedup'[k].key = k
         /\ \A f \in inbox' : f.key \notin raced' => dedup'[f.key] = f
         /\ raced' \subseteq raced \cup {e.key}
<1>1. e.key \in Keys /\ \A f \in inbox : f.key \in Keys
  BY DEF Entry
<1>2. dedup' = [dedup EXCEPT ![e.key] = e] /\ raced' = Racing(e, old)
  BY DEF Added
<1>3. \A k \in Keys : dedup'[k] = IF k = e.key THEN e ELSE dedup[k]
  BY <1>2
<1>4. raced \subseteq raced' /\ raced' \subseteq raced \cup {e.key}
  BY <1>2 DEF Racing
<1>5. ASSUME NEW f \in inbox', f.key \notin raced'
      PROVE  dedup'[f.key] = f
  <2>1. f \in (inbox \ {old}) \cup {e}
    <3>1. IsFiniteSet((inbox \ {old}) \cup {e})
      BY FS_RemoveElement, FS_AddElement, FS_Subset
    <3> QED BY <3>1, TrimmedIsPart DEF Added
  <2>2. CASE f = e
    BY <2>2, <1>1, <1>3
  <2>3. CASE f # e
    <3>1. f \in inbox /\ f # old /\ dedup[f.key] = f
      BY <2>1, <2>3, <1>4, <1>5
    <3>2. f.key # e.key
      <4>1. SUFFICES ASSUME f.key = e.key PROVE FALSE
        OBVIOUS
      <4>2. dedup[e.key] # old
        BY <3>1, <4>1
      <4>3. e.key \in raced'
        BY <4>2, <1>2 DEF Racing
      <4> QED BY <4>1, <4>3, <1>5
    <3> QED BY <3>1, <3>2, <1>1, <1>3
  <2> QED BY <2>2, <2>3
<1>6. dedup' \in [Keys -> Entry \cup {NoEntry}]
  BY <1>2
<1> QED BY <1>3, <1>4, <1>5, <1>6

-----------------------------------------------------------------------------
(* The slots of the workers *)

LEMMA BecomesTyped ==
  ASSUME TypeOK, NEW w \in Workers, NEW q \in Worker, Becomes(w, q)
  PROVE  /\ worker' \in [Workers -> Worker] /\ worker'[w] = q
         /\ \A v \in Workers : v # w => worker'[v] = worker[v]
BY DEF TypeOK, Becomes

LEMMA IdleIsTyped ==
  /\ Idle \in Worker /\ Idle.stage = "idle" /\ Idle.msg = 0 /\ Idle.targets = {}
  /\ Idle.old = NoEntry /\ Idle.at = 0
BY DEF Idle, Worker, Stages

LEMMA EventsAreTyped ==
  ASSUME TypeOK
  PROVE  /\ \A k \in DOMAIN events : events[k] \in Event /\ (Concerns(events[k]) => events[k] \in Keys)
         /\ DOMAIN events = 1..Len(events) /\ Len(events) \in Nat /\ 0 \notin DOMAIN events
<1>1. events \in Seq(Event)
  BY DEF TypeOK
<1>2. \A k \in DOMAIN events : events[k] \in Event
  BY <1>1
<1>3. DOMAIN events = 1..Len(events) /\ Len(events) \in Nat
  BY <1>1
<1> QED BY <1>2, <1>3 DEF Keys, Concerns

LEMMA BusyIsTyped ==
  ASSUME TypeOK, TargetsAreOwed, NEW w \in Workers, worker[w].stage # "idle"
  PROVE  /\ worker[w] \in Worker /\ worker[w].msg \in delivered /\ worker[w].msg \in DOMAIN events
         /\ EventOf(w) \in Event
         /\ worker[w].stage \in {"dedup", "store", "push", "pushing"} =>
              Concerns(EventOf(w)) /\ EventOf(w) \in Keys
<1>1. worker[w] \in Worker /\ delivered \subseteq DOMAIN events
  BY DEF TypeOK
<1>2. /\ worker[w].msg \in delivered
      /\ worker[w].stage \in {"dedup", "store", "push", "pushing"} => Concerns(EventOf(w))
  BY DEF TargetsAreOwed, Busy
<1> QED BY <1>1, <1>2, EventsAreTyped DEF EventOf

(* A worker begins with an event. *)
LEMMA BeginDoes ==
  ASSUME TypeOK, NEW w \in Workers, NEW k \in DOMAIN events, Begin(w, k)
  PROVE  /\ worker' \in [Workers -> Worker] /\ worker[w].stage = "idle"
         /\ \A v \in Workers : v # w => worker'[v] = worker[v]
         /\ worker'[w].stage = "broadcast" /\ worker'[w].msg = k /\ worker'[w].targets = {}
         /\ worker'[w].old = NoEntry
<1> DEFINE q == [Idle EXCEPT !.stage = "broadcast", !.msg = k]
<1>1. k \in Nat
  BY EventsAreTyped
<1>2. q \in Worker /\ q.stage = "broadcast" /\ q.msg = k /\ q.targets = {} /\ q.old = NoEntry
  BY <1>1, IdleIsTyped DEF Worker, Stages
<1>3. Becomes(w, q) /\ worker[w].stage = "idle"
  BY DEF Begin
<1> HIDE DEF q
<1> QED BY <1>2, <1>3, BecomesTyped

(* A worker goes on with the targets that are left.                        *)
LEMMA LeftDoes ==
  ASSUME TypeOK, NEW w \in Workers, NEW targets \in SUBSET Clients, Left(w, targets),
         worker[w].stage \in {"broadcast", "sending", "push", "pushing"}
  PROVE  /\ worker' \in [Workers -> Worker]
         /\ \A v \in Workers : v # w => worker'[v] = worker[v]
         /\ worker'[w].msg = worker[w].msg /\ worker'[w].targets = targets
         /\ worker'[w].old = worker[w].old
         /\ \/ /\ targets # {} /\ clock' = clock
               /\ worker'[w].stage =
                    IF worker[w].stage \in {"broadcast", "sending"} THEN "sending" ELSE "pushing"
            \/ /\ targets = {} /\ worker'[w].stage = "dedup"
               /\ worker'[w].at = clock + 1 /\ clock' = clock + 1
               /\ worker[w].stage \in {"broadcast", "sending"} /\ Concerns(EventOf(w))
            \/ /\ targets = {} /\ worker'[w].stage = "ack" /\ clock' = clock
               /\ worker[w].stage \in {"push", "pushing"} \/ ~Concerns(EventOf(w))
<1>1. worker[w] \in Worker /\ clock \in Nat
  BY DEF TypeOK
<1>2. CASE targets # {}
  <2> DEFINE q == Sending(w, targets)
  <2>1. /\ q \in Worker /\ q.msg = worker[w].msg /\ q.targets = targets /\ q.old = worker[w].old
        /\ q.stage = IF worker[w].stage \in {"broadcast", "sending"} THEN "sending" ELSE "pushing"
    BY <1>1 DEF Sending, Worker, Stages
  <2>2. Becomes(w, q) /\ clock' = clock
    BY <1>2 DEF Left
  <2> HIDE DEF q
  <2> QED BY <1>2, <2>1, <2>2, BecomesTyped
<1>3. CASE targets = {}
  <2> DEFINE notify == worker[w].stage \in {"broadcast", "sending"} /\ Concerns(EventOf(w))
  <2>1. AllSent(w, notify)
    BY <1>3 DEF Left
  <2>2. CASE notify
    <3>1. PICK n \in Nat : n = clock + 1
      BY <1>1
    <3> DEFINE q == [worker[w] EXCEPT !.targets = {}, !.stage = "dedup", !.at = n]
    <3>2. /\ q \in Worker /\ q.msg = worker[w].msg /\ q.targets = {} /\ q.old = worker[w].old
          /\ q.stage = "dedup" /\ q.at = n
      BY <1>1 DEF Worker, Stages
    <3>3. Becomes(w, q) /\ clock' = n
      BY <2>1, <2>2, <3>1 DEF AllSent
    <3> HIDE DEF q
    <3> QED BY <1>3, <2>2, <3>1, <3>2, <3>3, BecomesTyped
  <2>3. CASE ~notify
    <3> DEFINE q == [worker[w] EXCEPT !.targets = {}, !.stage = "ack"]
    <3>1. /\ q \in Worker /\ q.msg = worker[w].msg /\ q.targets = {} /\ q.old = worker[w].old
          /\ q.stage = "ack"
      BY <1>1 DEF Worker, Stages
    <3>2. Becomes(w, q) /\ clock' = clock
      BY <2>1, <2>3 DEF AllSent
    <3> HIDE DEF q
    <3> QED BY <1>3, <2>3, <3>1, <3>2, BecomesTyped
  <2> QED BY <2>2, <2>3
<1> QED BY <1>2, <1>3

LEMMA AudienceIsClients ==
  ASSUME NEW w PROVE Audience(w) \subseteq Clients
BY DEF Audience, Clients

LEMMA CopyDoes ==
  ASSUME TypeOK, NEW w \in Workers, CopyTargets(w)
  PROVE  /\ worker[w].stage \in {"broadcast", "push"}
         /\ Left(w, Audience(w) \cap clients) /\ Audience(w) \cap clients \in SUBSET Clients
BY AudienceIsClients DEF CopyTargets

LEMMA SendDoes ==
  ASSUME TypeOK, TargetsAreOwed, NEW w \in Workers, NEW c \in Clients, Send(w, c)
  PROVE  /\ worker[w].stage \in {"sending", "pushing"} /\ c \in worker[w].targets
         /\ Left(w, worker[w].targets \ {c}) /\ worker[w].targets \ {c} \in SUBSET Clients
<1>1. worker[w] \in Worker /\ worker[w].targets \subseteq Clients
  BY DEF TypeOK, Worker
<1>2. worker[w].targets # {} => worker[w].stage \in {"sending", "pushing"}
  BY DEF TargetsAreOwed
<1> QED BY <1>1, <1>2 DEF Send

LEMMA LookupDoes ==
  ASSUME TypeOK, TargetsAreOwed, NEW w \in Workers, ReadDedup(w)
  PROVE  /\ worker' \in [Workers -> Worker] /\ worker[w].stage = "dedup"
         /\ \A v \in Workers : v # w => worker'[v] = worker[v]
         /\ worker'[w].stage = "store" /\ worker'[w].msg = worker[w].msg
         /\ worker'[w].targets = worker[w].targets /\ worker'[w].at = worker[w].at
         /\ worker'[w].old \in {worker[w].old, dedup[EventOf(w)]}
         /\ faults' \in 0..MaxFaults
<1>1. worker[w] \in Worker /\ EventOf(w) \in Keys /\ dedup[EventOf(w)] \in Entry \cup {NoEntry}
  BY BusyIsTyped DEF ReadDedup, TypeOK
<1>2. worker[w].stage = "dedup" /\ faults' \in 0..MaxFaults
  BY HubBounds DEF ReadDedup, TypeOK, Fault, NoFault
<1>3. \E q : /\ Becomes(w, q)
             /\ \/ q = [worker[w] EXCEPT !.stage = "store", !.old = dedup[EventOf(w)]]
                \/ q = [worker[w] EXCEPT !.stage = "store"]
  <2>1. CASE Goto(w, "store")
    <3>1. worker' = [worker EXCEPT ![w] = [worker[w] EXCEPT !.stage = "store"]]
      BY <2>1 DEF Goto, TypeOK
    <3> QED BY <3>1 DEF Becomes
  <2> QED BY <2>1 DEF ReadDedup
<1>4. PICK q : /\ Becomes(w, q)
               /\ \/ q = [worker[w] EXCEPT !.stage = "store", !.old = dedup[EventOf(w)]]
                  \/ q = [worker[w] EXCEPT !.stage = "store"]
  BY <1>3
<1>5. /\ q \in Worker /\ q.stage = "store" /\ q.msg = worker[w].msg
      /\ q.targets = worker[w].targets /\ q.at = worker[w].at
      /\ q.old \in {worker[w].old, dedup[EventOf(w)]}
  BY <1>1, <1>4 DEF Worker, Stages
<1> QED BY <1>2, <1>4, <1>5, BecomesTyped

(* The notification that a worker stores. *)
EntryOf(w) == [key |-> EventOf(w), at |-> worker[w].at, read |-> FALSE]

LEMMA StoreDoes ==
  ASSUME TypeOK, TargetsAreOwed, NEW w \in Workers, StoreEntry(w)
  PROVE  /\ worker' \in [Workers -> Worker] /\ worker[w].stage = "store"
         /\ \A v \in Workers : v # w => worker'[v] = worker[v]
         /\ worker'[w].stage \in {"push", "ack"} /\ worker'[w].msg = worker[w].msg
         /\ worker'[w].targets = {} /\ worker'[w].old = NoEntry
         /\ EntryOf(w) \in Entry /\ EntryOf(w).key = EventOf(w) /\ EntryOf(w).at = worker[w].at
         /\ EntryOf(w).read = FALSE
         /\ worker[w].old \in Entry \cup {NoEntry}
         /\ weeks' = weeks
         /\ \/ /\ worker'[w].stage = "push" /\ Added(EntryOf(w), worker[w].old)
               /\ expired' = expired \ {worker[w].msg} /\ UNCHANGED <<owed, dropped, faults>>
            \/ /\ worker'[w].stage = "ack" /\ faults' \in 0..MaxFaults
               /\ Added(EntryOf(w), worker[w].old) \/ UNCHANGED <<inbox, dedup, unread, expiring, missed, raced>>
               /\ dropped' = dropped \cup {worker[w].msg} /\ expired' = expired
               /\ owed' = [c \in Clients |-> IF c \in UserClients
                            THEN owed[c] \ {worker[w].msg} ELSE owed[c]]
         /\ UNCHANGED <<events, delivered, acked, clients, reader, clock>>
<1>1. /\ worker[w] \in Worker /\ worker[w].stage = "store" /\ EventOf(w) \in Keys
      /\ worker[w].old \in Entry \cup {NoEntry} /\ worker[w].at \in Nat /\ worker[w].msg \in Nat
  BY BusyIsTyped DEF StoreEntry, Worker
<1>2. EntryOf(w) \in Entry /\ EntryOf(w).key = EventOf(w) /\ EntryOf(w).at = worker[w].at
      /\ EntryOf(w).read = FALSE
  BY <1>1 DEF EntryOf, Entry
<1>3. PICK stage \in {"push", "ack"} :
        /\ Becomes(w, [Idle EXCEPT !.stage = stage, !.msg = worker[w].msg])
        /\ \/ /\ stage = "push" /\ Added(EntryOf(w), worker[w].old)
              /\ expired' = expired \ {worker[w].msg} /\ UNCHANGED <<owed, dropped, faults>>
           \/ /\ stage = "ack" /\ Fault
              /\ Added(EntryOf(w), worker[w].old) \/ UNCHANGED <<inbox, dedup, unread, expiring, missed, raced>>
              /\ dropped' = dropped \cup {worker[w].msg} /\ expired' = expired
              /\ owed' = [c \in Clients |-> IF c \in UserClients
                            THEN owed[c] \ {worker[w].msg} ELSE owed[c]]
  BY DEF StoreEntry, EntryOf, NoFault, store
<1> DEFINE q == [Idle EXCEPT !.stage = stage, !.msg = worker[w].msg]
<1>4. /\ q \in Worker /\ q.stage = stage /\ q.msg = worker[w].msg /\ q.targets = {}
      /\ q.old = NoEntry
  BY <1>1, IdleIsTyped DEF Worker, Stages
<1>5. /\ worker' \in [Workers -> Worker] /\ worker'[w] = q
      /\ \A v \in Workers : v # w => worker'[v] = worker[v]
  <2> HIDE DEF q
  <2>1. Becomes(w, q)
    BY <1>3 DEF q
  <2> QED BY <1>4, <2>1, BecomesTyped
<1>6. Fault => faults' \in 0..MaxFaults
  BY HubBounds DEF TypeOK, Fault
<1>7. UNCHANGED <<events, delivered, acked, clients, reader, clock>>
  BY DEF StoreEntry, streams
<1>8. weeks' = weeks
  BY DEF StoreEntry, Added, Renewed, store
<1> HIDE DEF q
<1> QED BY <1>1, <1>2, <1>3, <1>4, <1>5, <1>6, <1>7, <1>8

LEMMA AckDoes ==
  ASSUME TypeOK, TargetsAreOwed, NEW w \in Workers, Acknowledge(w)
  PROVE  /\ worker' \in [Workers -> Worker] /\ worker[w].stage = "ack" /\ worker'[w] = Idle
         /\ \A v \in Workers : v # w => worker'[v] = worker[v]
         /\ faults' \in 0..MaxFaults /\ acked' \in {acked, acked \cup {worker[w].msg}}
<1>1. Becomes(w, Idle) /\ worker[w].stage = "ack"
  BY DEF Acknowledge
<1>2. faults' \in 0..MaxFaults /\ acked' \in {acked, acked \cup {worker[w].msg}}
  BY HubBounds DEF Acknowledge, TypeOK, Fault, NoFault
<1> QED BY <1>1, <1>2, IdleIsTyped, BecomesTyped

-----------------------------------------------------------------------------
(* Who is still owed an event                                              *)

(* What TargetsAreOwed says of a worker. *)
AtWork(r, del, evs, ow) ==
  /\ r.targets # {} => r.stage \in {"sending", "pushing"}
  /\ r.stage # "idle" =>
       /\ r.msg \in del
       /\ r.stage \in {"dedup", "store", "push", "pushing"} => Concerns(evs[r.msg])
       /\ \A c \in Clients : r.msg \in ow[c] =>
            \/ r.stage \in StagesBefore(c)
            \/ r.stage = StageFor(c) /\ c \in r.targets

OwedToListeners(ow, cs, evs) ==
  \A c \in Clients : \A k \in ow[c] : c \in cs /\ Hears(c, evs[k])

LEMMA TargetsSplit ==
  TargetsAreOwed <=> /\ OwedToListeners(owed, clients, events)
                     /\ \A w \in Workers : AtWork(worker[w], delivered, events, owed)
BY Zenon DEF TargetsAreOwed, AtWork, OwedToListeners, Busy, EventOf

LEMMA AtWorkKept ==
  ASSUME NEW r, NEW del, NEW evs, NEW ow, AtWork(r, del, evs, ow),
         NEW del2, del \subseteq del2,
         NEW evs2, \A k \in del : evs2[k] = evs[k],
         NEW ow2, \A c \in Clients : ow2[c] \cap del \subseteq ow[c]
  PROVE  AtWork(r, del2, evs2, ow2)
BY DEF AtWork

LEMMA IdleIsAtWork ==
  ASSUME NEW del, NEW evs, NEW ow PROVE AtWork(Idle, del, evs, ow)
BY IdleIsTyped DEF AtWork

LEMMA PublishKeepsAudience ==
  ASSUME HubInv, NEW e \in Event, Publish(e)
  PROVE  TypeOK' /\ TargetsAreOwed' /\ WatchersAreTold'
<1> USE DEF HubInv
<1> DEFINE n == Len(events) + 1
<1>1. /\ events \in Seq(Event) /\ events' = Append(events, e)
      /\ UNCHANGED <<delivered, acked, worker, clients, inbox, dedup, unread, expiring, weeks, reader, clock,
                     faults, dropped, missed, raced, expired>>
  BY DEF Publish, TypeOK, store
<1>2. /\ events' \in Seq(Event) /\ DOMAIN events' = DOMAIN events \cup {n} /\ n \notin DOMAIN events
      /\ n \in DOMAIN events' /\ events'[n] = e /\ Len(events') = n
      /\ \A k \in DOMAIN events : events'[k] = events[k]
  BY <1>1
<1> HIDE DEF n
<1>3. owed' = [c \in Clients |->
        IF c \in clients /\ Hears(c, e) THEN owed[c] \cup {n} ELSE owed[c]]
  BY <1>2 DEF Publish
<1>4. /\ owed \in [Clients -> SUBSET DOMAIN events] /\ delivered \subseteq DOMAIN events
      /\ acked \subseteq delivered
  BY DEF TypeOK
<1>5. owed' \in [Clients -> SUBSET DOMAIN events']
  BY <1>2, <1>3, <1>4
<1>6. TypeOK'
  BY <1>1, <1>2, <1>5 DEF TypeOK
<1>7. WatchersAreTold'
  BY <1>1, <1>2, <1>3, <1>4 DEF WatchersAreTold
<1>8. OwedToListeners(owed, clients, events)'
  <2>1. OwedToListeners(owed, clients, events)
    BY TargetsSplit
  <2> SUFFICES ASSUME NEW c \in Clients, NEW k, k \in owed'[c]
               PROVE  c \in clients /\ Hears(c, events'[k])
    BY <1>1 DEF OwedToListeners
  <2>2. CASE k = n /\ c \in clients /\ Hears(c, e)
    BY <2>2, <1>2
  <2>3. CASE k \in owed[c]
    <3>1. k \in DOMAIN events
      BY <2>3, <1>4
    <3> QED BY <2>1, <2>3, <3>1, <1>2 DEF OwedToListeners
  <2> QED BY <2>2, <2>3, <1>3
<1>9. \A w \in Workers : AtWork(worker'[w], delivered', events', owed')
  <2>1. \A c \in Clients : owed'[c] \cap delivered \subseteq owed[c]
    BY <1>2, <1>3, <1>4
  <2>2. \A k \in delivered : events'[k] = events[k]
    BY <1>2, <1>4
  <2> TAKE w \in Workers
  <2>3. AtWork(worker[w], delivered, events, owed)
    BY TargetsSplit
  <2>4. AtWork(worker[w], delivered, events', owed')
    BY <2>1, <2>2, <2>3, AtWorkKept
  <2> QED BY <2>4, <1>1
<1>10. TargetsAreOwed'
  <2>1. (\A w \in Workers : AtWork(worker[w], delivered, events, owed))'
    BY <1>9
  <2> QED BY <2>1, <1>8, TargetsSplit, PTL
<1> QED BY <1>6, <1>7, <1>10

(* What is owed to whom when the stream and the connections stay.          *)
LEMMA AudienceKept ==
  ASSUME TargetsAreOwed, WatchersAreTold, TypeOK, TypeOK',
         events' = events, delivered \subseteq delivered', clients \subseteq clients',
         \A c \in Clients : owed'[c] \subseteq owed[c],
         \A w \in Workers : \/ worker'[w] \in {worker[w], Idle}
                            \/ AtWork(worker'[w], delivered', events', owed'),
         \A c \in Clients : (acked' \ acked) \cap owed'[c] = {}
  PROVE  TargetsAreOwed' /\ WatchersAreTold'
<1>1. OwedToListeners(owed, clients, events)'
  <2>1. OwedToListeners(owed, clients, events)
    BY TargetsSplit
  <2>2. OwedToListeners(owed', clients', events')
    BY <2>1 DEF OwedToListeners
  <2> QED BY <2>2
<1>2. \A w \in Workers : AtWork(worker'[w], delivered', events', owed')
  <2> TAKE w \in Workers
  <2>1. AtWork(worker[w], delivered, events, owed)
    BY TargetsSplit
  <2>2. AtWork(worker[w], delivered', events', owed')
    BY <2>1, AtWorkKept
  <2> QED BY <2>2, IdleIsAtWork
<1>3. (\A w \in Workers : AtWork(worker[w], delivered, events, owed))'
  BY <1>2
<1>4. WatchersAreTold'
  BY DEF WatchersAreTold
<1> QED BY <1>1, <1>3, <1>4, TargetsSplit, PTL

LEMMA ConnectKeepsAudience ==
  ASSUME HubInv, NEW c \in Clients, Register(c) \/ Unregister(c)
  PROVE  TypeOK' /\ TargetsAreOwed' /\ WatchersAreTold'
<1> USE DEF HubInv
<1>1. /\ UNCHANGED <<events, delivered, acked, worker, inbox, dedup, unread, expiring, weeks, reader, clock,
                     faults, dropped, missed, raced, expired>>
      /\ \/ clients' = clients \cup {c} /\ owed' = owed
         \/ clients' = clients \ {c} /\ owed' = [owed EXCEPT ![c] = {}]
  BY DEF Register, Unregister, streams, store, history
<1>2. TypeOK'
  BY <1>1 DEF TypeOK
<1>3. CASE clients' = clients \cup {c} /\ owed' = owed
  BY <1>1, <1>2, <1>3, AudienceKept
<1>4. CASE clients' = clients \ {c} /\ owed' = [owed EXCEPT ![c] = {}]
  <2>1. \A d \in Clients : owed'[d] = IF d = c THEN {} ELSE owed[d]
    BY <1>4 DEF TypeOK
  <2>2. OwedToListeners(owed', clients', events')
    <3>1. OwedToListeners(owed, clients, events)
      BY TargetsSplit
    <3> QED BY <3>1, <2>1, <1>1, <1>4 DEF OwedToListeners
  <2>3. \A w \in Workers : AtWork(worker'[w], delivered', events', owed')
    <3> TAKE w \in Workers
    <3>1. AtWork(worker[w], delivered, events, owed)
      BY TargetsSplit
    <3>2. \A d \in Clients : owed'[d] \cap delivered \subseteq owed[d]
      BY <2>1
    <3>3. AtWork(worker[w], delivered, events, owed')
      BY <3>1, <3>2, AtWorkKept
    <3> QED BY <3>3, <1>1
  <2>4. OwedToListeners(owed, clients, events)'
        /\ (\A w \in Workers : AtWork(worker[w], delivered, events, owed))'
    BY <2>2, <2>3
  <2>5. WatchersAreTold'
    BY <1>1, <2>1 DEF WatchersAreTold
  <2> QED BY <1>2, <2>4, <2>5, TargetsSplit, PTL
<1> QED BY <1>1, <1>3, <1>4

LEMMA BeginKeepsAudience ==
  ASSUME HubInv, NEW w \in Workers, NEW k \in DOMAIN events, ReadMessage(w, k) \/ Reclaim(w, k)
  PROVE  TypeOK' /\ TargetsAreOwed' /\ WatchersAreTold'
<1> USE DEF HubInv
<1>1. /\ UNCHANGED <<events, acked, clients, inbox, dedup, unread, expiring, weeks, reader, clock,
                     owed, dropped, missed, raced, expired>>
      /\ Begin(w, k) /\ faults' \in 0..MaxFaults
      /\ delivered' = delivered \cup {k}
  <2>1. CASE ReadMessage(w, k)
    BY <2>1 DEF ReadMessage, store, history, TypeOK
  <2>2. CASE Reclaim(w, k)
    <3>1. k \in delivered /\ delivered' = delivered
      BY <2>2 DEF Reclaim, streams
    <3>2. faults' \in 0..MaxFaults
      BY <2>2, HubBounds DEF Reclaim, Fault, NoFault, TypeOK
    <3> QED BY <2>2, <3>1, <3>2 DEF Reclaim, streams, store, history
  <2> QED BY <2>1, <2>2
<1>2. /\ worker' \in [Workers -> Worker]
      /\ \A v \in Workers : v # w => worker'[v] = worker[v]
      /\ worker'[w].stage = "broadcast" /\ worker'[w].msg = k /\ worker'[w].targets = {}
  BY <1>1, BeginDoes
<1>3. TypeOK'
  BY <1>1, <1>2 DEF TypeOK
<1>4. AtWork(worker'[w], delivered', events', owed')
  <2>1. \A c : "broadcast" \in StagesBefore(c)
    BY DEF StagesBefore
  <2> QED BY <1>1, <1>2, <2>1 DEF AtWork
<1> QED BY <1>1, <1>2, <1>3, <1>4, AudienceKept

LEMMA CrashKeepsAudience ==
  ASSUME HubInv, Crash
  PROVE  TypeOK' /\ TargetsAreOwed' /\ WatchersAreTold'
<1> USE DEF HubInv
<1>1. /\ UNCHANGED <<events, delivered, acked, inbox, dedup, unread, expiring, weeks, reader, clock,
                     dropped, missed, raced, expired>>
      /\ worker' = [w \in Workers |-> Idle] /\ clients' = {}
      /\ owed' = [c \in Clients |-> {}] /\ faults' \in 0..MaxFaults
  BY HubBounds DEF Crash, Fault, streams, store, TypeOK
<1>2. TypeOK'
  BY <1>1, IdleIsTyped DEF TypeOK
<1>3. OwedToListeners(owed', clients', events')
  BY <1>1 DEF OwedToListeners
<1>4. \A w \in Workers : AtWork(worker'[w], delivered', events', owed')
  BY <1>1, IdleIsAtWork
<1>5. OwedToListeners(owed, clients, events)'
      /\ (\A w \in Workers : AtWork(worker[w], delivered, events, owed))'
  BY <1>3, <1>4
<1>6. WatchersAreTold'
  BY <1>1 DEF WatchersAreTold
<1> QED BY <1>2, <1>5, <1>6, TargetsSplit, PTL

(* Whoever is still owed the event is among the targets that are left.     *)
LEMMA LeftServes ==
  ASSUME HubInv, NEW w \in Workers, NEW targets \in SUBSET Clients, Left(w, targets),
         worker[w].stage \in {"broadcast", "sending", "push", "pushing"},
         UNCHANGED <<events, delivered>>,
         \A c \in Clients : owed'[c] \subseteq owed[c],
         \A c \in Clients :
           /\ worker[w].msg \in owed'[c]
           /\ worker[w].stage \in IF c \in AuctionClients THEN {"broadcast", "sending"}
                                  ELSE {"push", "pushing"}
           => c \in targets
  PROVE  AtWork(worker'[w], delivered', events', owed')
<1> USE DEF HubInv
<1>1. /\ worker'[w].msg = worker[w].msg /\ worker'[w].targets = targets
      /\ \/ /\ targets # {}
            /\ worker'[w].stage =
                 IF worker[w].stage \in {"broadcast", "sending"} THEN "sending" ELSE "pushing"
         \/ /\ targets = {} /\ worker'[w].stage = "dedup"
            /\ worker[w].stage \in {"broadcast", "sending"} /\ Concerns(EventOf(w))
         \/ /\ targets = {} /\ worker'[w].stage = "ack"
            /\ worker[w].stage \in {"push", "pushing"} \/ ~Concerns(EventOf(w))
  BY LeftDoes
<1>2. /\ worker[w].msg \in delivered
      /\ worker[w].stage \in {"push", "pushing"} => Concerns(EventOf(w))
  BY BusyIsTyped
<1>3. \A c \in Clients : c \in AuctionClients \/ c \in UserClients
  BY DEF Clients
<1>4. ASSUME NEW c \in Clients, worker[w].msg \in owed'[c]
      PROVE  \/ worker'[w].stage \in StagesBefore(c)
             \/ worker'[w].stage = StageFor(c) /\ c \in worker'[w].targets
  <2>1. worker[w].msg \in owed[c]
    BY <1>4
  <2>2. /\ Hears(c, EventOf(w))
        /\ worker[w].stage \in StagesBefore(c) \/ worker[w].stage = StageFor(c)
    BY <2>1 DEF TargetsAreOwed, EventOf, Busy
  <2>3. CASE c \in AuctionClients
    <3>1. worker[w].stage \in {"broadcast", "sending"} /\ StageFor(c) = "sending"
      BY <2>2, <2>3 DEF StagesBefore, StageFor
    <3>2. c \in targets
      BY <3>1, <2>3, <1>4
    <3> QED BY <3>1, <3>2, <1>1
  <2>4. CASE c \notin AuctionClients
    <3>1. Concerns(EventOf(w))
      BY <2>2, <2>4, <1>3 DEF Hears
    <3>2. StageFor(c) = "pushing" /\ "sending" \in StagesBefore(c) /\ "dedup" \in StagesBefore(c)
      BY <2>4 DEF StagesBefore, StageFor
    <3>3. CASE worker[w].stage \in {"broadcast", "sending"}
      BY <3>1, <3>2, <3>3, <1>1
    <3>4. CASE worker[w].stage \in {"push", "pushing"}
      <4>1. c \in targets
        BY <3>4, <2>4, <1>4
      <4> QED BY <3>2, <3>4, <4>1, <1>1
    <3> QED BY <3>3, <3>4
  <2> QED BY <2>3, <2>4
<1>5. worker'[w].stage \in {"dedup", "store", "push", "pushing"} => Concerns(events'[worker'[w].msg])
  <2>1. worker'[w].stage \in {"dedup", "store", "push", "pushing"} => Concerns(EventOf(w))
    BY <1>1, <1>2
  <2>2. events'[worker'[w].msg] = EventOf(w)
    BY <1>1 DEF EventOf
  <2> QED BY <2>1, <2>2
<1>6. worker'[w].targets # {} => worker'[w].stage \in {"sending", "pushing"}
  BY <1>1
<1>7. worker'[w].msg \in delivered' /\ worker'[w].msg = worker[w].msg
  BY <1>1, <1>2
<1> QED BY <1>4, <1>5, <1>6, <1>7 DEF AtWork

LEMMA CopyKeepsAudience ==
  ASSUME HubInv, NEW w \in Workers, CopyTargets(w)
  PROVE  TypeOK' /\ TargetsAreOwed' /\ WatchersAreTold'
<1> USE DEF HubInv
<1> DEFINE T == Audience(w) \cap clients
<1>1. /\ worker[w].stage \in {"broadcast", "push"} /\ Left(w, T) /\ T \in SUBSET Clients
      /\ UNCHANGED <<events, delivered, acked, clients, inbox, dedup, unread, expiring, weeks,
                     reader, faults, owed, dropped, missed, raced, expired>>
  BY CopyDoes DEF CopyTargets, streams, store, history
<1> HIDE DEF T
<1>2. /\ worker' \in [Workers -> Worker] /\ clock' \in Nat
      /\ \A v \in Workers : v # w => worker'[v] = worker[v]
  <2>1. clock \in Nat
    BY DEF TypeOK
  <2> QED BY <1>1, <2>1, LeftDoes
<1>3. TypeOK'
  BY <1>1, <1>2 DEF TypeOK
<1>4. ASSUME NEW c \in Clients, worker[w].msg \in owed'[c],
             worker[w].stage \in IF c \in AuctionClients THEN {"broadcast", "sending"}
                                 ELSE {"push", "pushing"}
      PROVE  c \in T
  <2>1. worker[w].msg \in owed[c]
    BY <1>1, <1>4
  <2>2. Hears(c, EventOf(w)) /\ c \in clients
    BY <2>1 DEF TargetsAreOwed, EventOf
  <2> QED BY <2>2, <1>1, <1>4, ClientsAssumption DEF T, Audience, Hears, Clients
<1>5. AtWork(worker'[w], delivered', events', owed')
  BY <1>1, <1>4, LeftServes
<1> QED BY <1>1, <1>2, <1>3, <1>5, AudienceKept

LEMMA SendKeepsAudience ==
  ASSUME HubInv, NEW w \in Workers, NEW c \in Clients, Send(w, c)
  PROVE  TypeOK' /\ TargetsAreOwed' /\ WatchersAreTold'
<1> USE DEF HubInv
<1> DEFINE T == worker[w].targets \ {c}
<1>1. /\ worker[w].stage \in {"sending", "pushing"} /\ Left(w, T) /\ T \in SUBSET Clients
      /\ UNCHANGED <<events, delivered, acked, clients, inbox, dedup, unread, expiring, weeks,
                     reader, faults, dropped, missed, raced, expired>>
      /\ owed' = [owed EXCEPT ![c] = owed[c] \ {worker[w].msg}]
  BY SendDoes DEF Send, streams, store
<1>2. /\ owed' \in [Clients -> SUBSET DOMAIN events]
      /\ \A d \in Clients : owed'[d] = IF d = c THEN owed[c] \ {worker[w].msg} ELSE owed[d]
  BY <1>1 DEF TypeOK
<1>3. /\ worker' \in [Workers -> Worker] /\ clock' \in Nat
      /\ \A v \in Workers : v # w => worker'[v] = worker[v]
  <2>1. clock \in Nat
    BY DEF TypeOK
  <2> HIDE DEF T
  <2> QED BY <1>1, <2>1, LeftDoes
<1>4. TypeOK'
  BY <1>1, <1>2, <1>3 DEF TypeOK
<1>5. ASSUME NEW d \in Clients, worker[w].msg \in owed'[d],
             worker[w].stage \in IF d \in AuctionClients THEN {"broadcast", "sending"}
                                 ELSE {"push", "pushing"}
      PROVE  d \in T
  <2>1. worker[w].msg \in owed[d] /\ d # c
    BY <1>2, <1>5
  <2>2. \/ worker[w].stage \in StagesBefore(d)
        \/ worker[w].stage = StageFor(d) /\ d \in worker[w].targets
    BY <2>1, <1>1 DEF TargetsAreOwed, Busy
  <2>3. d \in worker[w].targets
    BY <2>2, <1>1, <1>5 DEF StagesBefore, StageFor
  <2> QED BY <2>1, <2>3
<1> HIDE DEF T
<1>6. AtWork(worker'[w], delivered', events', owed')
  BY <1>1, <1>2, <1>5, LeftServes
<1> QED BY <1>1, <1>2, <1>3, <1>4, <1>6, AudienceKept

LEMMA LookupKeepsAudience ==
  ASSUME HubInv, NEW w \in Workers, ReadDedup(w)
  PROVE  TypeOK' /\ TargetsAreOwed' /\ WatchersAreTold'
<1> USE DEF HubInv
<1>1. UNCHANGED <<events, delivered, acked, clients, inbox, dedup, unread, expiring, weeks, reader, clock,
                  owed, dropped, missed, raced, expired>>
  BY DEF ReadDedup, streams, store, history
<1>2. /\ worker' \in [Workers -> Worker] /\ worker[w].stage = "dedup"
      /\ \A v \in Workers : v # w => worker'[v] = worker[v]
      /\ worker'[w].stage = "store" /\ worker'[w].msg = worker[w].msg
      /\ worker'[w].targets = worker[w].targets /\ faults' \in 0..MaxFaults
  BY LookupDoes
<1>3. TypeOK'
  BY <1>1, <1>2 DEF TypeOK
<1>4. AtWork(worker'[w], delivered', events', owed')
  <2>1. AtWork(worker[w], delivered, events, owed)
    BY TargetsSplit
  <2> QED BY <2>1, <1>1, <1>2 DEF AtWork, StagesBefore, StageFor
<1> QED BY <1>1, <1>2, <1>3, <1>4, AudienceKept

LEMMA AckKeepsAudience ==
  ASSUME HubInv, NEW w \in Workers, Acknowledge(w)
  PROVE  TypeOK' /\ TargetsAreOwed' /\ WatchersAreTold'
<1> USE DEF HubInv
<1>1. UNCHANGED <<events, delivered, clients, inbox, dedup, unread, expiring, weeks, reader, clock,
                  owed, dropped, missed, raced, expired>>
  BY DEF Acknowledge, store, history
<1>2. /\ worker' \in [Workers -> Worker] /\ worker[w].stage = "ack" /\ worker'[w] = Idle
      /\ \A v \in Workers : v # w => worker'[v] = worker[v]
      /\ faults' \in 0..MaxFaults /\ acked' \in {acked, acked \cup {worker[w].msg}}
  BY AckDoes
<1>3. worker[w].msg \in delivered
  BY <1>2, BusyIsTyped
<1>4. TypeOK'
  BY <1>1, <1>2, <1>3 DEF TypeOK
<1>5. \A c \in Clients : worker[w].msg \notin owed'[c]
  <2>1. \A c \in Clients : "ack" \notin StagesBefore(c) /\ "ack" # StageFor(c)
    BY DEF StagesBefore, StageFor
  <2>2. AtWork(worker[w], delivered, events, owed)
    BY TargetsSplit
  <2> QED BY <2>1, <2>2, <1>1, <1>2 DEF AtWork
<1> QED BY <1>1, <1>2, <1>4, <1>5, AudienceKept

-----------------------------------------------------------------------------
(* The steps that change the inbox *)

LEMMA StoreAdds ==
  ASSUME HubInv, NEW w \in Workers, StoreEntry(w), Added(EntryOf(w), worker[w].old)
  PROVE  /\ inbox' \subseteq inbox \cup {EntryOf(w)} /\ IsFiniteSet(inbox')
         /\ Cardinality(inbox') \in Nat /\ Cardinality(inbox') <= MaxNotifications
         /\ \A f, g \in inbox' : f.at = g.at => f = g
         /\ \A f \in inbox \cup {EntryOf(w)} :
              \/ \E g \in inbox' : g.key = f.key
              \/ Cardinality(inbox') >= MaxNotifications
         /\ Cardinality(inbox) >= MaxNotifications => Cardinality(inbox') >= MaxNotifications
         /\ unread' = unread + 1
         /\ dedup' \in [Keys -> Entry \cup {NoEntry}]
         /\ \A k \in Keys : dedup'[k] # NoEntry => dedup'[k].key = k
         /\ \A f \in inbox' : f.key \notin raced' => dedup'[f.key] = f
         /\ raced' \subseteq raced \cup Keys
         /\ missed' = Missing(EntryOf(w)) /\ expiring' = {"inbox", "dedup"}
<1> USE DEF HubInv
<1> DEFINE e == EntryOf(w)
           old == worker[w].old
<1>1. /\ e \in Entry /\ old \in Entry \cup {NoEntry} /\ e.key = EventOf(w) /\ e.at = worker[w].at
      /\ worker[w].stage = "store"
  BY StoreDoes
<1>2. old # NoEntry => old.key = e.key
  BY <1>1 DEF DedupIsLast
<1>3. w \in Storing
  BY <1>1 DEF Storing
<1>4. inbox \subseteq Entry /\ clock \in Nat /\ IsFiniteSet(inbox) /\ inbox \subseteq KnownEntries
  BY DEF TypeOK, TimesDiffer, KnownEntries
<1>5. /\ e.at <= clock /\ \A f \in inbox : f.at <= clock /\ f.at # e.at
      /\ \A f, g \in inbox : f.at = g.at => f = g
  BY <1>1, <1>3, <1>4 DEF TimesDiffer
<1>6. /\ dedup \in [Keys -> Entry \cup {NoEntry}]
      /\ \A k \in Keys : dedup[k] # NoEntry => dedup[k].key = k
      /\ \A f \in inbox : f.key \notin raced => dedup[f.key] = f
  BY DEF TypeOK, DedupIsLast
<1>7. e.key \in Keys
  BY <1>1 DEF Entry
<1>8. missed' = Missing(e) /\ expiring' = {"inbox", "dedup"}
  BY DEF Added, Renewed
<1>9. Added(e, old)
  OBVIOUS
<1> HIDE DEF e, old, HubInv
<1>10. /\ inbox' \subseteq inbox \cup {e} /\ IsFiniteSet(inbox')
       /\ Cardinality(inbox') \in Nat /\ Cardinality(inbox') <= MaxNotifications
       /\ \A f, g \in inbox' : f.at = g.at => f = g
       /\ \A f \in inbox \cup {e} : \/ \E g \in inbox' : g.key = f.key
                                   \/ Cardinality(inbox') >= MaxNotifications
       /\ Cardinality(inbox) >= MaxNotifications => Cardinality(inbox') >= MaxNotifications
       /\ unread' = unread + 1
  BY <1>1, <1>2, <1>4, <1>5, <1>9, AddedInbox
<1>11. /\ dedup' \in [Keys -> Entry \cup {NoEntry}]
       /\ \A k \in Keys : dedup'[k] # NoEntry => dedup'[k].key = k
       /\ \A f \in inbox' : f.key \notin raced' => dedup'[f.key] = f
       /\ raced' \subseteq raced \cup {e.key}
  BY <1>1, <1>4, <1>6, <1>9, AddedDedup
<1> QED BY <1>7, <1>8, <1>10, <1>11 DEF e

LEMMA MarkDoes ==
  ASSUME HubInv, NEW r \in ReadCalls, MarkEntries(r)
  PROVE  /\ reader[r].stage = "marking"
         /\ reader' = [reader EXCEPT ![r] = [stage |-> "done", seen |-> {}]]
         /\ Marked(reader[r].seen) \/ UNCHANGED <<inbox, dedup, unread, expiring, raced>>
         /\ missed' = missed \cap Unread(inbox') /\ faults' \in 0..MaxFaults
         /\ UNCHANGED <<events, delivered, acked, worker, clients, clock, weeks, owed, dropped,
                        expired>>
<1>1. /\ reader[r].stage = "marking"
      /\ reader' = [reader EXCEPT ![r] = [stage |-> "done", seen |-> {}]]
      /\ Marked(reader[r].seen) \/ UNCHANGED <<store, raced>>
      /\ missed' = missed \cap Unread(inbox')
      /\ UNCHANGED <<streams, worker, clients, clock, owed, dropped, expired>>
  BY DEF MarkEntries
<1>2. faults' \in 0..MaxFaults
  BY HubBounds DEF MarkEntries, Fault, NoFault, HubInv, TypeOK
<1>3. Marked(reader[r].seen) => UNCHANGED weeks
  BY DEF Marked
<1>4. UNCHANGED <<store, raced>> => UNCHANGED <<inbox, dedup, unread, expiring, raced, weeks>>
  BY DEF store
<1> QED BY <1>1, <1>2, <1>3, <1>4 DEF streams

LEMMA MarkMarks ==
  ASSUME HubInv, NEW r \in ReadCalls, Marked(reader[r].seen)
  PROVE  /\ inbox' \subseteq Entry
         /\ \A e \in inbox' : \E f \in KnownEntries : f.key = e.key /\ f.at = e.at
         /\ \A e \in inbox : \E f \in inbox' : f.key = e.key /\ f.at = e.at
         /\ Unread(inbox') \subseteq Unread(inbox) \ reader[r].seen /\ unread' = 0
         /\ IsFiniteSet(inbox')
         /\ \A e, f \in inbox' : e.at = f.at => e = f
         /\ Cardinality(inbox') \in Nat /\ Cardinality(inbox) <= Cardinality(inbox')
         /\ raced' = {} => Cardinality(inbox') <= Cardinality(inbox)
         /\ dedup' \in [Keys -> Entry \cup {NoEntry}]
         /\ \A k \in Keys : dedup'[k] # NoEntry => dedup'[k].key = k
         /\ \A e \in inbox' : e.key \notin raced' => dedup'[e.key] = e
         /\ raced' \subseteq raced \cup Keys
         /\ expiring' # expiring => expiring' = expiring \ {"inbox"} /\ Unread(inbox') = {}
<1> USE DEF HubInv
<1> DEFINE seen == reader[r].seen
<1>1. seen \subseteq Entry /\ inbox \subseteq Entry /\ IsFiniteSet(seen) /\ IsFiniteSet(inbox)
  BY DEF TypeOK, TimesDiffer
<1>2. inbox \cup seen \subseteq KnownEntries
  BY DEF KnownEntries
<1>3. /\ \A e, f \in inbox \cup seen : e.at = f.at => e.key = f.key
      /\ \A e, f \in inbox : e.at = f.at => e = f
  BY <1>2 DEF TimesDiffer
<1>4. /\ dedup \in [Keys -> Entry \cup {NoEntry}]
      /\ \A k \in Keys : dedup[k] # NoEntry => dedup[k].key = k
      /\ \A f \in inbox : f.key \notin raced => dedup[f.key] = f
  BY DEF TypeOK, DedupIsLast
<1>5. Marked(seen)
  OBVIOUS
<1> HIDE DEF seen, HubInv
<1>6. /\ inbox' \subseteq Entry
      /\ \A e \in inbox' : \E f \in inbox \cup seen : f.key = e.key /\ f.at = e.at
      /\ \A e \in inbox : \E f \in inbox' : f.key = e.key /\ f.at = e.at
      /\ Unread(inbox') \subseteq Unread(inbox) \ seen
      /\ unread' = 0
  BY <1>1, <1>5, MarkedInbox
<1>7. /\ IsFiniteSet(inbox')
      /\ \A e, f \in inbox' : e.at = f.at => e = f
      /\ Cardinality(inbox') \in Nat /\ Cardinality(inbox) <= Cardinality(inbox')
      /\ raced' = {} => Cardinality(inbox') <= Cardinality(inbox)
  BY <1>1, <1>3, <1>5, MarkedTimes
<1>8. /\ dedup' \in [Keys -> Entry \cup {NoEntry}]
      /\ \A k \in Keys : dedup'[k] # NoEntry => dedup'[k].key = k
      /\ \A e \in inbox' : e.key \notin raced' => dedup'[e.key] = e
      /\ raced' \subseteq raced \cup Keys
  BY <1>1, <1>4, <1>5, MarkedDedup
<1>9. expiring' # expiring => expiring' = expiring \ {"inbox"} /\ Unread(inbox') = {}
  <2>1. \/ expiring' = expiring
        \/ /\ expiring' = expiring \ {"inbox"}
           /\ \E e \in Unread(seen) : inbox \subseteq {e}
    BY <1>5 DEF Marked
  <2> QED BY <2>1, <1>6 DEF Unread
<1> QED BY <1>2, <1>6, <1>7, <1>8, <1>9 DEF seen

LEMMA StoreKeepsAudience ==
  ASSUME HubInv, NEW w \in Workers, StoreEntry(w)
  PROVE  TypeOK' /\ TargetsAreOwed' /\ WatchersAreTold'
<1> USE DEF HubInv
<1>1. /\ worker' \in [Workers -> Worker] /\ worker[w].stage = "store"
      /\ \A v \in Workers : v # w => worker'[v] = worker[v]
      /\ worker'[w].stage \in {"push", "ack"} /\ worker'[w].msg = worker[w].msg
      /\ worker'[w].targets = {} /\ EntryOf(w) \in Entry
      /\ UNCHANGED <<events, delivered, acked, clients, reader, clock>>
      /\ Added(EntryOf(w), worker[w].old) \/ UNCHANGED <<inbox, dedup, unread, expiring, missed, raced>>
      /\ faults' \in 0..MaxFaults
      /\ \/ worker'[w].stage = "push" /\ UNCHANGED <<owed, dropped>>
         \/ /\ worker'[w].stage = "ack" /\ dropped' = dropped \cup {worker[w].msg}
            /\ owed' = [c \in Clients |-> IF c \in UserClients
                          THEN owed[c] \ {worker[w].msg} ELSE owed[c]]
      /\ weeks' = weeks /\ expired' \subseteq expired
  BY StoreDoes DEF TypeOK
<1>2. worker[w].msg \in DOMAIN events /\ Concerns(EventOf(w))
  BY <1>1, BusyIsTyped
<1>3. /\ inbox' \subseteq Entry /\ dedup' \in [Keys -> Entry \cup {NoEntry}] /\ unread' \in Nat
      /\ missed' \subseteq Entry /\ raced' \subseteq Keys /\ expiring' \subseteq {"inbox", "dedup"}
  <2>1. /\ inbox \subseteq Entry /\ dedup \in [Keys -> Entry \cup {NoEntry}] /\ unread \in Nat
        /\ missed \subseteq Entry /\ raced \subseteq Keys /\ expiring \subseteq {"inbox", "dedup"}
    BY DEF TypeOK
  <2>2. CASE Added(EntryOf(w), worker[w].old)
    <3>1. missed' \subseteq inbox'
      BY <2>2, StoreAdds DEF Missing
    <3>2. /\ inbox' \subseteq inbox \cup {EntryOf(w)} /\ unread' = unread + 1
          /\ dedup' \in [Keys -> Entry \cup {NoEntry}] /\ raced' \subseteq raced \cup Keys
          /\ expiring' = {"inbox", "dedup"}
      BY <2>2, StoreAdds
    <3> QED BY <2>1, <3>1, <3>2, <1>1
  <2> QED BY <2>1, <2>2, <1>1
<1>4. owed' \in [Clients -> SUBSET DOMAIN events] /\ dropped' \subseteq DOMAIN events
      /\ \A c \in Clients : owed'[c] \subseteq owed[c]
  BY <1>1, <1>2 DEF TypeOK
<1>5. TypeOK'
  BY <1>1, <1>3, <1>4 DEF TypeOK
<1>6. AtWork(worker'[w], delivered', events', owed')
  <2>1. AtWork(worker[w], delivered, events, owed)
    BY TargetsSplit
  <2>2. ASSUME NEW c \in Clients, worker'[w].msg \in owed'[c]
        PROVE  worker'[w].stage \in StagesBefore(c)
    <3>1. worker[w].msg \in owed[c]
      BY <2>2, <1>1, <1>4
    <3>2. c \notin AuctionClients
      BY <2>1, <3>1, <1>1 DEF AtWork, StagesBefore, StageFor
    <3>3. worker'[w].stage # "ack"
      BY <2>2, <3>2, <1>1 DEF Clients
    <3> QED BY <3>2, <3>3, <1>1 DEF StagesBefore
  <2>3. Concerns(events'[worker'[w].msg]) /\ worker'[w].msg \in delivered'
    BY <1>1, <1>2, BusyIsTyped DEF EventOf
  <2> QED BY <2>2, <2>3, <1>1 DEF AtWork
<1> QED BY <1>1, <1>4, <1>5, <1>6, AudienceKept

LEMMA ReaderKeepsAudience ==
  ASSUME HubInv, NEW r \in ReadCalls, MarkAllRead(r)
  PROVE  TypeOK' /\ TargetsAreOwed' /\ WatchersAreTold'
<1> USE DEF HubInv
<1> DEFINE Reader == [stage : {"idle", "empty", "marking", "done"}, seen : SUBSET Entry]
           done == [stage |-> "done", seen |-> {}]
<1>1. done \in Reader
  OBVIOUS
<1>2. CASE ListEntries(r)
  <2>1. /\ UNCHANGED <<events, delivered, acked, worker, clients, inbox, dedup, unread, expiring, weeks, clock,
                       faults, owed, dropped, missed, raced, expired>>
        /\ reader' \in [ReadCalls -> Reader]
    BY <1>2 DEF ListEntries, streams, store, history, TypeOK
  <2>2. TypeOK'
    BY <2>1 DEF TypeOK
  <2> QED BY <2>1, <2>2, AudienceKept
<1>3. CASE MarkEntries(r)
  <2>1. /\ UNCHANGED <<events, delivered, acked, worker, clients, clock, weeks, owed, dropped,
                       expired>>
        /\ Marked(reader[r].seen) \/ UNCHANGED <<inbox, dedup, unread, expiring, raced>>
        /\ missed' = missed \cap Unread(inbox') /\ faults' \in 0..MaxFaults
        /\ reader' = [reader EXCEPT ![r] = done]
    BY <1>3, MarkDoes
  <2>2. reader' \in [ReadCalls -> Reader]
    <3> HIDE DEF done
    <3> QED BY <1>1, <2>1 DEF TypeOK
  <2>3. /\ inbox' \subseteq Entry /\ dedup' \in [Keys -> Entry \cup {NoEntry}] /\ unread' \in Nat
        /\ raced' \subseteq Keys /\ expiring' \subseteq {"inbox", "dedup"}
    <3>1. CASE Marked(reader[r].seen)
      <4> HIDE DEF HubInv
      <4>1. /\ inbox' \subseteq Entry /\ dedup' \in [Keys -> Entry \cup {NoEntry}] /\ unread' = 0
            /\ raced' \subseteq raced \cup Keys
            /\ expiring' # expiring => expiring' = expiring \ {"inbox"}
        BY <3>1, MarkMarks
      <4> QED BY <4>1 DEF HubInv, TypeOK
    <3>2. CASE UNCHANGED <<inbox, dedup, unread, expiring, raced>>
      BY <3>2 DEF TypeOK
    <3> QED BY <2>1, <3>1, <3>2
  <2>4. missed' \subseteq Entry
    BY <2>1 DEF TypeOK
  <2>5. TypeOK'
    BY <2>1, <2>2, <2>3, <2>4 DEF TypeOK
  <2> QED BY <2>1, <2>5, AudienceKept
<1>4. CASE ResetCount(r)
  <2>1. /\ UNCHANGED <<events, delivered, acked, worker, clients, inbox, dedup, expiring, weeks, clock,
                       owed, dropped, missed, raced, expired>>
        /\ unread' \in {0, unread} /\ faults' \in 0..MaxFaults
        /\ reader' = [reader EXCEPT ![r] = done]
    BY <1>4, HubBounds DEF ResetCount, streams, history, Fault, NoFault, TypeOK
  <2>2. reader' \in [ReadCalls -> Reader]
    <3> HIDE DEF done
    <3> QED BY <1>1, <2>1 DEF TypeOK
  <2>3. TypeOK'
    <3> HIDE DEF done
    <3> QED BY <2>1, <2>2 DEF TypeOK
  <2> QED BY <2>1, <2>3, AudienceKept
<1> QED BY <1>2, <1>3, <1>4 DEF MarkAllRead

-----------------------------------------------------------------------------
(* Times, keys and size of the inbox *)

(* A step lets a worker that has yet to store its entry keep its time, or  *)
(* gives it a new one.                                                     *)
KeepsTime(w) ==
  worker'[w].stage \in {"dedup", "store"} =>
    \/ worker[w].stage \in {"dedup", "store"} /\ worker'[w].at = worker[w].at
    \/ /\ worker'[w].at = clock + 1 /\ clock' = clock + 1
       /\ \A v \in Workers : v # w => worker'[v] = worker[v]

(* The old entry of a worker, if it has one, is of its key.                *)
KeepsOld(w) ==
  worker'[w].old # NoEntry => worker'[w].stage = "store" /\ worker'[w].old.key = EventOf(w)'

(* An entry was known, or is the one that a worker had to store.           *)
IsKnown(e) ==
  \/ \E f \in KnownEntries : f.at = e.at /\ f.key = e.key
  \/ \E w \in Storing : /\ e.at = worker[w].at /\ e.key = EventOf(w)
                        /\ worker'[w].stage \notin {"dedup", "store"}

LEMMA TimesKept ==
  ASSUME HubInv, TypeOK', clock <= clock', \A w \in Workers : KeepsTime(w),
         IsFiniteSet(inbox'), \A r \in ReadCalls : IsFiniteSet(reader'[r].seen),
         \A e, f \in inbox' : e.at = f.at => e = f,
         \A e \in KnownEntries' : IsKnown(e)
  PROVE  TimesDiffer'
<1>1. /\ \A e \in KnownEntries : e.at \in Nat
      /\ clock \in Nat /\ clock' \in Nat
      /\ \A w \in Workers : worker[w].at \in Nat /\ worker'[w].at \in Nat
  <2>1. clock \in Nat /\ worker \in [Workers -> Worker] /\ KnownEntries \subseteq Entry
    BY DEF HubInv, TypeOK, KnownEntries
  <2>2. clock' \in Nat /\ worker' \in [Workers -> Worker]
    BY DEF TypeOK
  <2> QED BY <2>1, <2>2 DEF Worker, Entry
<1>2. /\ \A e \in KnownEntries : e.at <= clock
      /\ \A e, f \in KnownEntries : e.at = f.at => e.key = f.key
      /\ \A w \in Storing : /\ worker[w].at <= clock
                            /\ \A e \in KnownEntries : e.at # worker[w].at
                            /\ \A v \in Storing : v # w => worker[v].at # worker[w].at
  BY DEF HubInv, TimesDiffer
<1>3. \A e \in KnownEntries' : e.at <= clock'
  <2> TAKE e \in KnownEntries'
  <2>1. CASE \E f \in KnownEntries : f.at = e.at /\ f.key = e.key
    BY <2>1, <1>1, <1>2
  <2>2. CASE \E w \in Storing : e.at = worker[w].at /\ e.key = EventOf(w)
    BY <2>2, <1>1, <1>2 DEF Storing
  <2> QED BY <2>1, <2>2 DEF IsKnown
<1>4. ASSUME NEW e \in KnownEntries', NEW f \in KnownEntries', e.at = f.at
      PROVE  e.key = f.key
  <2>1. IsKnown(e) /\ IsKnown(f)
    OBVIOUS
  <2>2. CASE \E g \in KnownEntries : g.at = e.at /\ g.key = e.key
    <3>1. ~\E w \in Storing : f.at = worker[w].at
      BY <2>2, <1>2, <1>4
    <3>2. \E g \in KnownEntries : g.at = f.at /\ g.key = f.key
      BY <2>1, <3>1 DEF IsKnown
    <3> QED BY <2>2, <3>2, <1>2, <1>4
  <2>3. CASE \E w \in Storing : e.at = worker[w].at /\ e.key = EventOf(w)
    <3>1. PICK w \in Storing : e.at = worker[w].at /\ e.key = EventOf(w)
      BY <2>3
    <3>2. \E v \in Storing : f.at = worker[v].at /\ f.key = EventOf(v)
      <4>1. \A g \in KnownEntries : g.at # f.at
        BY <3>1, <1>2, <1>4
      <4> QED BY <4>1, <2>1 DEF IsKnown
    <3> QED BY <3>1, <3>2, <1>2, <1>4
  <2> QED BY <2>1, <2>2, <2>3 DEF IsKnown
<1>5. ASSUME NEW w \in Storing'
      PROVE  /\ w \in Workers /\ worker'[w].at <= clock'
             /\ \A e \in KnownEntries' : e.at # worker'[w].at
             /\ \A v \in Storing' : v # w => worker'[v].at # worker'[w].at
  <2>1. w \in Workers /\ worker'[w].stage \in {"dedup", "store"} /\ KeepsTime(w)
    BY DEF Storing
  <2>2. \A v \in Storing' : v \in Workers /\ worker'[v].stage \in {"dedup", "store"} /\ KeepsTime(v)
    BY DEF Storing
  <2>3. CASE worker[w].stage \in {"dedup", "store"} /\ worker'[w].at = worker[w].at
    <3>1. w \in Storing
      BY <2>1, <2>3 DEF Storing
    <3>2. \A e \in KnownEntries' : e.at # worker'[w].at
      <4> TAKE e \in KnownEntries'
      <4>1. CASE \E f \in KnownEntries : f.at = e.at /\ f.key = e.key
        BY <4>1, <3>1, <2>3, <1>2
      <4>2. CASE \E v \in Storing : /\ e.at = worker[v].at
                                    /\ worker'[v].stage \notin {"dedup", "store"}
        <5>1. PICK v \in Storing : e.at = worker[v].at /\ worker'[v].stage \notin {"dedup", "store"}
          BY <4>2
        <5>2. v # w
          BY <5>1, <2>1
        <5> QED BY <5>1, <5>2, <3>1, <2>3, <1>2
      <4> QED BY <4>1, <4>2 DEF IsKnown
    <3>3. ASSUME NEW v \in Storing', v # w PROVE worker'[v].at # worker'[w].at
      <4>1. CASE worker[v].stage \in {"dedup", "store"} /\ worker'[v].at = worker[v].at
        <5>1. v \in Storing
          BY <4>1, <2>2 DEF Storing
        <5> QED BY <5>1, <4>1, <3>1, <3>3, <2>3, <1>2
      <4>2. CASE worker'[v].at = clock + 1
        BY <4>2, <3>1, <2>1, <2>3, <1>1, <1>2
      <4> QED BY <4>1, <4>2, <2>2 DEF KeepsTime
    <3> QED BY <3>1, <3>2, <3>3, <2>1, <2>3, <1>1, <1>2
  <2>4. CASE /\ worker'[w].at = clock + 1 /\ clock' = clock + 1
             /\ \A v \in Workers : v # w => worker'[v] = worker[v]
    <3>1. \A e \in KnownEntries' : e.at # worker'[w].at
      <4> TAKE e \in KnownEntries'
      <4>1. CASE \E f \in KnownEntries : f.at = e.at /\ f.key = e.key
        BY <4>1, <2>4, <1>1, <1>2
      <4>2. CASE \E v \in Storing : e.at = worker[v].at
        BY <4>2, <2>4, <1>1, <1>2 DEF Storing
      <4> QED BY <4>1, <4>2 DEF IsKnown
    <3>2. ASSUME NEW v \in Storing', v # w PROVE worker'[v].at # worker'[w].at
      <4>1. v \in Workers /\ v \in Storing /\ worker'[v].at = worker[v].at
        BY <2>2, <2>4, <3>2 DEF Storing
      <4> QED BY <4>1, <2>4, <1>1, <1>2
    <3> QED BY <3>1, <3>2, <2>1, <2>4, <1>1
  <2> QED BY <2>1, <2>3, <2>4 DEF KeepsTime
<1> QED BY <1>3, <1>4, <1>5 DEF TimesDiffer

LEMMA KnownSplit ==
  /\ \A e : e \in KnownEntries <=> e \in inbox \/ \E r \in ReadCalls : e \in reader[r].seen
  /\ \A e : e \in KnownEntries' <=> e \in inbox' \/ \E r \in ReadCalls : e \in reader'[r].seen
BY DEF KnownEntries

LEMMA DedupKept ==
  ASSUME DedupIsLast, UNCHANGED <<inbox, dedup, raced>>, \A w \in Workers : KeepsOld(w)
  PROVE  DedupIsLast'
<1>1. \A w \in Workers : worker'[w].old # NoEntry =>
        worker'[w].stage = "store" /\ worker'[w].old.key = EventOf(w)'
  BY DEF KeepsOld
<1>2. (\A w \in Workers : worker[w].old # NoEntry =>
         worker[w].stage = "store" /\ worker[w].old.key = EventOf(w))'
  BY <1>1 DEF EventOf
<1> QED BY <1>2 DEF DedupIsLast

(* A step that leaves the inbox and those who mark it alone.               *)
LEMMA QuietKeepsInbox ==
  ASSUME HubInv, TypeOK', UNCHANGED <<inbox, dedup, raced, reader>>, clock <= clock',
         \A w \in Workers : KeepsTime(w) /\ KeepsOld(w)
  PROVE  TimesDiffer' /\ DedupIsLast' /\ InboxIsCapped'
<1> USE DEF HubInv
<1>1. KnownEntries' = KnownEntries
  BY DEF KnownEntries
<1>2. \A e \in KnownEntries' : IsKnown(e)
  BY <1>1 DEF IsKnown
<1>3. /\ IsFiniteSet(inbox') /\ \A r \in ReadCalls : IsFiniteSet(reader'[r].seen)
      /\ \A e, f \in inbox' : e.at = f.at => e = f
  BY DEF TimesDiffer
<1> QED BY <1>2, <1>3, TimesKept, DedupKept DEF InboxIsCapped

(* What is at work and what is stored does not change an event.            *)
LEMMA SlotsKept ==
  ASSUME HubInv, NEW w \in Workers, worker'[w] = worker[w],
         \A k \in DOMAIN events : events'[k] = events[k]
  PROVE  KeepsTime(w) /\ KeepsOld(w)
<1>1. worker[w].old # NoEntry => worker[w].stage = "store" /\ worker[w].old.key = EventOf(w)
  BY DEF HubInv, DedupIsLast
<1>2. worker[w].stage = "store" => worker[w].msg \in DOMAIN events
  BY BusyIsTyped DEF HubInv
<1> QED BY <1>1, <1>2 DEF KeepsTime, KeepsOld, EventOf

LEMMA FreeSlotsKept ==
  ASSUME NEW w \in Workers, worker'[w].old = NoEntry,
         worker'[w].stage \notin {"dedup", "store"}
  PROVE  KeepsTime(w) /\ KeepsOld(w)
BY DEF KeepsTime, KeepsOld

LEMMA OnlyStoringHasOld ==
  ASSUME HubInv, NEW w \in Workers, worker[w].stage # "store"
  PROVE  worker[w].old = NoEntry
BY DEF HubInv, DedupIsLast

LEMMA OutsideKeepsInbox ==
  ASSUME HubInv, TypeOK',
         \/ \E e \in Event : Publish(e)
         \/ \E c \in Clients : Register(c) \/ Unregister(c)
         \/ Crash
  PROVE  TimesDiffer' /\ DedupIsLast' /\ InboxIsCapped'
<1>1. /\ UNCHANGED <<inbox, dedup, raced, reader, clock>>
      /\ \A w \in Workers : worker'[w] = worker[w] \/ worker'[w] = Idle
  BY DEF Publish, Register, Unregister, Crash, store, history
<1>2. \A k \in DOMAIN events : events'[k] = events[k]
  <2>1. CASE \E e \in Event : Publish(e)
    <3>1. PICK e \in Event : events' = Append(events, e)
      BY <2>1 DEF Publish
    <3> QED BY <3>1 DEF HubInv, TypeOK
  <2>2. CASE ~\E e \in Event : Publish(e)
    BY <2>2 DEF Register, Unregister, Crash, streams
  <2> QED BY <2>1, <2>2
<1>3. \A w \in Workers : KeepsTime(w) /\ KeepsOld(w)
  BY <1>1, <1>2, SlotsKept, FreeSlotsKept, IdleIsTyped
<1>4. clock <= clock'
  BY <1>1 DEF HubInv, TypeOK
<1> QED BY <1>1, <1>3, <1>4, QuietKeepsInbox

LEMMA BeginKeepsInbox ==
  ASSUME HubInv, TypeOK', NEW w \in Workers, NEW k \in DOMAIN events,
         ReadMessage(w, k) \/ Reclaim(w, k)
  PROVE  TimesDiffer' /\ DedupIsLast' /\ InboxIsCapped'
<1>1. UNCHANGED <<inbox, dedup, raced, reader, clock, events>> /\ Begin(w, k)
  BY DEF ReadMessage, Reclaim, store, history, streams
<1>2. /\ \A v \in Workers : v # w => worker'[v] = worker[v]
      /\ worker'[w].stage = "broadcast" /\ worker'[w].old = NoEntry
  BY <1>1, BeginDoes DEF HubInv
<1>3. \A v \in Workers : KeepsTime(v) /\ KeepsOld(v)
  BY <1>1, <1>2, SlotsKept, FreeSlotsKept
<1>4. clock <= clock'
  BY <1>1 DEF HubInv, TypeOK
<1> QED BY <1>1, <1>3, <1>4, QuietKeepsInbox

LEMMA LeftKeepsInbox ==
  ASSUME HubInv, TypeOK', NEW w \in Workers,
         CopyTargets(w) \/ \E c \in Clients : Send(w, c)
  PROVE  TimesDiffer' /\ DedupIsLast' /\ InboxIsCapped'
<1>1. UNCHANGED <<inbox, dedup, raced, reader, events>>
  BY DEF CopyTargets, Send, store, history, streams
<1>2. PICK targets \in SUBSET Clients :
        Left(w, targets) /\ worker[w].stage \in {"broadcast", "sending", "push", "pushing"}
  BY CopyDoes, SendDoes DEF HubInv
<1>3. /\ \A v \in Workers : v # w => worker'[v] = worker[v]
      /\ worker'[w].old = worker[w].old
      /\ \/ worker'[w].stage \in {"sending", "pushing", "ack"} /\ clock' = clock
         \/ worker'[w].at = clock + 1 /\ clock' = clock + 1
  BY <1>2, LeftDoes DEF HubInv
<1>4. worker[w].old = NoEntry
  BY <1>2, OnlyStoringHasOld
<1>5. \A v \in Workers : v # w => KeepsTime(v) /\ KeepsOld(v)
  BY <1>1, <1>3, SlotsKept
<1>6. KeepsTime(w) /\ KeepsOld(w)
  BY <1>3, <1>4 DEF KeepsTime, KeepsOld
<1>7. clock <= clock'
  BY <1>3 DEF HubInv, TypeOK
<1> QED BY <1>1, <1>5, <1>6, <1>7, QuietKeepsInbox

LEMMA LookupKeepsInbox ==
  ASSUME HubInv, TypeOK', NEW w \in Workers, ReadDedup(w)
  PROVE  TimesDiffer' /\ DedupIsLast' /\ InboxIsCapped'
<1>1. UNCHANGED <<inbox, dedup, raced, reader, clock, events>>
  BY DEF ReadDedup, store, history, streams
<1>2. /\ worker[w].stage = "dedup" /\ \A v \in Workers : v # w => worker'[v] = worker[v]
      /\ worker'[w].stage = "store" /\ worker'[w].msg = worker[w].msg
      /\ worker'[w].at = worker[w].at
      /\ worker'[w].old \in {worker[w].old, dedup[EventOf(w)]}
  BY LookupDoes DEF HubInv
<1>3. worker[w].old = NoEntry /\ EventOf(w) \in Keys
  BY <1>2, OnlyStoringHasOld, BusyIsTyped DEF HubInv
<1>4. KeepsTime(w)
  BY <1>2 DEF KeepsTime
<1>5. KeepsOld(w)
  <2>1. dedup[EventOf(w)] # NoEntry => dedup[EventOf(w)].key = EventOf(w)
    BY <1>3 DEF HubInv, DedupIsLast
  <2>2. EventOf(w)' = EventOf(w)
    BY <1>1, <1>2 DEF EventOf
  <2> QED BY <2>1, <2>2, <1>2, <1>3 DEF KeepsOld
<1>6. \A v \in Workers : v # w => KeepsTime(v) /\ KeepsOld(v)
  BY <1>1, <1>2, SlotsKept
<1>7. clock <= clock'
  BY <1>1 DEF HubInv, TypeOK
<1> QED BY <1>1, <1>4, <1>5, <1>6, <1>7, QuietKeepsInbox

LEMMA AckKeepsInbox ==
  ASSUME HubInv, TypeOK', NEW w \in Workers, Acknowledge(w)
  PROVE  TimesDiffer' /\ DedupIsLast' /\ InboxIsCapped'
<1>1. UNCHANGED <<inbox, dedup, raced, reader, clock, events>>
  BY DEF Acknowledge, store, history
<1>2. worker'[w] = Idle /\ \A v \in Workers : v # w => worker'[v] = worker[v]
  BY AckDoes DEF HubInv
<1>3. \A v \in Workers : KeepsTime(v) /\ KeepsOld(v)
  BY <1>1, <1>2, SlotsKept, FreeSlotsKept, IdleIsTyped
<1>4. clock <= clock'
  BY <1>1 DEF HubInv, TypeOK
<1> QED BY <1>1, <1>3, <1>4, QuietKeepsInbox

LEMMA StoreKeepsInbox ==
  ASSUME HubInv, TypeOK', NEW w \in Workers, StoreEntry(w)
  PROVE  TimesDiffer' /\ DedupIsLast' /\ InboxIsCapped'
<1>1. /\ worker[w].stage = "store" /\ \A v \in Workers : v # w => worker'[v] = worker[v]
      /\ worker'[w].stage \in {"push", "ack"} /\ worker'[w].old = NoEntry
      /\ EntryOf(w).key = EventOf(w) /\ EntryOf(w).at = worker[w].at
      /\ UNCHANGED <<events, reader, clock>>
      /\ Added(EntryOf(w), worker[w].old) \/ UNCHANGED <<inbox, dedup, unread, expiring, missed, raced>>
  BY StoreDoes DEF HubInv
<1>2. \A v \in Workers : KeepsTime(v) /\ KeepsOld(v)
  BY <1>1, SlotsKept, FreeSlotsKept
<1>3. clock <= clock'
  BY <1>1 DEF HubInv, TypeOK
<1>4. CASE UNCHANGED <<inbox, dedup, unread, expiring, missed, raced>>
  BY <1>1, <1>2, <1>3, <1>4, QuietKeepsInbox
<1>5. CASE Added(EntryOf(w), worker[w].old)
  <2>1. /\ inbox' \subseteq inbox \cup {EntryOf(w)} /\ IsFiniteSet(inbox')
        /\ Cardinality(inbox') <= MaxNotifications
        /\ \A f, g \in inbox' : f.at = g.at => f = g
        /\ \A k \in Keys : dedup'[k] # NoEntry => dedup'[k].key = k
        /\ \A f \in inbox' : f.key \notin raced' => dedup'[f.key] = f
    BY <1>5, StoreAdds
  <2>2. ASSUME NEW e \in KnownEntries' PROVE IsKnown(e)
    <3>1. CASE e \in KnownEntries
      BY <3>1 DEF IsKnown
    <3>2. CASE e = EntryOf(w)
      <4>1. w \in Storing /\ worker'[w].stage \notin {"dedup", "store"}
        BY <1>1 DEF Storing
      <4> QED BY <4>1, <3>2, <1>1 DEF IsKnown
    <3> QED BY <3>1, <3>2, <2>1, <1>1 DEF KnownEntries
  <2>3. \A r \in ReadCalls : IsFiniteSet(reader'[r].seen)
    BY <1>1 DEF HubInv, TimesDiffer
  <2>4. TimesDiffer'
    BY <1>2, <1>3, <2>1, <2>2, <2>3, TimesKept
  <2>5. \A v \in Workers : worker'[v].old # NoEntry =>
          worker'[v].stage = "store" /\ worker'[v].old.key = EventOf(v)'
    BY <1>2 DEF KeepsOld
  <2>6. (\A v \in Workers : worker[v].old # NoEntry =>
           worker[v].stage = "store" /\ worker[v].old.key = EventOf(v))'
    BY <2>5 DEF EventOf
  <2> QED BY <2>1, <2>4, <2>6 DEF DedupIsLast, InboxIsCapped
<1> QED BY <1>1, <1>4, <1>5

LEMMA ReaderKeepsInbox ==
  ASSUME HubInv, TypeOK', NEW r \in ReadCalls, MarkAllRead(r)
  PROVE  TimesDiffer' /\ DedupIsLast' /\ InboxIsCapped'
<1> DEFINE done == [stage |-> "done", seen |-> {}]
<1>1. /\ UNCHANGED <<events, worker, clock>>
      /\ \/ /\ UNCHANGED <<inbox, dedup, raced>>
            /\ \E q : reader' = [reader EXCEPT ![r] = q] /\ q.seen \in {{}, inbox}
         \/ /\ Marked(reader[r].seen) /\ reader' = [reader EXCEPT ![r] = done]
  <2>1. CASE ListEntries(r)
    <3> DEFINE q == [stage |-> IF inbox = {} THEN "empty" ELSE "marking", seen |-> inbox]
    <3>1. UNCHANGED <<events, worker, clock, inbox, dedup, raced>> /\ reader' = [reader EXCEPT ![r] = q]
      BY <2>1 DEF ListEntries, streams, store, history
    <3>2. q.seen = inbox
      OBVIOUS
    <3> HIDE DEF q
    <3> QED BY <3>1, <3>2
  <2>2. CASE MarkEntries(r)
    <3>1. /\ UNCHANGED <<events, worker, clock>> /\ reader' = [reader EXCEPT ![r] = done]
          /\ Marked(reader[r].seen) \/ UNCHANGED <<inbox, dedup, unread, expiring, raced>>
      BY <2>2, MarkDoes
    <3>2. done.seen \in {{}, inbox}
      OBVIOUS
    <3> HIDE DEF done
    <3> QED BY <3>1, <3>2
  <2>3. CASE ResetCount(r)
    <3>1. UNCHANGED <<events, worker, clock, inbox, dedup, raced>> /\ reader' = [reader EXCEPT ![r] = done]
      BY <2>3 DEF ResetCount, streams, history
    <3>2. done.seen \in {{}, inbox}
      OBVIOUS
    <3> HIDE DEF done
    <3> QED BY <3>1, <3>2
  <2> QED BY <2>1, <2>2, <2>3 DEF MarkAllRead
<1>2. reader \in [ReadCalls -> [stage : {"idle", "empty", "marking", "done"}, seen : SUBSET Entry]]
  BY DEF HubInv, TypeOK
<1>3. \A w \in Workers : KeepsTime(w) /\ KeepsOld(w)
  BY <1>1, SlotsKept
<1>4. clock <= clock'
  BY <1>1 DEF HubInv, TypeOK
<1>5. \A w \in Workers : worker'[w].old # NoEntry =>
        worker'[w].stage = "store" /\ worker'[w].old.key = EventOf(w)'
  BY <1>3 DEF KeepsOld
<1>6. \A s \in ReadCalls : reader'[s].seen \in {reader[s].seen, {}, inbox}
  <2>1. done.seen = {}
    OBVIOUS
  <2> HIDE DEF done
  <2> QED BY <1>1, <1>2, <2>1
<1>7. \A s \in ReadCalls : IsFiniteSet(reader'[s].seen)
  BY <1>6, FS_EmptySet DEF HubInv, TimesDiffer
<1>8. CASE UNCHANGED <<inbox, dedup, raced>>
  <2>1. \A e \in KnownEntries' : e \in KnownEntries
    BY <1>6, <1>8, KnownSplit
  <2>2. \A e \in KnownEntries' : IsKnown(e)
    BY <2>1 DEF IsKnown
  <2>3. IsFiniteSet(inbox') /\ \A e, f \in inbox' : e.at = f.at => e = f
    BY <1>8 DEF HubInv, TimesDiffer
  <2> QED BY <1>3, <1>4, <1>7, <1>8, <2>2, <2>3, TimesKept, DedupKept DEF HubInv, InboxIsCapped
<1>9. CASE Marked(reader[r].seen)
  <2>1. /\ \A e \in inbox' : \E f \in KnownEntries : f.key = e.key /\ f.at = e.at
        /\ IsFiniteSet(inbox') /\ \A e, f \in inbox' : e.at = f.at => e = f
        /\ Cardinality(inbox') \in Nat
        /\ raced' = {} => Cardinality(inbox') <= Cardinality(inbox)
        /\ \A k \in Keys : dedup'[k] # NoEntry => dedup'[k].key = k
        /\ \A e \in inbox' : e.key \notin raced' => dedup'[e.key] = e
    BY <1>9, MarkMarks
  <2>2. \A e \in KnownEntries' : IsKnown(e)
    <3> TAKE e \in KnownEntries'
    <3>1. CASE e \in inbox'
      BY <3>1, <2>1 DEF IsKnown
    <3>2. CASE e \in KnownEntries
      BY <3>2 DEF IsKnown
    <3> QED BY <3>1, <3>2, <1>6, KnownSplit
  <2>3. TimesDiffer'
    BY <1>3, <1>4, <1>7, <2>1, <2>2, TimesKept
  <2>4. DedupIsLast'
    <3>1. (\A w \in Workers : worker[w].old # NoEntry =>
             worker[w].stage = "store" /\ worker[w].old.key = EventOf(w))'
      BY <1>5 DEF EventOf
    <3> QED BY <2>1, <3>1 DEF DedupIsLast
  <2>5. InboxIsCapped'
    <3>1. raced \subseteq raced'
      BY <1>9 DEF Marked
    <3>2. Cardinality(inbox) \in Nat
      BY FS_CardinalityType DEF HubInv, TimesDiffer
    <3> QED BY <2>1, <3>1, <3>2, HubBounds DEF HubInv, InboxIsCapped
  <2> QED BY <2>3, <2>4, <2>5
<1> QED BY <1>1, <1>8, <1>9

-----------------------------------------------------------------------------
(* The counter, and what came while the inbox was being marked             *)

LEMMA CountedKept ==
  ASSUME HubInv, UNCHANGED <<inbox, unread, expiring, missed, reader>>
  PROVE  ReadersHaveSeen' /\ CountCoversUnread' /\ UnreadExpire'
BY DEF HubInv, ReadersHaveSeen, CountCoversUnread, UnreadExpire, Unread

LEMMA UnreadIsFinite ==
  ASSUME HubInv
  PROVE  /\ IsFiniteSet(Unread(inbox) \ missed) /\ Cardinality(Unread(inbox) \ missed) \in Nat
         /\ unread \in Nat
<1>1. IsFiniteSet(inbox) /\ Unread(inbox) \ missed \subseteq inbox /\ unread \in Nat
  BY DEF HubInv, TimesDiffer, Unread, TypeOK
<1> QED BY <1>1, FS_Subset, FS_CardinalityType

LEMMA StoreKeepsCount ==
  ASSUME HubInv, NEW w \in Workers, StoreEntry(w)
  PROVE  ReadersHaveSeen' /\ CountCoversUnread' /\ UnreadExpire'
<1> USE DEF HubInv
<1> DEFINE e == EntryOf(w)
<1>1. reader' = reader /\ (Added(e, worker[w].old) \/ UNCHANGED <<inbox, dedup, unread, expiring, missed, raced>>)
  BY StoreDoes
<1>2. CASE UNCHANGED <<inbox, dedup, unread, expiring, missed, raced>>
  BY <1>1, <1>2, CountedKept
<1>3. CASE Added(e, worker[w].old)
  <2>1. inbox' \subseteq inbox \cup {e} /\ unread' = unread + 1 /\ missed' = Missing(e)
    BY <1>3, StoreAdds
  <2> HIDE DEF e
  <2>2. \A f \in inbox' : f \in missed => f \in missed'
    BY <2>1 DEF Missing
  <2>3. Unread(inbox') \ missed' \subseteq (Unread(inbox) \ missed) \cup {e}
    BY <2>1, <2>2 DEF Unread
  <2>4. CountCoversUnread'
    <3> DEFINE old == Unread(inbox) \ missed
               new == Unread(inbox') \ missed'
    <3>1. IsFiniteSet(old) /\ Cardinality(old) \in Nat /\ Cardinality(old) <= unread /\ unread \in Nat
      BY UnreadIsFinite DEF CountCoversUnread
    <3> HIDE DEF old
    <3>2. IsFiniteSet(old \cup {e}) /\ Cardinality(old \cup {e}) \in Nat
          /\ Cardinality(old \cup {e}) <= Cardinality(old) + 1
      <4>1. CASE e \in old
        <5>1. old \cup {e} = old
          BY <4>1
        <5> QED BY <5>1, <3>1
      <4>2. CASE e \notin old
        BY <4>2, <3>1, FS_AddElement
      <4> QED BY <4>1, <4>2
    <3>3. new \subseteq old \cup {e}
      BY <2>3 DEF old
    <3> HIDE DEF new
    <3>4. Cardinality(new) \in Nat /\ Cardinality(new) <= Cardinality(old \cup {e})
      BY <3>2, <3>3, FS_Subset, FS_CardinalityType
    <3>5. Cardinality(new) <= unread'
      BY <3>1, <3>2, <3>4, <2>1
    <3> QED BY <3>5 DEF CountCoversUnread, new, Unread
  <2>5. ReadersHaveSeen'
    <3>1. ASSUME NEW r \in ReadCalls, reader[r].stage \in {"marking", "empty"},
                 NEW f \in Unread(inbox'), f \in Unread(inbox) => f \in missed
          PROVE  f \in missed'
      <4>1. f \in inbox' /\ (f = e \/ f \in Unread(inbox))
        BY <2>1 DEF Unread
      <4>2. CASE f = e
        BY <4>1, <4>2, <3>1, <2>1 DEF Missing
      <4>3. CASE f \in Unread(inbox)
        BY <4>1, <4>3, <3>1, <2>2
      <4> QED BY <4>1, <4>2, <4>3
    <3>2. ASSUME NEW r \in ReadCalls
          PROVE  /\ reader'[r].stage = "marking" => Unread(inbox') \ reader'[r].seen \subseteq missed'
                 /\ reader'[r].stage = "empty" => Unread(inbox') \subseteq missed'
      BY <3>1, <1>1 DEF ReadersHaveSeen
    <3>3. Unread(inbox)' = Unread(inbox')
      BY DEF Unread
    <3> QED BY <3>2, <3>3 DEF ReadersHaveSeen
  <2>6. UnreadExpire'
    <3>1. expiring' = {"inbox", "dedup"}
      BY <1>3, StoreAdds DEF e
    <3> QED BY <3>1 DEF UnreadExpire
  <2> QED BY <2>4, <2>5, <2>6
<1> QED BY <1>1, <1>2, <1>3

LEMMA ReaderKeepsCount ==
  ASSUME HubInv, NEW r \in ReadCalls, MarkAllRead(r)
  PROVE  ReadersHaveSeen' /\ CountCoversUnread' /\ UnreadExpire'
<1> USE DEF HubInv
<1> DEFINE done == [stage |-> "done", seen |-> {}]
<1>0. reader \in [ReadCalls -> [stage : {"idle", "empty", "marking", "done"}, seen : SUBSET Entry]]
  BY DEF TypeOK
<1>1. CASE ListEntries(r)
  <2> DEFINE q == [stage |-> IF inbox = {} THEN "empty" ELSE "marking", seen |-> inbox]
  <2>1. UNCHANGED <<inbox, unread, expiring, missed>> /\ reader' = [reader EXCEPT ![r] = q]
    BY <1>1 DEF ListEntries, store, history
  <2>2. q.seen = inbox
    OBVIOUS
  <2> HIDE DEF q
  <2>3a. q.stage = "empty" => inbox = {}
    BY DEF q
  <2>3. \A s \in ReadCalls : \/ reader'[s] = reader[s]
                             \/ /\ reader'[s].seen = inbox
                                /\ reader'[s].stage = "empty" => inbox = {}
    BY <1>0, <2>1, <2>2, <2>3a
  <2>4. ReadersHaveSeen'
    BY <2>1, <2>3 DEF ReadersHaveSeen, Unread
  <2>5. CountCoversUnread' /\ UnreadExpire'
    BY <2>1 DEF CountCoversUnread, UnreadExpire, Unread
  <2> QED BY <2>4, <2>5
<1>2. ASSUME reader' = [reader EXCEPT ![r] = done]
      PROVE  \A s \in ReadCalls : reader'[s] = reader[s] \/ reader'[s].stage = "done"
  <2>1. done.stage = "done"
    OBVIOUS
  <2> HIDE DEF done
  <2> QED BY <1>0, <1>2, <2>1
<1>3. CASE MarkEntries(r)
  <2>1. /\ reader[r].stage = "marking" /\ reader' = [reader EXCEPT ![r] = done]
        /\ Marked(reader[r].seen) \/ UNCHANGED <<inbox, dedup, unread, expiring, raced>>
        /\ missed' = missed \cap Unread(inbox')
    BY <1>3, MarkDoes
  <2>2. \A s \in ReadCalls : reader'[s] = reader[s] \/ reader'[s].stage = "done"
    BY <1>2, <2>1
  <2> HIDE DEF done
  <2>3. CASE Marked(reader[r].seen)
    <3>1. /\ Unread(inbox') \subseteq Unread(inbox) \ reader[r].seen /\ unread' = 0
          /\ expiring' = expiring \/ Unread(inbox') = {}
      BY <2>3, MarkMarks
    <3>2. Unread(inbox) \ reader[r].seen \subseteq missed
      BY <2>1 DEF ReadersHaveSeen
    <3>3. Unread(inbox') \ missed' = {}
      BY <3>1, <3>2, <2>1
    <3>4. ReadersHaveSeen'
      BY <3>3 DEF ReadersHaveSeen, Unread
    <3>5. CountCoversUnread'
      <4>1. Cardinality(Unread(inbox') \ missed') <= unread'
        BY <3>1, <3>3, FS_EmptySet
      <4> QED BY <4>1 DEF CountCoversUnread, Unread
    <3>6. UnreadExpire'
      <4>1. "inbox" \notin expiring' => Unread(inbox') = {}
        BY <3>1 DEF UnreadExpire
      <4> QED BY <4>1 DEF UnreadExpire, Unread
    <3> QED BY <3>4, <3>5, <3>6
  <2>4. CASE UNCHANGED <<inbox, dedup, unread, expiring, raced>>
    <3>1. Unread(inbox') = Unread(inbox)
      BY <2>4 DEF Unread
    <3>2. Unread(inbox') \ missed' = Unread(inbox) \ missed
      BY <3>1, <2>1
    <3>3. ReadersHaveSeen'
      BY <2>1, <2>2, <3>1 DEF ReadersHaveSeen, Unread
    <3>4. CountCoversUnread'
      <4>1. Cardinality(Unread(inbox') \ missed') <= unread'
        BY <3>2, <2>4 DEF CountCoversUnread
      <4> QED BY <4>1 DEF CountCoversUnread, Unread
    <3>5. UnreadExpire'
      BY <2>4 DEF UnreadExpire, Unread
    <3> QED BY <3>3, <3>4, <3>5
  <2> QED BY <2>1, <2>3, <2>4
<1>4. CASE ResetCount(r)
  <2>1. /\ UNCHANGED <<inbox, expiring, missed>> /\ unread' \in {0, unread} /\ reader[r].stage = "empty"
        /\ reader' = [reader EXCEPT ![r] = done]
    BY <1>4 DEF ResetCount, history
  <2>2. \A s \in ReadCalls : reader'[s] = reader[s] \/ reader'[s].stage = "done"
    BY <1>2, <2>1
  <2> HIDE DEF done
  <2>3. ReadersHaveSeen'
    BY <2>1, <2>2 DEF ReadersHaveSeen, Unread
  <2>4. CountCoversUnread'
    <3>1. Unread(inbox) \subseteq missed
      BY <2>1 DEF ReadersHaveSeen
    <3>2. Unread(inbox') \ missed' = {}
      BY <3>1, <2>1 DEF Unread
    <3>3. Cardinality(Unread(inbox') \ missed') <= unread'
      BY <3>2, <2>1, FS_EmptySet, UnreadIsFinite
    <3> QED BY <3>3 DEF CountCoversUnread, Unread
  <2>5. UnreadExpire'
    BY <2>1 DEF UnreadExpire, Unread
  <2> QED BY <2>3, <2>4, <2>5
<1> QED BY <1>1, <1>3, <1>4 DEF MarkAllRead

-----------------------------------------------------------------------------
(* What was stored stays                                                   *)

Has(entries, k) ==
  (\E e \in entries : e.key = k) \/ Cardinality(entries) >= MaxNotifications

(* A worker that is past storing its notification has stored it. *)
HasStored(w) ==
  worker'[w].stage \in {"push", "pushing", "ack"}
    /\ worker'[w].msg \notin dropped' \cup expired'
    /\ Concerns(EventOf(w)') => Has(inbox', EventOf(w)')

LEMMA StoredKept ==
  ASSUME HubInv, NEW w \in Workers, worker'[w] = worker[w],
         \A k \in DOMAIN events : events'[k] = events[k],
         dropped \subseteq dropped', \A k \in Keys : Has(inbox, k) => Has(inbox', k),
         \A k \in expired \ expired' : Has(inbox', events[k])
  PROVE  HasStored(w)
<1>1. worker[w].stage # "idle" => EventOf(w)' = EventOf(w)
  BY BusyIsTyped DEF HubInv, EventOf
<1>2. worker[w].stage # "idle" => (Concerns(EventOf(w)) => EventOf(w) \in Keys)
  BY BusyIsTyped, EventsAreTyped DEF HubInv, EventOf
<1>3. worker[w].stage \in {"push", "pushing", "ack"}
        /\ worker[w].msg \notin dropped \cup expired
        /\ Concerns(EventOf(w)) => Has(inbox, EventOf(w))
  BY DEF HubInv, StoredIsKept, Has
<1>4. worker[w].msg \in expired \ expired' => Has(inbox', EventOf(w))
  BY DEF EventOf
<1> QED BY <1>1, <1>2, <1>3, <1>4 DEF HasStored

LEMMA LossesKept ==
  ASSUME HubInv, \A k \in DOMAIN events : events'[k] = events[k],
         dropped \subseteq dropped', \A k \in Keys : Has(inbox, k) => Has(inbox', k),
         \A k \in expired \ expired' : Has(inbox', events[k]),
         \A w \in Workers : HasStored(w),
         \A k \in acked' : k \in acked
           \/ \E w \in Workers : worker[w].stage = "ack" /\ worker[w].msg = k
  PROVE  StoredIsKept' /\ NothingIsLost'
<1>1. StoredIsKept'
  <2>1. \A w \in Workers :
          worker'[w].stage \in {"push", "pushing", "ack"}
            /\ worker'[w].msg \notin dropped' \cup expired'
            /\ Concerns(EventOf(w)') => \/ \E e \in inbox' : e.key = EventOf(w)'
                                        \/ Cardinality(inbox') >= MaxNotifications
    BY DEF HasStored, Has
  <2>2. (\A w \in Workers :
          worker[w].stage \in {"push", "pushing", "ack"}
            /\ worker[w].msg \notin dropped \cup expired
            /\ Concerns(EventOf(w)) => \/ \E e \in inbox : e.key = EventOf(w)
                                       \/ Cardinality(inbox) >= MaxNotifications)'
    BY <2>1 DEF EventOf, Concerns
  <2> QED BY <2>2 DEF StoredIsKept
<1>2. ASSUME NEW k \in acked', k \notin dropped' \cup expired', Concerns(events'[k])
      PROVE  Has(inbox', events'[k])
  <2>1. /\ k \in DOMAIN events /\ events'[k] = events[k] /\ events[k] \in Keys /\ k \notin dropped
        /\ k \in acked \/ \E w \in Workers : worker[w].stage = "ack" /\ worker[w].msg = k
    <3>1. k \in DOMAIN events
      <4>1. acked \subseteq DOMAIN events
        BY DEF HubInv, TypeOK
      <4> QED BY <4>1, BusyIsTyped DEF HubInv
    <3> QED BY <3>1, <1>2, EventsAreTyped DEF HubInv
  <2>4. CASE k \in expired
    BY <2>1, <2>4, <1>2
  <2>2. CASE k \in acked /\ k \notin expired
    <3>1. Has(inbox, events[k])
      BY <2>1, <2>2, <1>2 DEF HubInv, NothingIsLost, Has
    <3> QED BY <3>1, <2>1
  <2>3. CASE k \notin expired /\ \E w \in Workers : worker[w].stage = "ack" /\ worker[w].msg = k
    <3>1. PICK w \in Workers : worker[w].stage = "ack" /\ worker[w].msg = k
      BY <2>3
    <3>2. EventOf(w) = events[k]
      BY <3>1 DEF EventOf
    <3>3. Has(inbox, events[k])
      BY <2>3, <3>1, <3>2, <2>1, <1>2 DEF HubInv, StoredIsKept, Has
    <3> QED BY <3>3, <2>1
  <2> QED BY <2>1, <2>2, <2>3, <2>4
<1>3. NothingIsLost'
  <2>1. \A k \in acked' \ (dropped' \cup expired') : Concerns(events'[k]) =>
          \/ \E e \in inbox' : e.key = events'[k]
          \/ Cardinality(inbox') >= MaxNotifications
    BY <1>2 DEF Has
  <2> QED BY <2>1 DEF NothingIsLost, Concerns
<1> QED BY <1>1, <1>3

LEMMA BeforeStoring ==
  ASSUME NEW w \in Workers, worker'[w].stage \notin {"push", "pushing", "ack"}
  PROVE  HasStored(w)
BY DEF HasStored

LEMMA OutsideKeepsStored ==
  ASSUME HubInv,
         \/ \E e \in Event : Publish(e)
         \/ \E c \in Clients : Register(c) \/ Unregister(c)
         \/ Crash
  PROVE  StoredIsKept' /\ NothingIsLost'
<1>1. /\ UNCHANGED <<inbox, dropped, expired, acked>>
      /\ \A w \in Workers : worker'[w] = worker[w] \/ worker'[w] = Idle
  BY DEF Publish, Register, Unregister, Crash, store, history, streams
<1>2. \A k \in DOMAIN events : events'[k] = events[k]
  <2>1. CASE \E e \in Event : Publish(e)
    <3>1. PICK e \in Event : events' = Append(events, e)
      BY <2>1 DEF Publish
    <3> QED BY <3>1 DEF HubInv, TypeOK
  <2>2. CASE ~\E e \in Event : Publish(e)
    BY <2>2 DEF Register, Unregister, Crash, streams
  <2> QED BY <2>1, <2>2
<1>3. \A w \in Workers : HasStored(w)
  BY <1>1, <1>2, StoredKept, BeforeStoring, IdleIsTyped
<1> QED BY <1>1, <1>2, <1>3, LossesKept

LEMMA BeginKeepsStored ==
  ASSUME HubInv, NEW w \in Workers, NEW k \in DOMAIN events, ReadMessage(w, k) \/ Reclaim(w, k)
  PROVE  StoredIsKept' /\ NothingIsLost'
<1>1. UNCHANGED <<inbox, dropped, expired, acked, events>> /\ Begin(w, k)
  BY DEF ReadMessage, Reclaim, store, history, streams
<1>2. /\ \A v \in Workers : v # w => worker'[v] = worker[v]
      /\ worker'[w].stage = "broadcast"
  BY <1>1, BeginDoes DEF HubInv
<1>3. \A v \in Workers : HasStored(v)
  BY <1>1, <1>2, StoredKept, BeforeStoring
<1> QED BY <1>1, <1>3, LossesKept

LEMMA LeftKeepsStored ==
  ASSUME HubInv, NEW w \in Workers, CopyTargets(w) \/ \E c \in Clients : Send(w, c)
  PROVE  StoredIsKept' /\ NothingIsLost'
<1>1. UNCHANGED <<inbox, dropped, expired, acked, events>>
  BY DEF CopyTargets, Send, store, history, streams
<1>2. PICK targets \in SUBSET Clients :
        Left(w, targets) /\ worker[w].stage \in {"broadcast", "sending", "push", "pushing"}
  BY CopyDoes, SendDoes DEF HubInv
<1>3. /\ \A v \in Workers : v # w => worker'[v] = worker[v]
      /\ worker'[w].msg = worker[w].msg
      /\ \/ /\ worker'[w].stage =
                 IF worker[w].stage \in {"broadcast", "sending"} THEN "sending" ELSE "pushing"
         \/ worker'[w].stage = "dedup"
         \/ /\ worker'[w].stage = "ack"
            /\ worker[w].stage \in {"push", "pushing"} \/ ~Concerns(EventOf(w))
  BY <1>2, LeftDoes DEF HubInv
<1>4. HasStored(w)
  <2>1. EventOf(w)' = EventOf(w)
    BY <1>1, <1>3 DEF EventOf
  <2>2. CASE worker[w].stage \in {"push", "pushing"}
    <3>1. worker[w].msg \notin dropped \cup expired /\ Concerns(EventOf(w)) => Has(inbox, EventOf(w))
      BY <2>2 DEF HubInv, StoredIsKept, Has
    <3> QED BY <3>1, <2>1, <1>1, <1>3 DEF HasStored
  <2>3. CASE worker[w].stage \notin {"push", "pushing"}
    BY <2>1, <2>3, <1>2, <1>3 DEF HasStored
  <2> QED BY <2>2, <2>3
<1>5. \A v \in Workers : HasStored(v)
  BY <1>1, <1>3, <1>4, StoredKept
<1> QED BY <1>1, <1>5, LossesKept

LEMMA LookupKeepsStored ==
  ASSUME HubInv, NEW w \in Workers, ReadDedup(w)
  PROVE  StoredIsKept' /\ NothingIsLost'
<1>1. UNCHANGED <<inbox, dropped, expired, acked, events>>
  BY DEF ReadDedup, store, history, streams
<1>2. worker'[w].stage = "store" /\ \A v \in Workers : v # w => worker'[v] = worker[v]
  BY LookupDoes DEF HubInv
<1>3. \A v \in Workers : HasStored(v)
  BY <1>1, <1>2, StoredKept, BeforeStoring
<1> QED BY <1>1, <1>3, LossesKept

LEMMA AckKeepsStored ==
  ASSUME HubInv, NEW w \in Workers, Acknowledge(w)
  PROVE  StoredIsKept' /\ NothingIsLost'
<1>1. UNCHANGED <<inbox, dropped, expired, events>>
  BY DEF Acknowledge, store, history
<1>2. /\ worker[w].stage = "ack" /\ worker'[w] = Idle
      /\ \A v \in Workers : v # w => worker'[v] = worker[v]
      /\ acked' \in {acked, acked \cup {worker[w].msg}}
  BY AckDoes DEF HubInv
<1>3. \A v \in Workers : HasStored(v)
  BY <1>1, <1>2, StoredKept, BeforeStoring, IdleIsTyped
<1> QED BY <1>1, <1>2, <1>3, LossesKept

LEMMA StoreKeepsStored ==
  ASSUME HubInv, NEW w \in Workers, StoreEntry(w)
  PROVE  StoredIsKept' /\ NothingIsLost'
<1>1. /\ worker[w].stage = "store" /\ \A v \in Workers : v # w => worker'[v] = worker[v]
      /\ worker'[w].msg = worker[w].msg /\ EntryOf(w).key = EventOf(w)
      /\ UNCHANGED <<events, acked>>
      /\ \/ /\ worker'[w].stage = "push" /\ Added(EntryOf(w), worker[w].old)
            /\ dropped' = dropped /\ expired' = expired \ {worker[w].msg}
         \/ /\ worker'[w].stage = "ack" /\ dropped' = dropped \cup {worker[w].msg}
            /\ expired' = expired
            /\ Added(EntryOf(w), worker[w].old) \/ UNCHANGED <<inbox, dedup, unread, expiring, missed, raced>>
  BY StoreDoes DEF HubInv
<1>2. Added(EntryOf(w), worker[w].old) =>
        /\ \A k : Has(inbox, k) => Has(inbox', k)
        /\ Has(inbox', EventOf(w))
  BY <1>1, StoreAdds DEF Has
<1>3. \A k \in Keys : Has(inbox, k) => Has(inbox', k)
  BY <1>1, <1>2
<1>4. HasStored(w)
  <2>1. EventOf(w)' = EventOf(w)
    BY <1>1 DEF EventOf
  <2> QED BY <2>1, <1>1, <1>2 DEF HasStored
<1>5. \A k \in expired \ expired' : Has(inbox', events[k])
  BY <1>1, <1>2 DEF EventOf
<1>6. \A v \in Workers : HasStored(v)
  BY <1>1, <1>3, <1>4, <1>5, StoredKept
<1> QED BY <1>1, <1>3, <1>5, <1>6, LossesKept

LEMMA ReaderKeepsStored ==
  ASSUME HubInv, NEW r \in ReadCalls, MarkAllRead(r)
  PROVE  StoredIsKept' /\ NothingIsLost'
<1>1. /\ UNCHANGED <<events, worker, acked, dropped, expired>>
      /\ inbox' = inbox \/ Marked(reader[r].seen)
  BY MarkDoes DEF MarkAllRead, ListEntries, ResetCount, streams, store, history
<1>2. \A k \in Keys : Has(inbox, k) => Has(inbox', k)
  <2>1. CASE Marked(reader[r].seen)
    <3>1. /\ \A e \in inbox : \E f \in inbox' : f.key = e.key
          /\ Cardinality(inbox') \in Nat /\ Cardinality(inbox) <= Cardinality(inbox')
      BY <2>1, MarkMarks
    <3>2. Cardinality(inbox) \in Nat
      BY FS_CardinalityType DEF HubInv, TimesDiffer
    <3> QED BY <3>1, <3>2, HubBounds DEF Has
  <2> QED BY <2>1, <1>1
<1>3. \A w \in Workers : HasStored(w)
  BY <1>1, <1>2, StoredKept
<1> QED BY <1>1, <1>2, <1>3, LossesKept

-----------------------------------------------------------------------------
(* A week without a notification                                           *)

LEMMA ExpiryDoes ==
  ASSUME HubInv, StoreExpires
  PROVE  /\ UNCHANGED <<events, delivered, acked, worker, clients, unread, reader, clock,
                        faults, owed, dropped>>
         /\ expiring' = {} /\ weeks' \in 0..MaxWeeks
         /\ dedup' = [k \in Keys |-> NoEntry] /\ missed' = missed \cap inbox'
         /\ raced' = raced \cup {e.key : e \in inbox'}
         /\ \/ inbox' = {} /\ expired' = delivered
            \/ inbox' = inbox /\ expired' = expired /\ "inbox" \notin expiring
BY HubBounds DEF StoreExpires, streams, HubInv, TypeOK

LEMMA ExpiryKeepsAudience ==
  ASSUME HubInv, StoreExpires
  PROVE  TypeOK' /\ TargetsAreOwed' /\ WatchersAreTold'
<1>1. TypeOK /\ TargetsAreOwed /\ WatchersAreTold
  BY DEF HubInv
<1>2. /\ inbox' \subseteq Entry /\ missed' \subseteq Entry /\ raced' \subseteq Keys
      /\ dedup' \in [Keys -> Entry \cup {NoEntry}] /\ expired' \subseteq DOMAIN events
  BY <1>1, ExpiryDoes DEF TypeOK, Entry
<1>3. TypeOK'
  BY <1>1, <1>2, ExpiryDoes DEF TypeOK
<1> QED BY <1>1, <1>3, ExpiryDoes, AudienceKept

LEMMA ExpiryKeepsInbox ==
  ASSUME HubInv, StoreExpires
  PROVE  TimesDiffer' /\ DedupIsLast' /\ InboxIsCapped'
<1>1. TypeOK' /\ inbox' \subseteq inbox /\ UNCHANGED <<worker, events, reader, clock>>
  BY ExpiryDoes, ExpiryKeepsAudience
<1>2. \A w \in Workers : KeepsTime(w) /\ KeepsOld(w)
  BY <1>1, SlotsKept
<1>3. TimesDiffer'
  <2>1. \A e \in KnownEntries' : IsKnown(e)
    BY <1>1 DEF KnownEntries, IsKnown
  <2>2. /\ IsFiniteSet(inbox') /\ \A e, f \in inbox' : e.at = f.at => e = f
        /\ \A r \in ReadCalls : IsFiniteSet(reader'[r].seen)
    BY <1>1, FS_Subset DEF HubInv, TimesDiffer
  <2>3. clock <= clock'
    BY <1>1 DEF HubInv, TypeOK
  <2> QED BY <1>1, <1>2, <2>1, <2>2, <2>3, TimesKept
<1>4. DedupIsLast'
  <2>1. \A w \in Workers : worker'[w].old # NoEntry =>
          worker'[w].stage = "store" /\ worker'[w].old.key = EventOf(w)'
    BY <1>2 DEF KeepsOld
  <2>2. (\A w \in Workers : worker[w].old # NoEntry =>
           worker[w].stage = "store" /\ worker[w].old.key = EventOf(w))'
    BY <2>1 DEF EventOf
  <2>3. /\ \A k \in Keys : dedup'[k] = NoEntry
        /\ \A e \in inbox' : e.key \in raced'
    BY ExpiryDoes
  <2> QED BY <2>2, <2>3 DEF DedupIsLast
<1>5. InboxIsCapped'
  <2>1. raced' = {} => inbox' = {}
    BY ExpiryDoes
  <2> QED BY <2>1, FS_EmptySet, HubBounds DEF InboxIsCapped
<1> QED BY <1>3, <1>4, <1>5

LEMMA ExpiryKeepsCount ==
  ASSUME HubInv, StoreExpires
  PROVE  ReadersHaveSeen' /\ CountCoversUnread' /\ UnreadExpire'
<1> USE DEF HubInv
<1>1. CASE inbox' = {}
  <2>1. Unread(inbox') = {} /\ Unread(inbox') \ missed' = {}
    BY <1>1 DEF Unread
  <2>2. ReadersHaveSeen' /\ UnreadExpire'
    BY <2>1, ExpiryDoes DEF ReadersHaveSeen, UnreadExpire, Unread
  <2>3. Cardinality(Unread(inbox') \ missed') <= unread'
    BY <2>1, FS_EmptySet, ExpiryDoes, UnreadIsFinite
  <2> QED BY <2>2, <2>3 DEF CountCoversUnread, Unread
<1>2. CASE inbox' = inbox /\ "inbox" \notin expiring
  <2>1. Unread(inbox') = {} /\ Unread(inbox') \ missed' = {}
    BY <1>2 DEF UnreadExpire, Unread
  <2>2. ReadersHaveSeen' /\ UnreadExpire'
    BY <2>1, ExpiryDoes DEF ReadersHaveSeen, UnreadExpire, Unread
  <2>3. Cardinality(Unread(inbox') \ missed') <= unread'
    BY <2>1, FS_EmptySet, ExpiryDoes, UnreadIsFinite
  <2> QED BY <2>2, <2>3 DEF CountCoversUnread, Unread
<1> QED BY <1>1, <1>2, ExpiryDoes

LEMMA ExpiryKeepsStored ==
  ASSUME HubInv, StoreExpires
  PROVE  StoredIsKept' /\ NothingIsLost'
<1>1. UNCHANGED <<events, worker, acked, dropped>>
  BY ExpiryDoes
<1>2. CASE inbox' = {} /\ expired' = delivered
  <2>1. acked' \subseteq expired'
    BY <1>1, <1>2 DEF HubInv, TypeOK
  <2>2. \A w \in Workers : worker'[w].stage # "idle" => worker'[w].msg \in expired'
    BY <1>1, <1>2, BusyIsTyped DEF HubInv
  <2> QED BY <2>1, <2>2 DEF StoredIsKept, NothingIsLost
<1>3. CASE inbox' = inbox /\ expired' = expired
  <2>1. \A w \in Workers : HasStored(w)
    BY <1>1, <1>3, StoredKept
  <2> QED BY <1>1, <1>3, <2>1, LossesKept
<1> QED BY <1>2, <1>3, ExpiryDoes

LEMMA CounterExpiryKeepsHub ==
  ASSUME HubInv, CounterExpires
  PROVE  HubInv'
<1>1. /\ UNCHANGED <<events, delivered, acked, worker, clients, inbox, dedup, expiring, weeks,
                     reader, clock, faults, owed, dropped, missed, raced, expired>>
      /\ unread' = 0 /\ expiring = {}
  BY DEF CounterExpires, streams, history
<1>2. TypeOK' /\ TargetsAreOwed' /\ WatchersAreTold'
  <2>1. TypeOK'
    BY <1>1 DEF HubInv, TypeOK
  <2> QED BY <1>1, <2>1, AudienceKept DEF HubInv
<1>3. \A w \in Workers : KeepsTime(w) /\ KeepsOld(w) /\ HasStored(w)
  BY <1>1, SlotsKept, StoredKept
<1>4. TimesDiffer' /\ DedupIsLast' /\ InboxIsCapped'
  <2>1. clock <= clock'
    BY <1>1 DEF HubInv, TypeOK
  <2> QED BY <1>1, <1>2, <1>3, <2>1, QuietKeepsInbox
<1>5. ReadersHaveSeen' /\ CountCoversUnread' /\ UnreadExpire'
  <2>1. Unread(inbox') = {} /\ Unread(inbox') \ missed' = {}
    BY <1>1 DEF HubInv, UnreadExpire, Unread
  <2>2. Cardinality(Unread(inbox') \ missed') <= unread'
    BY <1>1, <2>1, FS_EmptySet
  <2> QED BY <2>1, <2>2, <1>1 DEF ReadersHaveSeen, CountCoversUnread, UnreadExpire, Unread
<1>6. StoredIsKept' /\ NothingIsLost'
  BY <1>1, <1>3, LossesKept
<1> QED BY <1>2, <1>4, <1>5, <1>6 DEF HubInv

-----------------------------------------------------------------------------
(* The theorems *)

LEMMA InitIsSound == Init => HubInv
<1> SUFFICES ASSUME Init PROVE HubInv
  OBVIOUS
<1>1. /\ events = << >> /\ delivered = {} /\ acked = {} /\ inbox = {} /\ unread = 0
      /\ dedup = [k \in Keys |-> NoEntry] /\ worker = [w \in Workers |-> Idle] /\ clients = {}
      /\ clock = 0 /\ faults = 0 /\ owed = [c \in Clients |-> {}]
      /\ dropped = {} /\ missed = {} /\ raced = {} /\ expired = {}
      /\ expiring = {} /\ weeks = 0
      /\ reader = [r \in ReadCalls |-> [stage |-> "idle", seen |-> {}]]
  BY DEF Init
<1>2. \A w \in Workers : worker[w] = Idle
  BY <1>1
<1>3. \A r \in ReadCalls : reader[r].stage = "idle" /\ reader[r].seen = {}
  BY <1>1
<1>4. TypeOK
  <2>1. reader \in [ReadCalls -> [stage : {"idle", "empty", "marking", "done"}, seen : SUBSET Entry]]
    BY <1>1
  <2>2. worker \in [Workers -> Worker]
    BY <1>1, IdleIsTyped
  <2> QED BY <1>1, <2>1, <2>2, HubBounds DEF TypeOK
<1>5. TargetsAreOwed
  <2>1. OwedToListeners(owed, clients, events)
    BY <1>1 DEF OwedToListeners
  <2>2. \A w \in Workers : AtWork(worker[w], delivered, events, owed)
    BY <1>2, IdleIsAtWork
  <2> QED BY <2>1, <2>2, TargetsSplit
<1>6. TimesDiffer
  <2>1. KnownEntries = {}
    BY <1>1, <1>3 DEF KnownEntries
  <2>2. Storing = {}
    BY <1>2, IdleIsTyped DEF Storing
  <2> QED BY <1>1, <1>3, <2>1, <2>2, FS_EmptySet DEF TimesDiffer
<1>7. DedupIsLast
  BY <1>1, <1>2, IdleIsTyped DEF DedupIsLast
<1>8. ReadersHaveSeen /\ StoredIsKept
  BY <1>2, <1>3, IdleIsTyped DEF ReadersHaveSeen, StoredIsKept
<1>9. WatchersAreTold /\ NothingIsLost
  BY <1>1 DEF WatchersAreTold, NothingIsLost
<1>10. CountCoversUnread /\ InboxIsCapped /\ UnreadExpire
  <2>1. Unread(inbox) \ missed = {}
    BY <1>1 DEF Unread
  <2>2. Cardinality(Unread(inbox) \ missed) = 0 /\ Cardinality(inbox) = 0
    BY <1>1, <2>1, FS_EmptySet
  <2> QED BY <1>1, <2>2, HubBounds DEF CountCoversUnread, InboxIsCapped, UnreadExpire, Unread
<1> QED BY <1>4, <1>5, <1>6, <1>7, <1>8, <1>9, <1>10 DEF HubInv

LEMMA NothingKeepsHub ==
  ASSUME HubInv, UNCHANGED vars
  PROVE  HubInv'
<1>1. UNCHANGED <<events, delivered, acked, worker, clients, inbox, dedup, unread, expiring, weeks, reader,
                  clock, faults, owed, dropped, missed, raced, expired>>
  BY DEF vars, streams, store, history
<1>2. TypeOK' /\ TargetsAreOwed' /\ WatchersAreTold'
  <2>1. TypeOK'
    BY <1>1 DEF HubInv, TypeOK
  <2> QED BY <1>1, <2>1, AudienceKept DEF HubInv
<1>3. \A w \in Workers : KeepsTime(w) /\ KeepsOld(w) /\ HasStored(w)
  BY <1>1, SlotsKept, StoredKept
<1>4. TimesDiffer' /\ DedupIsLast' /\ InboxIsCapped'
  <2>1. clock <= clock'
    BY <1>1 DEF HubInv, TypeOK
  <2> QED BY <1>1, <1>2, <1>3, <2>1, QuietKeepsInbox
<1>5. ReadersHaveSeen' /\ CountCoversUnread' /\ UnreadExpire'
  BY <1>1, CountedKept
<1>6. StoredIsKept' /\ NothingIsLost'
  BY <1>1, <1>3, LossesKept
<1> QED BY <1>2, <1>4, <1>5, <1>6 DEF HubInv

LEMMA StepKeepsHub ==
  ASSUME HubInv, Next
  PROVE  HubInv'
<1>1. ASSUME \/ \E e \in Event : Publish(e)
             \/ \E c \in Clients : Register(c) \/ Unregister(c)
             \/ Crash
      PROVE  HubInv'
  <2>1. TypeOK' /\ TargetsAreOwed' /\ WatchersAreTold'
    BY <1>1, PublishKeepsAudience, ConnectKeepsAudience, CrashKeepsAudience
  <2>2. UNCHANGED <<inbox, unread, expiring, missed, reader>>
    BY <1>1 DEF Publish, Register, Unregister, Crash, store, history
  <2> QED BY <1>1, <2>1, <2>2, OutsideKeepsInbox, OutsideKeepsStored, CountedKept DEF HubInv
<1>2. ASSUME NEW w \in Workers, NEW k \in DOMAIN events, ReadMessage(w, k) \/ Reclaim(w, k)
      PROVE  HubInv'
  <2>1. UNCHANGED <<inbox, unread, expiring, missed, reader>>
    BY <1>2 DEF ReadMessage, Reclaim, store, history
  <2> QED BY <1>2, <2>1, BeginKeepsAudience, BeginKeepsInbox, BeginKeepsStored, CountedKept
          DEF HubInv
<1>3. ASSUME NEW w \in Workers, CopyTargets(w) \/ \E c \in Clients : Send(w, c)
      PROVE  HubInv'
  <2>1. UNCHANGED <<inbox, unread, expiring, missed, reader>>
    BY <1>3 DEF CopyTargets, Send, store, history
  <2>2. TypeOK' /\ TargetsAreOwed' /\ WatchersAreTold'
    BY <1>3, CopyKeepsAudience, SendKeepsAudience
  <2> QED BY <1>3, <2>1, <2>2, LeftKeepsInbox, LeftKeepsStored, CountedKept DEF HubInv
<1>4. ASSUME NEW w \in Workers, ReadDedup(w)
      PROVE  HubInv'
  <2>1. UNCHANGED <<inbox, unread, expiring, missed, reader>>
    BY <1>4 DEF ReadDedup, store, history
  <2> QED BY <1>4, <2>1, LookupKeepsAudience, LookupKeepsInbox, LookupKeepsStored, CountedKept
          DEF HubInv
<1>5. ASSUME NEW w \in Workers, StoreEntry(w)
      PROVE  HubInv'
  BY <1>5, StoreKeepsAudience, StoreKeepsInbox, StoreKeepsStored, StoreKeepsCount DEF HubInv
<1>6. ASSUME NEW w \in Workers, Acknowledge(w)
      PROVE  HubInv'
  <2>1. UNCHANGED <<inbox, unread, expiring, missed, reader>>
    BY <1>6 DEF Acknowledge, store, history
  <2> QED BY <1>6, <2>1, AckKeepsAudience, AckKeepsInbox, AckKeepsStored, CountedKept DEF HubInv
<1>7. ASSUME NEW r \in ReadCalls, MarkAllRead(r)
      PROVE  HubInv'
  BY <1>7, ReaderKeepsAudience, ReaderKeepsInbox, ReaderKeepsStored, ReaderKeepsCount DEF HubInv
<1>8. CASE StoreExpires
  BY <1>8, ExpiryKeepsAudience, ExpiryKeepsInbox, ExpiryKeepsCount, ExpiryKeepsStored DEF HubInv
<1>9. CASE CounterExpires
  BY <1>9, CounterExpiryKeepsHub
<1> QED BY <1>1, <1>2, <1>3, <1>4, <1>5, <1>6, <1>7, <1>8, <1>9
        DEF Next, HubConsumer, WorkerStep, WeekPasses

LEMMA HubIsSound == Spec => []HubInv
<1>1. HubInv /\ [Next]_vars => HubInv'
  BY NothingKeepsHub, StepKeepsHub
<1> QED BY <1>1, InitIsSound, PTL DEF Spec

(* A client that was connected when an event was published, and still is,  *)
(* has been sent it once it is acknowledged, although Broadcast and        *)
(* SendToUser copy the clients under a lock and send without it.           *)
THEOREM WatchersHear == Spec => []WatchersAreTold
<1>1. HubInv => WatchersAreTold
  BY DEF HubInv
<1> QED BY <1>1, HubIsSound, PTL

(* Store.Add keeps one entry per key, and the inbox its size, as long as   *)
(* no two calls read the dedup hash before either wrote and the hash does  *)
(* not expire before the inbox.                                            *)
THEOREM InboxIsSound == Spec => []InboxInv
<1>1. HubInv => InboxInv
  <2>1. DedupIsLast => OneEntryPerKey
    BY DEF DedupIsLast, OneEntryPerKey
  <2> QED BY <2>1 DEF HubInv, InboxInv
<1> QED BY <1>1, HubIsSound, PTL

(* A notification that was stored without an error stays in the inbox      *)
(* until the inbox is full, or expires a week after the last notification  *)
(* (Store.Add), whatever is redelivered and whenever MarkAllRead comes     *)
(* between.                                                                *)
THEOREM NotificationsStay == Spec => []NothingIsLost
<1>1. HubInv => NothingIsLost
  BY DEF HubInv
<1> QED BY <1>1, HubIsSound, PTL

(* The unread counter covers the unread entries but those that came while  *)
(* MarkAllRead was between its read and its pipeline, and it outlives      *)
(* them.                                                                   *)
THEOREM CounterCovers == Spec => []CountCoversUnread
<1>1. HubInv => CountCoversUnread
  BY DEF HubInv
<1> QED BY <1>1, HubIsSound, PTL
=============================================================================
