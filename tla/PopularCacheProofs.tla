------------------------- MODULE PopularCacheProofs -------------------------
(***************************************************************************)
(* How old an answer of GET /popular-devices can be, for any number of     *)
(* handlers, any contents and any CACHE_TTL and REQUEST_TIMEOUT.           *)
(***************************************************************************)
EXTENDS PopularCache, TLAPS

(* A list a handler has loaded is no older than its request.  Once it has  *)
(* computed expires_at, age and remaining time add up to at most what they *)
(* did then, and the cache inherits that sum.                              *)
LoadedInTime ==
  \A r \in Requests, c \in Categories :
    loaded[r][c] # NoLoad =>
      /\ age[c][loaded[r][c]] <= elapsed[r]
      /\ age[c][loaded[r][c]] + stamp[r] <= Ttl + elapsed[r]
LoadedBeforeStored ==
  \A r \in Requests :
    /\ phase[r] = "store" => \A c \in Categories : loaded[r][c] # NoLoad
    /\ phase[r] # "store" => stamp[r] = 0
    /\ phase[r] = "idle" => loaded[r] = Nothing /\ elapsed[r] = 0
CachedInTime ==
  Fresh => \A c \in Categories :
             age[c][cache.lists[c]] + cache.expiresIn <= Ttl + Limit

CurrentIsNew == \A c \in Categories : age[c][db[c]] = 0

IInv == TypeOK /\ CurrentIsNew /\ LoadedInTime /\ LoadedBeforeStored /\ CachedInTime

LEMMA ListsType ==
  ASSUME NEW f \in Lists
  PROVE  DOMAIN f = Categories /\ \A c \in Categories : f[c] \in Contents[c]
BY DEF Lists

LEMMA IsList ==
  ASSUME NEW f, f = [c \in Categories |-> f[c]],
         \A c \in Categories : f[c] \in Contents[c]
  PROVE  f \in Lists
<1>1. \A c \in Categories : f[c] \in AllContents
  BY DEF AllContents
<1>2. QED
  BY <1>1 DEF Lists

LEMMA ReplaceInList ==
  ASSUME NEW f \in Lists, NEW c \in Categories, NEW v \in Contents[c]
  PROVE  [f EXCEPT ![c] = v] \in Lists
<1>1. v \in AllContents
  BY DEF AllContents
<1>2. QED
  BY <1>1 DEF Lists

LEMMA ReplaceInPartial ==
  ASSUME NEW f \in PartialLists, NEW c \in Categories, NEW v \in Contents[c]
  PROVE  [f EXCEPT ![c] = v] \in PartialLists
<1>1. v \in AllContents
  BY DEF AllContents
<1>2. QED
  BY <1>1 DEF PartialLists

LEMMA PartialType ==
  ASSUME NEW f \in PartialLists
  PROVE  /\ f = [c \in Categories |-> f[c]]
         /\ \A c \in Categories : f[c] \in Contents[c] \cup {NoLoad}
BY DEF PartialLists

LEMMA NothingType == Nothing \in PartialLists
BY DEF Nothing, PartialLists

(***************************************************************************)
(* The initial states.                                                     *)
(***************************************************************************)
LEMMA InitIInv == Init => IInv
<1> SUFFICES ASSUME Init PROVE IInv
  OBVIOUS
<1>1. \A c \in Categories : age[c] \in [Contents[c] -> 0..Oldest]
  BY CacheAssumption DEF Init, Oldest
<1>2. TypeOK
  BY <1>1, NothingType, CacheAssumption DEF Init, TypeOK, Phases
<1>3. CurrentIsNew /\ LoadedInTime /\ LoadedBeforeStored /\ CachedInTime
  BY DEF Init, Lists, CurrentIsNew, LoadedInTime, LoadedBeforeStored, CachedInTime,
         Nothing, Fresh
<1>4. QED
  BY <1>2, <1>3 DEF IInv

(***************************************************************************)
(* The steps.                                                              *)
(***************************************************************************)
(* Letting go of a request keeps the facts about the others.               *)
LEMMA FinishHandlers ==
  ASSUME IInv, NEW r \in Requests, Finish(r), UNCHANGED <<db, age>>
  PROVE  /\ readers' \subseteq Requests /\ phase' \in [Requests -> Phases]
         /\ elapsed' \in [Requests -> 0..Limit] /\ stamp' \in [Requests -> 0..Ttl]
         /\ loaded' \in [Requests -> PartialLists]
         /\ LoadedInTime' /\ LoadedBeforeStored'
<1>1. /\ readers' \subseteq Requests /\ phase' \in [Requests -> Phases]
      /\ elapsed' \in [Requests -> 0..Limit] /\ stamp' \in [Requests -> 0..Ttl]
  BY CacheAssumption DEF IInv, TypeOK, Finish, Phases
<1>2. ASSUME NEW q \in Requests
      PROVE  /\ q = r => phase'[q] = "idle" /\ loaded'[q] = Nothing
                          /\ elapsed'[q] = 0 /\ stamp'[q] = 0
             /\ q # r => phase'[q] = phase[q] /\ loaded'[q] = loaded[q]
                          /\ elapsed'[q] = elapsed[q] /\ stamp'[q] = stamp[q]
  BY DEF IInv, TypeOK, Finish
<1>3. loaded' \in [Requests -> PartialLists]
  BY NothingType DEF IInv, TypeOK, Finish
<1>4. LoadedInTime'
  <2> SUFFICES ASSUME NEW q \in Requests, NEW c \in Categories, loaded'[q][c] # NoLoad
               PROVE  /\ age[c][loaded'[q][c]] <= elapsed'[q]
                      /\ age[c][loaded'[q][c]] + stamp'[q] <= Ttl + elapsed'[q]
    BY DEF LoadedInTime
  <2>1. q # r
    BY <1>2 DEF Nothing
  <2>2. QED
    BY <1>2, <2>1 DEF IInv, LoadedInTime
<1>5. LoadedBeforeStored'
  BY <1>2 DEF IInv, LoadedBeforeStored
<1>6. QED
  BY <1>1, <1>3, <1>4, <1>5

(* Answering from the cache, failing and being dropped.                    *)
LEMMA FinishIInv ==
  ASSUME IInv, NEW r \in Requests, Finish(r), UNCHANGED <<db, age, cache>>
  PROVE  IInv'
<1>1. CachedInTime' /\ CurrentIsNew'
  BY DEF IInv, CachedInTime, CurrentIsNew, Fresh
<1>2. TypeOK'
  BY FinishHandlers DEF IInv, TypeOK
<1>3. QED
  BY <1>1, <1>2, FinishHandlers DEF IInv

(* Steps that touch the lock and the phase alone.                          *)
LEMMA GuardIInv ==
  ASSUME IInv, NEW r \in Requests, Ask(r) \/ AcquireRead(r) \/ Miss(r)
  PROVE  IInv'
<1>1. TypeOK'
  BY DEF IInv, TypeOK, Ask, AcquireRead, Miss, Phases
<1>2. LoadedInTime' /\ CachedInTime' /\ CurrentIsNew'
  BY DEF IInv, LoadedInTime, CachedInTime, CurrentIsNew, Fresh, Ask, AcquireRead, Miss
<1>3. LoadedBeforeStored'
  BY DEF IInv, TypeOK, LoadedBeforeStored, Ask, AcquireRead, Miss
<1>4. QED
  BY <1>1, <1>2, <1>3 DEF IInv

LEMMA LoadIInv ==
  ASSUME IInv, NEW r \in Requests, NEW c \in Categories, Load(r, c)
  PROVE  IInv'
<1>1. db[c] \in Contents[c]
  BY ListsType DEF IInv, TypeOK
<1>2. ASSUME NEW q \in Requests, NEW d \in Categories
      PROVE  /\ q = r /\ d = c => loaded'[q][d] = db[c]
             /\ ~(q = r /\ d = c) => loaded'[q][d] = loaded[q][d]
  BY PartialType DEF IInv, TypeOK, Load
<1>3. loaded' \in [Requests -> PartialLists]
  <2>1. [loaded[r] EXCEPT ![c] = db[c]] \in PartialLists
    BY <1>1, ReplaceInPartial DEF IInv, TypeOK
  <2>2. QED
    BY <2>1 DEF IInv, TypeOK, Load
<1>4. TypeOK'
  BY <1>3 DEF IInv, TypeOK, Load
<1>5. LoadedInTime'
  <2>1. /\ phase[r] = "load" /\ stamp[r] = 0 /\ elapsed[r] \in Nat
        /\ age[c][db[c]] = 0
    BY CacheAssumption DEF IInv, TypeOK, CurrentIsNew, LoadedBeforeStored, Load
  <2> SUFFICES ASSUME NEW q \in Requests, NEW d \in Categories, loaded'[q][d] # NoLoad
               PROVE  /\ age[d][loaded'[q][d]] <= elapsed[q]
                      /\ age[d][loaded'[q][d]] + stamp[q] <= Ttl + elapsed[q]
    BY DEF LoadedInTime, Load
  <2>2. CASE q = r /\ d = c
    BY <1>2, <2>1, <2>2, CacheAssumption
  <2>3. CASE ~(q = r /\ d = c)
    BY <1>2, <2>3 DEF IInv, LoadedInTime
  <2>4. QED
    BY <2>2, <2>3
<1>6. LoadedBeforeStored' /\ CachedInTime' /\ CurrentIsNew'
  BY <1>2 DEF IInv, LoadedBeforeStored, CachedInTime, CurrentIsNew, Fresh, Load, Nothing
<1>7. QED
  BY <1>4, <1>5, <1>6 DEF IInv

LEMMA StampIInv ==
  ASSUME IInv, NEW r \in Requests, Stamp(r)
  PROVE  IInv'
<1>1. TypeOK'
  BY CacheAssumption DEF IInv, TypeOK, Stamp, Phases
<1>2. LoadedInTime'
  <2> SUFFICES ASSUME NEW q \in Requests, NEW c \in Categories, loaded[q][c] # NoLoad
               PROVE  /\ age[c][loaded[q][c]] <= elapsed[q]
                      /\ age[c][loaded[q][c]] + stamp'[q] <= Ttl + elapsed[q]
    BY DEF Stamp, LoadedInTime
  <2>1. age[c][loaded[q][c]] \in Nat /\ elapsed[q] \in Nat
    <3>1. loaded[q] \in PartialLists /\ elapsed[q] \in 0..Limit
      BY DEF IInv, TypeOK
    <3>2. age[c][loaded[q][c]] \in 0..Oldest
      BY <3>1, PartialType DEF IInv, TypeOK
    <3>3. QED
      BY <3>1, <3>2, CacheAssumption DEF Oldest
  <2>2. stamp'[q] = IF q = r THEN Ttl ELSE stamp[q]
    BY DEF IInv, TypeOK, Stamp
  <2>3. QED
    BY <2>1, <2>2, CacheAssumption DEF IInv, LoadedInTime
<1>3. LoadedBeforeStored' /\ CachedInTime' /\ CurrentIsNew'
  BY DEF IInv, TypeOK, LoadedBeforeStored, CachedInTime, CurrentIsNew, Fresh, Stamp
<1>4. QED
  BY <1>1, <1>2, <1>3 DEF IInv

LEMMA StoreIInv ==
  ASSUME IInv, NEW r \in Requests, Store(r)
  PROVE  IInv'
<1>1. \A c \in Categories : loaded[r][c] # NoLoad /\ loaded[r][c] \in Contents[c]
  BY PartialType DEF IInv, TypeOK, LoadedBeforeStored, Store
<1>2. loaded[r] \in Lists
  <2>1. loaded[r] = [c \in Categories |-> loaded[r][c]]
    BY PartialType DEF IInv, TypeOK
  <2>2. QED
    BY <1>1, <2>1, IsList
<1>3. cache' \in [expiresIn : 0..Ttl, lists : Lists]
  BY <1>2 DEF IInv, TypeOK, Store
<1>4. TypeOK'
  BY <1>3, FinishHandlers DEF IInv, TypeOK, Store
<1>5. CachedInTime'
  <2> SUFFICES ASSUME NEW c \in Categories
               PROVE  age[c][loaded[r][c]] + stamp[r] <= Ttl + Limit
    BY DEF Store, CachedInTime
  <2>1. /\ age[c][loaded[r][c]] \in Nat /\ stamp[r] \in Nat
        /\ elapsed[r] \in Nat /\ elapsed[r] <= Limit
    <3>1. age[c][loaded[r][c]] \in 0..Oldest
      BY <1>1 DEF IInv, TypeOK
    <3>2. stamp[r] \in 0..Ttl /\ elapsed[r] \in 0..Limit
      BY DEF IInv, TypeOK
    <3>3. QED
      BY <3>1, <3>2, CacheAssumption DEF Oldest
  <2>2. age[c][loaded[r][c]] + stamp[r] <= Ttl + elapsed[r]
    BY <1>1 DEF IInv, LoadedInTime
  <2>3. QED
    BY <2>1, <2>2, CacheAssumption
<1>6. CurrentIsNew'
  BY DEF IInv, CurrentIsNew, Store
<1>7. QED
  BY <1>4, <1>5, <1>6, FinishHandlers DEF IInv, Store

(* The contents change: the new one is as young as can be, the others keep *)
(* their age.                                                              *)
LEMMA ChangeIInv ==
  ASSUME IInv, NEW c \in Categories, NEW v \in Contents[c], Change(c, v)
  PROVE  IInv'
<1>1. ASSUME NEW d \in Categories
      PROVE  /\ age'[d] \in [Contents[d] -> 0..Oldest]
             /\ \A w \in Contents[d] : age'[d][w] \in Nat /\ age'[d][w] <= age[d][w]
             /\ age'[d][db'[d]] = 0
  <2>1. age[d] \in [Contents[d] -> 0..Oldest] /\ Oldest \in Nat
    BY CacheAssumption DEF IInv, TypeOK, Oldest
  <2>2. CASE d = c
    <3>1. age'[d] = [age[d] EXCEPT ![v] = 0] /\ db'[d] = v
      BY <2>2, ListsType DEF IInv, TypeOK, Change
    <3>2. QED
      BY <2>1, <2>2, <3>1
  <2>3. CASE d # c
    <3>1. age'[d] = age[d] /\ db'[d] = db[d] /\ db[d] \in Contents[d]
      BY <2>3, ListsType DEF IInv, TypeOK, Change
    <3>2. QED
      BY <2>1, <3>1 DEF IInv, CurrentIsNew
  <2>4. QED
    BY <2>2, <2>3
<1>2. db' \in Lists
  BY ReplaceInList DEF IInv, TypeOK, Change
<1>3. TypeOK'
  BY <1>1, <1>2 DEF IInv, TypeOK, Change, handlers
<1>4. CurrentIsNew'
  BY <1>1 DEF CurrentIsNew
<1>5. LoadedInTime'
  <2> SUFFICES ASSUME NEW r \in Requests, NEW d \in Categories, loaded[r][d] # NoLoad
               PROVE  /\ age'[d][loaded[r][d]] <= elapsed[r]
                      /\ age'[d][loaded[r][d]] + stamp[r] <= Ttl + elapsed[r]
    BY DEF LoadedInTime, Change, handlers
  <2>1. loaded[r][d] \in Contents[d] /\ stamp[r] \in 0..Ttl /\ elapsed[r] \in 0..Limit
    BY PartialType DEF IInv, TypeOK
  <2>2. age[d][loaded[r][d]] \in 0..Oldest
    BY <2>1 DEF IInv, TypeOK
  <2>3. /\ age'[d][loaded[r][d]] \in Nat
        /\ age'[d][loaded[r][d]] <= age[d][loaded[r][d]]
    BY <1>1, <2>1
  <2>4. QED
    BY <2>1, <2>2, <2>3, CacheAssumption DEF IInv, LoadedInTime, Oldest
<1>6. CachedInTime'
  <2> SUFFICES ASSUME NEW d \in Categories, Fresh
               PROVE  age'[d][cache.lists[d]] + cache.expiresIn <= Ttl + Limit
    BY DEF CachedInTime, Change, Fresh
  <2>1. cache.lists[d] \in Contents[d] /\ cache.expiresIn \in 0..Ttl
    BY ListsType DEF IInv, TypeOK, Fresh
  <2>2. /\ age[d][cache.lists[d]] \in 0..Oldest
        /\ age'[d][cache.lists[d]] \in Nat
        /\ age'[d][cache.lists[d]] <= age[d][cache.lists[d]]
    BY <1>1, <2>1 DEF IInv, TypeOK
  <2>3. QED
    BY <2>1, <2>2, CacheAssumption DEF IInv, CachedInTime, Oldest
<1>7. LoadedBeforeStored'
  BY DEF IInv, LoadedBeforeStored, Change, handlers
<1>8. QED
  BY <1>3, <1>4, <1>5, <1>6, <1>7 DEF IInv

(* Time passes: what is loaded and what is cached age as fast as their     *)
(* requests and their expires_at do.                                       *)
LEMMA TickIInv ==
  ASSUME IInv, Tick
  PROVE  IInv'
<1>1. ASSUME NEW d \in Categories
      PROVE  /\ age'[d] \in [Contents[d] -> 0..Oldest]
             /\ \A w \in Contents[d] : /\ age[d][w] \in 0..Oldest /\ age'[d][w] \in Nat
                                       /\ age'[d][w] <= age[d][w] + 1
             /\ age'[d][db'[d]] = 0
  BY CacheAssumption, ListsType DEF IInv, TypeOK, Tick, Older, Oldest
<1>2. ASSUME NEW r \in Requests
      PROVE  /\ stamp[r] \in 0..Ttl /\ elapsed[r] \in 0..Limit
             /\ stamp'[r] \in 0..Ttl /\ elapsed'[r] \in 0..Limit
             /\ stamp'[r] = IF stamp[r] = 0 THEN 0 ELSE stamp[r] - 1
             /\ phase[r] = "idle" => elapsed'[r] = 0
             /\ phase[r] # "idle" => elapsed'[r] = elapsed[r] + 1
  BY CacheAssumption DEF IInv, TypeOK, Tick, Sooner
<1>3. TypeOK'
  <2>1. cache' = NoCache \/ cache' \in [expiresIn : 0..Ttl, lists : Lists]
    BY CacheAssumption DEF IInv, TypeOK, Tick, Sooner
  <2>2. stamp' \in [Requests -> 0..Ttl] /\ elapsed' \in [Requests -> 0..Limit]
    BY <1>2 DEF Tick
  <2>3. QED
    BY <1>1, <2>1, <2>2 DEF IInv, TypeOK, Tick
<1>4. CurrentIsNew'
  BY <1>1 DEF CurrentIsNew
<1>5. LoadedInTime'
  <2> SUFFICES ASSUME NEW r \in Requests, NEW d \in Categories, loaded[r][d] # NoLoad
               PROVE  /\ age'[d][loaded[r][d]] <= elapsed'[r]
                      /\ age'[d][loaded[r][d]] + stamp'[r] <= Ttl + elapsed'[r]
    BY DEF LoadedInTime, Tick
  <2>1. phase[r] # "idle" /\ loaded[r][d] \in Contents[d]
    BY PartialType DEF IInv, TypeOK, LoadedBeforeStored, Nothing
  <2>2. /\ age[d][loaded[r][d]] \in 0..Oldest /\ age'[d][loaded[r][d]] \in Nat
        /\ age'[d][loaded[r][d]] <= age[d][loaded[r][d]] + 1
    BY <1>1, <2>1
  <2>3. /\ age[d][loaded[r][d]] <= elapsed[r]
        /\ age[d][loaded[r][d]] + stamp[r] <= Ttl + elapsed[r]
    BY DEF IInv, LoadedInTime
  <2>4. QED
    BY <1>2, <2>1, <2>2, <2>3, CacheAssumption DEF Oldest
<1>6. CachedInTime'
  <2> SUFFICES ASSUME NEW d \in Categories, Fresh'
               PROVE  age'[d][cache'.lists[d]] + cache'.expiresIn <= Ttl + Limit
    BY DEF CachedInTime
  <2>1. cache # NoCache /\ cache \in [expiresIn : 0..Ttl, lists : Lists]
    BY DEF IInv, TypeOK, Tick, Fresh
  <2>2. /\ cache.expiresIn \in 0..Ttl /\ cache.expiresIn > 0
        /\ cache'.expiresIn = cache.expiresIn - 1 /\ cache'.lists = cache.lists
    BY <2>1, CacheAssumption DEF Tick, Fresh, Sooner
  <2>3. cache.lists[d] \in Contents[d]
    BY <2>1, ListsType
  <2>4. age[d][cache.lists[d]] + cache.expiresIn <= Ttl + Limit
    BY <2>1, <2>2 DEF IInv, CachedInTime, Fresh
  <2>5. QED
    BY <1>1, <2>2, <2>3, <2>4, CacheAssumption DEF Oldest
<1>7. LoadedBeforeStored'
  BY <1>2 DEF IInv, LoadedBeforeStored, Tick
<1>8. QED
  BY <1>3, <1>4, <1>5, <1>6, <1>7 DEF IInv

LEMMA NextIInv == IInv /\ [Next]_vars => IInv'
<1> SUFFICES ASSUME IInv, [Next]_vars PROVE IInv'
  OBVIOUS
<1>1. ASSUME NEW r \in Requests, Ask(r) \/ Handle(r) \/ Dropped(r)
      PROVE  IInv'
  <2>1. CASE Ask(r) \/ AcquireRead(r) \/ Miss(r)
    BY <2>1, GuardIInv
  <2>2. CASE Hit(r) \/ LoadFails(r) \/ Dropped(r)
    BY <2>2, FinishIInv DEF Hit, LoadFails, Dropped
  <2>3. ASSUME NEW c \in Categories, Load(r, c)
        PROVE  IInv'
    BY <2>3, LoadIInv
  <2>4. CASE Stamp(r)
    BY <2>4, StampIInv
  <2>5. CASE Store(r)
    BY <2>5, StoreIInv
  <2>6. QED
    BY <1>1, <2>1, <2>2, <2>3, <2>4, <2>5 DEF Handle
<1>2. ASSUME NEW c \in Categories, NEW v \in Contents[c], Change(c, v)
      PROVE  IInv'
  BY <1>2, ChangeIInv
<1>3. CASE Tick
  BY <1>3, TickIInv
<1>4. CASE UNCHANGED vars
  BY <1>4 DEF vars, IInv, TypeOK, CurrentIsNew, LoadedInTime, LoadedBeforeStored,
              CachedInTime, Fresh
<1>5. QED
  BY <1>1, <1>2, <1>3, <1>4 DEF Next

(***************************************************************************)
(* Theorems.                                                               *)
(***************************************************************************)
(* The strengthened invariant holds in every reachable state.              *)
THEOREM InductiveInvariant == Spec => []IInv
BY InitIInv, NextIInv, PTL DEF Spec

(* The variables keep their types: what is cached is two loaded lists.     *)
THEOREM TypeCorrect == Spec => []TypeOK
<1>1. IInv => TypeOK
  BY DEF IInv
<1>2. QED
  BY <1>1, InductiveInvariant, PTL

(* No answer of GET /popular-devices is older than CACHE_TTL and           *)
(* REQUEST_TIMEOUT together (popularity.rs, list_popular_devices), for     *)
(* every number of handlers and every value of the two.                    *)
THEOREM StalenessAlwaysBounded == Spec => []BoundedStaleness
<1>1. IInv => BoundedStaleness
  <2> SUFFICES ASSUME IInv PROVE BoundedStaleness
    OBVIOUS
  <2>1. ASSUME Fresh, NEW c \in Categories
        PROVE  age[c][cache.lists[c]] <= Ttl + Limit
    <3>1. cache.lists[c] \in Contents[c] /\ cache.expiresIn \in 0..Ttl
      BY <2>1, ListsType DEF IInv, TypeOK, Fresh
    <3>2. age[c][cache.lists[c]] \in 0..Oldest
      BY <3>1 DEF IInv, TypeOK
    <3>3. QED
      BY <2>1, <3>1, <3>2, CacheAssumption DEF IInv, CachedInTime, Oldest
  <2>2. ASSUME NEW r \in Requests, NEW c \in Categories, loaded[r][c] # NoLoad
        PROVE  age[c][loaded[r][c]] <= Limit
    <3>1. loaded[r][c] \in Contents[c] /\ elapsed[r] \in 0..Limit
      BY <2>2, PartialType DEF IInv, TypeOK
    <3>2. age[c][loaded[r][c]] \in 0..Oldest
      BY <3>1 DEF IInv, TypeOK
    <3>3. QED
      BY <2>2, <3>1, <3>2, CacheAssumption DEF IInv, LoadedInTime, Oldest
  <2>3. QED
    BY <2>1, <2>2 DEF BoundedStaleness
<1>2. QED
  BY <1>1, InductiveInvariant, PTL
=============================================================================
