---------------------------- MODULE PopularCache ----------------------------
(***************************************************************************)
(* GET /popular-devices: handlers that share one response behind a tokio   *)
(* RwLock.  A handler looks at the cached response under a read guard and, *)
(* when there is none or it has expired, reloads both lists from the       *)
(* database and stores them under a write guard.  Handlers interleave at   *)
(* every await, so a slow one may overwrite what a faster one has stored.  *)
(* Nothing that writes the database touches the cache.                     *)
(***************************************************************************)
EXTENDS Naturals

CONSTANTS
  Requests,   \* places where one request at a time is handled
  Categories, \* the lists that are loaded by queries of their own
  Contents,   \* what the query of each category can return
  NoLoad, NoCache,
  Ttl,        \* CACHE_TTL, in ticks
  Limit       \* REQUEST_TIMEOUT, in ticks

ASSUME CacheAssumption ==
  /\ Ttl \in Nat \ {0} /\ Limit \in Nat
  /\ \A c \in Categories : NoLoad \notin Contents[c]

VARIABLES
  db,       \* what the query of a category would return now
  age,      \* ticks since the query of a category last returned a content
  cache,    \* state.popular_devices_cache
  readers,  \* handlers that hold a read guard
  phase,    \* what each handler does
  elapsed,  \* ticks since its request arrived
  loaded,   \* the lists a handler has loaded
  stamp     \* ticks until the expires_at it has computed

handlers == <<phase, elapsed, loaded, stamp>>
vars == <<db, age, cache, readers, phase, elapsed, loaded, stamp>>

Phases == {"idle", "check", "guard", "load", "store"}

(* The phases in which a handler awaits: it can be dropped there.          *)
Awaiting == {"check", "load", "store"}

(* The age counter stops one tick after the bound the properties are about.*)
Oldest == Ttl + Limit + 1

Nothing == [c \in Categories |-> NoLoad]

AllContents == UNION {Contents[c] : c \in Categories}
Lists ==
  {f \in [Categories -> AllContents] : \A c \in Categories : f[c] \in Contents[c]}
PartialLists ==
  {f \in [Categories -> AllContents \cup {NoLoad}] :
     \A c \in Categories : f[c] \in Contents[c] \cup {NoLoad}}

Init ==
  /\ db \in Lists
  /\ age = [c \in Categories |->
              [v \in Contents[c] |-> IF v = db[c] THEN 0 ELSE Oldest]]
  /\ cache = NoCache
  /\ readers = {}
  /\ phase = [r \in Requests |-> "idle"]
  /\ elapsed = [r \in Requests |-> 0]
  /\ loaded = [r \in Requests |-> Nothing]
  /\ stamp = [r \in Requests |-> 0]

(* The handler is done, or dropped, and lets go of everything.             *)
Finish(r) ==
  /\ phase' = [phase EXCEPT ![r] = "idle"]
  /\ elapsed' = [elapsed EXCEPT ![r] = 0]
  /\ loaded' = [loaded EXCEPT ![r] = Nothing]
  /\ stamp' = [stamp EXCEPT ![r] = 0]
  /\ readers' = readers \ {r}

Ask(r) ==
  /\ phase[r] = "idle"
  /\ phase' = [phase EXCEPT ![r] = "check"]
  /\ UNCHANGED <<db, age, cache, readers, elapsed, loaded, stamp>>

(* read().await; a write guard is never held across an await, so Store is  *)
(* one step and a reader finds no writer.                                  *)
AcquireRead(r) ==
  /\ phase[r] = "check"
  /\ readers' = readers \cup {r}
  /\ phase' = [phase EXCEPT ![r] = "guard"]
  /\ UNCHANGED <<db, age, cache, elapsed, loaded, stamp>>

(* cached.expires_at > Instant::now()                                      *)
Fresh == cache # NoCache /\ cache.expiresIn > 0

(* Mutant: the response is stored with a time to live that starts afresh   *)
(* whenever it is served.                                                  *)
Hit_Renews(r) ==
  /\ phase[r] = "guard"
  /\ Fresh
  /\ cache' = [cache EXCEPT !.expiresIn = Ttl]
  /\ Finish(r)
  /\ UNCHANGED <<db, age>>

(* The cached response is the answer.                                      *)
Hit(r) ==
  /\ phase[r] = "guard"
  /\ Fresh
  /\ Finish(r)
  /\ UNCHANGED <<db, age, cache>>

(* Mutant: the guard lives until the end of the handler, as a temporary of *)
(* a match on the cached value would.                                      *)
Miss_KeepsGuard(r) ==
  /\ phase[r] = "guard"
  /\ ~Fresh
  /\ phase' = [phase EXCEPT ![r] = "load"]
  /\ UNCHANGED <<db, age, cache, readers, elapsed, loaded, stamp>>

(* The guard is a temporary of the if-let and goes before the lists load.  *)
Miss(r) ==
  /\ phase[r] = "guard"
  /\ ~Fresh
  /\ readers' = readers \ {r}
  /\ phase' = [phase EXCEPT ![r] = "load"]
  /\ UNCHANGED <<db, age, cache, elapsed, loaded, stamp>>

(* try_join: the queries run on connections of their own, in any order.    *)
Load(r, c) ==
  /\ phase[r] = "load" /\ loaded[r][c] = NoLoad
  /\ loaded' = [loaded EXCEPT ![r][c] = db[c]]
  /\ UNCHANGED <<db, age, cache, readers, phase, elapsed, stamp>>

(* Either query fails: 503, and the cache stays as it is.                  *)
LoadFails(r) ==
  /\ phase[r] = "load" /\ \E c \in Categories : loaded[r][c] = NoLoad
  /\ Finish(r)
  /\ UNCHANGED <<db, age, cache>>

(* Mutant: one list is enough to go on.                                    *)
Stamp_OneList(r) ==
  /\ phase[r] = "load" /\ \E c \in Categories : loaded[r][c] # NoLoad
  /\ stamp' = [stamp EXCEPT ![r] = Ttl]
  /\ phase' = [phase EXCEPT ![r] = "store"]
  /\ UNCHANGED <<db, age, cache, readers, elapsed, loaded>>

(* The right-hand side, with Instant::now() + CACHE_TTL in it, is evaluated*)
(* before write().await.                                                   *)
Stamp(r) ==
  /\ phase[r] = "load" /\ \A c \in Categories : loaded[r][c] # NoLoad
  /\ stamp' = [stamp EXCEPT ![r] = Ttl]
  /\ phase' = [phase EXCEPT ![r] = "store"]
  /\ UNCHANGED <<db, age, cache, readers, elapsed, loaded>>

(* The write guard waits for the read guards; the response replaces what   *)
(* is cached, be it newer, and is the answer.                              *)
Store(r) ==
  /\ phase[r] = "store" /\ readers = {}
  /\ cache' = [expiresIn |-> stamp[r], lists |-> loaded[r]]
  /\ Finish(r)
  /\ UNCHANGED <<db, age>>

(* The TimeoutLayer answers 408, or the client goes away: the handler is   *)
(* dropped where it awaits.                                                *)
Dropped(r) ==
  /\ phase[r] \in Awaiting
  /\ Finish(r)
  /\ UNCHANGED <<db, age, cache>>

(* A device is published, archived, renamed or selected.                   *)
Change(c, v) ==
  /\ v # db[c]
  /\ db' = [db EXCEPT ![c] = v]
  /\ age' = [age EXCEPT ![c][v] = 0]
  /\ UNCHANGED <<cache, readers, handlers>>

Older(a) == IF a < Oldest THEN a + 1 ELSE a
Sooner(t) == IF t > 0 THEN t - 1 ELSE 0

(* One tick; no handler outlives the time limit.                           *)
Tick ==
  /\ \A r \in Requests : phase[r] # "idle" => elapsed[r] < Limit
  /\ age' = [c \in Categories |->
               [v \in Contents[c] |-> IF v = db[c] THEN 0 ELSE Older(age[c][v])]]
  /\ cache' = IF cache = NoCache THEN NoCache
              ELSE [cache EXCEPT !.expiresIn = Sooner(@)]
  /\ elapsed' = [r \in Requests |-> IF phase[r] = "idle" THEN 0 ELSE elapsed[r] + 1]
  /\ stamp' = [r \in Requests |-> Sooner(stamp[r])]
  /\ UNCHANGED <<db, readers, phase, loaded>>

Handle(r) ==
  \/ AcquireRead(r) \/ Hit(r) \/ Miss(r)
  \/ \E c \in Categories : Load(r, c)
  \/ LoadFails(r) \/ Stamp(r) \/ Store(r)

Next ==
  \/ \E r \in Requests : Ask(r) \/ Handle(r) \/ Dropped(r)
  \/ \E c \in Categories : \E v \in Contents[c] : Change(c, v)
  \/ Tick

Spec == Init /\ [][Next]_vars

(* The runtime polls every handler that can go on, queries return, and the *)
(* lock is fair (tokio's is FIFO).  That a request is dropped in the end   *)
(* is not assumed: a handler has to finish by itself.                      *)
FairSpec == Spec /\ \A r \in Requests : SF_vars(Handle(r))

(***************************************************************************)
(* Properties.                                                             *)
(***************************************************************************)
TypeOK ==
  /\ db \in Lists
  /\ DOMAIN age = Categories
  /\ \A c \in Categories : age[c] \in [Contents[c] -> 0..Oldest]
  /\ cache = NoCache \/ cache \in [expiresIn : 0..Ttl, lists : Lists]
  /\ readers \subseteq Requests
  /\ phase \in [Requests -> Phases]
  /\ elapsed \in [Requests -> 0..Limit]
  /\ loaded \in [Requests -> PartialLists]
  /\ stamp \in [Requests -> 0..Ttl]

(* Whatever the handler answers was in the database at most CACHE_TTL plus *)
(* REQUEST_TIMEOUT ago, although slow handlers overwrite newer responses   *)
(* and never recompute expires_at.                                         *)
BoundedStaleness ==
  /\ Fresh => \A c \in Categories : age[c][cache.lists[c]] <= Ttl + Limit
  /\ \A r \in Requests : \A c \in Categories :
       loaded[r][c] # NoLoad => age[c][loaded[r][c]] <= Limit

(* Every request is answered without the help of the time limit: no guard  *)
(* is kept by a handler that waits for the other kind of guard.            *)
EveryRequestAnswered == \A r \in Requests : phase[r] # "idle" ~> phase[r] = "idle"

(* docs/catalog-design.md:282: a shared cache goes with invalidation when  *)
(* the publication status of a device changes.                             *)
HitsAreCurrent == [][\A r \in Requests : Hit(r) => cache.lists = db]_vars

=============================================================================
