------------------------------ MODULE SkuCache ------------------------------
(***************************************************************************)
(* The read path of a product page: SkuServiceImpl.getSkuInfoBySkuId of    *)
(* manager-service, called over Dubbo by item-web and cart-web, while the   *)
(* back office saves, updates and deletes the row it reads.                 *)
(*                                                                         *)
(* A thread looks in Redis under sku:<id>:info.  On a blank value it asks   *)
(* for the lock sku:<id>:lock (SET NX PX), reads the database, stores what  *)
(* it found (a product for ever, the marker "empty" for a few seconds) and  *)
(* deletes the lock.  A thread that does not get the lock sleeps and calls  *)
(* the method again, but drops what that inner call returns.                *)
(*                                                                         *)
(* The lock value is always "1": Redis does not know who owns it.  `owner`  *)
(* records the thread whose SET succeeded, and no action but the SET, the   *)
(* DEL and the expiry of the key touches it, so that owner[s] # NoThread    *)
(* says that the lock key exists.                                           *)
(***************************************************************************)
EXTENDS Naturals

CONSTANTS
    Skus,        \* product ids
    Threads,     \* Dubbo provider threads that run getSkuInfoBySkuId
    OnSale,      \* the products that are in the database at the start
    LockTTL,     \* life of the lock key (px 5000), in clock ticks
    EmptyTTL,    \* life of the "empty" marker (setex 3), in clock ticks
    SpinSleep,   \* Thread.sleep(5000), in clock ticks
    MaxVersion,  \* bound: how often a row is written
    MaxFailures, \* bound: how many database reads fail or die
    Blank,       \* the key sku:<id>:info does not exist
    Empty,       \* the key holds the marker "empty"
    NoThread     \* the lock key does not exist

ASSUME TimesAssumption ==
    /\ LockTTL \in Nat \ {0}
    /\ EmptyTTL \in Nat \ {0}
    /\ SpinSleep \in Nat \ {0}

ASSUME BoundsAssumption == MaxVersion \in Nat \ {0} /\ MaxFailures \in Nat

ASSUME ValuesAssumption ==
    /\ OnSale \subseteq Skus
    /\ Blank \notin Nat /\ Empty \notin Nat /\ Blank # Empty
    /\ NoThread \notin Threads

VARIABLES
    row,       \* row[s]: content version of the committed sku_info row, 0 when there is none
    written,   \* written[s]: the last version ever committed, 0 before saveSku
    cache,     \* cache[s]: value of sku:<s>:info
    cacheTTL,  \* cacheTTL[s]: remaining life of that key, 0 when it never expires
    owner,     \* owner[s]: thread whose SET created the lock key
    lockTTL,   \* lockTTL[s]: remaining life of the lock key
    pc,        \* pc[t]: the call the thread makes next
    sku,       \* sku[t]: argument of the call
    skuInfo,   \* skuInfo[t]: the local of that name, a version or 0 for null
    nested,    \* nested[t]: the thread is inside the recursive call of line 259
    sleep,     \* sleep[t]: rest of Thread.sleep
    answer,    \* answer[t]: what the last call returned, 0 for null, an exception or none yet
    failures,  \* number of database reads that failed so far
    overrun,   \* history: a lock of s expired while its owner was still working
    seen,      \* history: seen[t][s] is the last version of s answered to t
    age        \* history: ticks since s was saved, counted up to AgeCap

dbVars   == <<row, written, age>>
keyVars  == <<cache, cacheTTL>>
lockVars == <<owner, lockTTL, overrun>>
callVars == <<pc, sku, skuInfo, nested, sleep, answer, seen>>
vars     == <<dbVars, keyVars, lockVars, callVars, failures>>

Null     == 0
Versions == 1..MaxVersion
AgeBound == LockTTL + EmptyTTL
AgeCap   == AgeBound + 1

\* Program points at which a thread believes that it holds the lock.
Working == {"readDb", "fill", "release"}

TypeOK ==
    /\ row \in [Skus -> 0..MaxVersion]
    /\ written \in [Skus -> 0..MaxVersion]
    /\ cache \in [Skus -> Versions \cup {Blank, Empty}]
    /\ cacheTTL \in [Skus -> 0..EmptyTTL]
    /\ owner \in [Skus -> Threads \cup {NoThread}]
    /\ lockTTL \in [Skus -> 0..LockTTL]
    /\ pc \in [Threads -> {"idle", "readCache", "askLock", "sleep"} \cup Working]
    /\ sku \in [Threads -> Skus]
    /\ skuInfo \in [Threads -> 0..MaxVersion]
    /\ nested \in [Threads -> BOOLEAN]
    /\ sleep \in [Threads -> 0..SpinSleep]
    /\ answer \in [Threads -> 0..MaxVersion]
    /\ failures \in 0..MaxFailures
    /\ overrun \in [Skus -> BOOLEAN]
    /\ seen \in [Threads -> [Skus -> 0..MaxVersion]]
    /\ age \in [Skus -> 0..AgeCap]

Init ==
    /\ row = [s \in Skus |-> IF s \in OnSale THEN 1 ELSE 0]
    /\ written = row
    /\ cache = [s \in Skus |-> Blank]
    /\ cacheTTL = [s \in Skus |-> 0]
    /\ owner = [s \in Skus |-> NoThread]
    /\ lockTTL = [s \in Skus |-> 0]
    /\ pc = [t \in Threads |-> "idle"]
    /\ sku \in [Threads -> Skus]
    /\ skuInfo = [t \in Threads |-> Null]
    /\ nested = [t \in Threads |-> FALSE]
    /\ sleep = [t \in Threads |-> 0]
    /\ answer = [t \in Threads |-> Null]
    /\ failures = 0
    /\ overrun = [s \in Skus |-> FALSE]
    /\ seen = [t \in Threads |-> [s \in Skus |-> 0]]
    /\ age = [s \in Skus |-> IF s \in OnSale THEN AgeCap ELSE 0]

-----------------------------------------------------------------------------
(* The back office.  Each method runs in one transaction; what matters to a *)
(* reader is the commit.  None of the three touches Redis.                  *)

SaveSku(s) ==
    /\ written[s] = 0
    /\ row' = [row EXCEPT ![s] = 1]
    /\ written' = [written EXCEPT ![s] = 1]
    /\ age' = [age EXCEPT ![s] = 0]
    /\ UNCHANGED <<keyVars, lockVars, callVars, failures>>

UpdateSkuInfo(s) ==
    /\ row[s] # 0
    /\ written[s] < MaxVersion
    /\ row' = [row EXCEPT ![s] = written[s] + 1]
    /\ written' = [written EXCEPT ![s] = written[s] + 1]
    /\ UNCHANGED <<age, keyVars, lockVars, callVars, failures>>

DeleteSkuInfo(s) ==
    /\ row[s] # 0
    /\ row' = [row EXCEPT ![s] = 0]
    /\ UNCHANGED <<written, age, keyVars, lockVars, callVars, failures>>

-----------------------------------------------------------------------------
(* getSkuInfoBySkuId, one action per Redis command or database query.       *)

\* `return v`: an outer frame that was waiting for the recursive call returns
\* its own skuInfo, which is still null.
Return(t, v) ==
    LET result == IF nested[t] THEN Null ELSE v IN
    /\ pc' = [pc EXCEPT ![t] = "idle"]
    /\ skuInfo' = [skuInfo EXCEPT ![t] = Null]
    /\ nested' = [nested EXCEPT ![t] = FALSE]
    /\ answer' = [answer EXCEPT ![t] = result]
    /\ seen' = IF result = Null THEN seen
               ELSE [seen EXCEPT ![t][sku[t]] = result]
    /\ UNCHANGED <<sku, sleep>>

Goto(t, label) ==
    /\ pc' = [pc EXCEPT ![t] = label]
    /\ UNCHANGED <<sku, skuInfo, nested, sleep, answer, seen>>

Call(t, s) ==
    /\ pc[t] = "idle"
    /\ pc' = [pc EXCEPT ![t] = "readCache"]
    /\ sku' = [sku EXCEPT ![t] = s]
    /\ answer' = [answer EXCEPT ![t] = Null]
    /\ UNCHANGED <<skuInfo, nested, sleep, seen>>
    /\ UNCHANGED <<dbVars, keyVars, lockVars, failures>>

ReadCache(t) ==
    /\ pc[t] = "readCache"
    /\ \/ cache[sku[t]] = Empty /\ Return(t, Null)
       \/ cache[sku[t]] = Blank /\ Goto(t, "askLock")
       \/ cache[sku[t]] \notin {Empty, Blank} /\ Return(t, cache[sku[t]])
    /\ UNCHANGED <<dbVars, keyVars, lockVars, failures>>

\* Mutant: SET without NX overwrites the lock of another thread.
AskLockWithoutNX(t) ==
    /\ pc[t] = "askLock"
    /\ owner' = [owner EXCEPT ![sku[t]] = t]
    /\ lockTTL' = [lockTTL EXCEPT ![sku[t]] = LockTTL]
    /\ Goto(t, "readDb")
    /\ UNCHANGED <<dbVars, keyVars, overrun, failures>>

\* Mutant: SETNX without PX, the lock never expires.
AskLockWithoutPX(t) ==
    /\ pc[t] = "askLock"
    /\ owner[sku[t]] = NoThread
    /\ owner' = [owner EXCEPT ![sku[t]] = t]
    /\ Goto(t, "readDb")
    /\ UNCHANGED <<dbVars, keyVars, lockTTL, overrun, failures>>

\* SET sku:<id>:lock 1 NX PX 5000 answers OK.
AskLock(t) ==
    /\ pc[t] = "askLock"
    /\ owner[sku[t]] = NoThread
    /\ owner' = [owner EXCEPT ![sku[t]] = t]
    /\ lockTTL' = [lockTTL EXCEPT ![sku[t]] = LockTTL]
    /\ Goto(t, "readDb")
    /\ UNCHANGED <<dbVars, keyVars, overrun, failures>>

\* The lock is taken: Thread.sleep, then the recursive call.
Spin(t) ==
    /\ pc[t] = "askLock"
    /\ owner[sku[t]] # NoThread
    /\ pc' = [pc EXCEPT ![t] = "sleep"]
    /\ sleep' = [sleep EXCEPT ![t] = SpinSleep]
    /\ UNCHANGED <<sku, skuInfo, nested, answer, seen>>
    /\ UNCHANGED <<dbVars, keyVars, lockVars, failures>>

\* Mutant: a thread that slept for the life of the lock goes straight to the
\* database.
WakeIntoDb(t) ==
    /\ pc[t] = "sleep"
    /\ sleep[t] = 0
    /\ Goto(t, "readDb")
    /\ UNCHANGED <<dbVars, keyVars, lockVars, failures>>

Wake(t) ==
    /\ pc[t] = "sleep"
    /\ sleep[t] = 0
    /\ pc' = [pc EXCEPT ![t] = "readCache"]
    /\ nested' = [nested EXCEPT ![t] = TRUE]
    /\ UNCHANGED <<sku, skuInfo, sleep, answer, seen>>
    /\ UNCHANGED <<dbVars, keyVars, lockVars, failures>>

\* Mutant: the lock is given back before the cache is filled.
ReadDbThenRelease(t) ==
    /\ pc[t] = "readDb"
    /\ owner' = [owner EXCEPT ![sku[t]] = NoThread]
    /\ lockTTL' = [lockTTL EXCEPT ![sku[t]] = 0]
    /\ skuInfo' = [skuInfo EXCEPT ![t] = row[sku[t]]]
    /\ pc' = [pc EXCEPT ![t] = "fill"]
    /\ UNCHANGED <<sku, nested, sleep, answer, seen>>
    /\ UNCHANGED <<dbVars, keyVars, overrun, failures>>

\* getSkuInfoBySkuIdFormDB: both selects read the snapshot of one transaction.
ReadDb(t) ==
    /\ pc[t] = "readDb"
    /\ skuInfo' = [skuInfo EXCEPT ![t] = row[sku[t]]]
    /\ pc' = [pc EXCEPT ![t] = "fill"]
    /\ UNCHANGED <<sku, nested, sleep, answer, seen>>
    /\ UNCHANGED <<dbVars, keyVars, lockVars, failures>>

\* The query throws, or the provider dies: no finally block deletes the lock,
\* and the consumer gets an exception instead of an answer.
DbFails(t) ==
    /\ pc[t] = "readDb"
    /\ failures < MaxFailures
    /\ failures' = failures + 1
    /\ pc' = [pc EXCEPT ![t] = "idle"]
    /\ nested' = [nested EXCEPT ![t] = FALSE]
    /\ UNCHANGED <<sku, skuInfo, sleep, answer, seen>>
    /\ UNCHANGED <<dbVars, keyVars, lockVars>>

\* Mutant: the marker is stored without a time to live.
FillMarkerForEver(t) ==
    /\ pc[t] = "fill"
    /\ cache' = [cache EXCEPT ![sku[t]] = IF skuInfo[t] = Null THEN Empty ELSE skuInfo[t]]
    /\ cacheTTL' = [cacheTTL EXCEPT ![sku[t]] = 0]
    /\ Goto(t, "release")
    /\ UNCHANGED <<dbVars, lockVars, failures>>

\* Mutant: the marker is stored, the product is not.
FillMarkerOnly(t) ==
    /\ pc[t] = "fill"
    /\ IF skuInfo[t] = Null
       THEN /\ cache' = [cache EXCEPT ![sku[t]] = Empty]
            /\ cacheTTL' = [cacheTTL EXCEPT ![sku[t]] = EmptyTTL]
       ELSE UNCHANGED keyVars
    /\ Goto(t, "release")
    /\ UNCHANGED <<dbVars, lockVars, failures>>

FillCache(t) ==
    LET s == sku[t] IN
    /\ pc[t] = "fill"
    /\ \/ /\ skuInfo[t] # Null
          /\ cache' = [cache EXCEPT ![s] = skuInfo[t]]
          /\ cacheTTL' = [cacheTTL EXCEPT ![s] = 0]
       \/ /\ skuInfo[t] = Null
          /\ cache' = [cache EXCEPT ![s] = Empty]
          /\ cacheTTL' = [cacheTTL EXCEPT ![s] = EmptyTTL]
    /\ Goto(t, "release")
    /\ UNCHANGED <<dbVars, lockVars, failures>>

\* DEL sku:<id>:lock, whoever created the key, then `return skuInfo`.
ReleaseLock(t) ==
    /\ pc[t] = "release"
    /\ owner' = [owner EXCEPT ![sku[t]] = NoThread]
    /\ lockTTL' = [lockTTL EXCEPT ![sku[t]] = 0]
    /\ Return(t, skuInfo[t])
    /\ UNCHANGED <<dbVars, keyVars, overrun, failures>>

-----------------------------------------------------------------------------
(* One second passes: Redis counts its keys down and drops those that reach *)
(* 0, sleepers get closer to waking.                                        *)

\* Mutant: an expired key goes on counting.
CountDownPastZero(n) == n - 1

CountDown(n) == IF n = 0 THEN 0 ELSE n - 1

Tick ==
    /\ lockTTL' = [s \in Skus |-> CountDown(lockTTL[s])]
    /\ owner' = [s \in Skus |-> IF lockTTL[s] = 1 THEN NoThread ELSE owner[s]]
    /\ overrun' = [s \in Skus |->
            \/ overrun[s]
            \/ lockTTL[s] = 1 /\ \E t \in Threads : sku[t] = s /\ pc[t] \in Working]
    /\ cacheTTL' = [s \in Skus |-> CountDown(cacheTTL[s])]
    /\ cache' = [s \in Skus |-> IF cacheTTL[s] = 1 THEN Blank ELSE cache[s]]
    /\ sleep' = [t \in Threads |-> CountDown(sleep[t])]
    /\ age' = [s \in Skus |-> IF row[s] # 0 /\ age[s] < AgeCap THEN age[s] + 1 ELSE age[s]]
    /\ UNCHANGED <<row, written, pc, sku, skuInfo, nested, answer, seen, failures>>

ThreadStep(t) ==
    \/ ReadCache(t)
    \/ AskLock(t)
    \/ Spin(t)
    \/ Wake(t)
    \/ ReadDb(t)
    \/ FillCache(t)
    \/ ReleaseLock(t)

BackOffice(s) == SaveSku(s) \/ UpdateSkuInfo(s) \/ DeleteSkuInfo(s)

Next ==
    \/ Tick
    \/ \E s \in Skus : BackOffice(s)
    \/ \E t \in Threads : ThreadStep(t) \/ DbFails(t) \/ \E s \in Skus : Call(t, s)

Spec == Init /\ [][Next]_vars

\* Redis counts keys down and the scheduler runs every thread that is inside a
\* call; nobody has to call, to write a row, or to fail.
FairSpec ==
    /\ Spec
    /\ WF_vars(Tick)
    /\ \A t \in Threads : WF_vars(ThreadStep(t))

-----------------------------------------------------------------------------
(* What the read path promises.                                             *)

\* A product's database row is read under the lock by one thread at a time, as
\* long as no owner has outlived the 5 seconds of its lock (lines 225-250).
MutualExclusion ==
    \A t, u \in Threads :
        /\ t # u /\ sku[t] = sku[u] /\ ~overrun[sku[t]]
        => ~(pc[t] \in Working /\ pc[u] \in Working)

\* A thread deletes the lock it created and no other (line 250), as long as no
\* owner has outlived its lock.
ReleasesOwnLock ==
    [][\A t \in Threads : pc[t] = "release" /\ pc'[t] = "idle" /\ ~overrun[sku[t]]
            => owner[sku[t]] = t]_vars

\* While nobody outlives the lock, a cached product is only ever replaced by a
\* newer version of itself: a slow fill never overwrites a later one.
CacheNeverGoesBack ==
    [][\A s \in Skus : cache[s] \in Versions /\ cache'[s] \in Versions /\ ~overrun[s]
            => cache[s] <= cache'[s]]_vars

\* While nobody outlives the lock, a caller that was shown a version of a
\* product is never shown an older one, although no update refreshes Redis.
MonotonicReads ==
    [][\A t \in Threads, s \in Skus : ~overrun[s] => seen[t][s] <= seen'[t][s]]_vars

ReturnsNull(t) ==
    /\ pc[t] \in {"readCache", "release"}
    /\ pc'[t] = "idle"
    /\ answer'[t] = Null

\* null is returned for a product that does not exist, or that was saved so
\* recently that a read of the missing row and the marker it left (at most
\* LockTTL + EmptyTTL ticks) still hide it.
NullMeansMissing ==
    [][\A t \in Threads : ReturnsNull(t)
            => row[sku[t]] = 0 \/ age[sku[t]] <= AgeBound]_vars

\* The same for the calls that met neither a taken lock nor an owner that
\* outlived its lock: the marker "empty" hides a new product for a bounded time.
NullIsTimely ==
    [][\A t \in Threads : ReturnsNull(t) /\ ~nested[t] /\ ~overrun[sku[t]]
            => row[sku[t]] = 0 \/ age[sku[t]] <= AgeBound]_vars

\* A lock whose owner died or failed is not held for ever.
LockIsFreed == \A s \in Skus : owner[s] # NoThread ~> owner[s] = NoThread

\* A call for a product that stays on sale returns: it does not spin for ever
\* behind other threads, whatever fails on the way.
CallReturns ==
    \A t \in Threads : pc[t] # "idle" ~> (pc[t] = "idle" \/ row[sku[t]] = 0)
=============================================================================
