--------------------------- MODULE SkuCacheProofs ---------------------------
(***************************************************************************)
(* What holds of SkuCache for any number of products and threads, any times *)
(* to live and any number of failures.  Everything rests on WorkingOwns: as *)
(* long as no owner outlived its lock, a thread between SET and DEL is the   *)
(* owner of the lock, so that the order of the fills is the order of the     *)
(* reads (InOrder, SeenIsCached), and the marker is never older than a lock  *)
(* and a marker can live (MarkerIsYoung).                                    *)
(***************************************************************************)
EXTENDS SkuCache, TLAPS

KeysLive ==
    \A s \in Skus :
        /\ owner[s] # NoThread <=> lockTTL[s] # 0
        /\ cache[s] = Empty <=> cacheTTL[s] # 0

At(t, s, labels) == sku[t] = s /\ pc[t] \in labels

WorkingOwns ==
    \A s \in Skus, t \in Threads : ~overrun[s] /\ At(t, s, Working) => owner[s] = t

\* Nothing is newer than the last committed version.
NothingNewer ==
    \A s \in Skus :
        /\ row[s] # 0 => row[s] = written[s]
        /\ cache[s] \in Versions => cache[s] <= written[s]

ReadIsCommitted == \A t \in Threads : pc[t] \in {"fill", "release"} => skuInfo[t] <= written[sku[t]]

\* A thread that is about to fill the cache has read what it will replace, or
\* something newer; after the fill nobody replaces its version.
InOrder ==
    \A s \in Skus, t \in Threads : ~overrun[s] =>
        /\ At(t, s, {"fill"}) /\ cache[s] \in Versions =>
               \/ skuInfo[t] # Null /\ cache[s] <= skuInfo[t]
               \/ skuInfo[t] = Null /\ row[s] = 0
        /\ At(t, s, {"release"}) /\ skuInfo[t] # Null => cache[s] = skuInfo[t]

\* What a caller was shown is still cached, or the product was deleted and no
\* fill under way brings it back.
SeenIsCached ==
    \A s \in Skus, t \in Threads : ~overrun[s] /\ seen[t][s] # 0 =>
        \/ cache[s] \in Versions /\ seen[t][s] <= cache[s]
        \/ /\ cache[s] \notin Versions
           /\ row[s] = 0 /\ written[s] # 0
           /\ \A u \in Threads : At(u, s, {"fill"}) => skuInfo[u] = Null

\* A marker, or a read of a missing row, hides a product for a bounded time.
MarkerIsYoung ==
    \A s \in Skus : ~overrun[s] /\ row[s] # 0 =>
        /\ cache[s] = Empty => age[s] + cacheTTL[s] <= AgeBound
        /\ \A t \in Threads : At(t, s, {"fill", "release"}) /\ skuInfo[t] = Null
               => age[s] + lockTTL[s] <= LockTTL

IInv ==
    /\ TypeOK
    /\ KeysLive
    /\ WorkingOwns
    /\ NothingNewer
    /\ ReadIsCommitted
    /\ InOrder
    /\ SeenIsCached
    /\ MarkerIsYoung

\* The invariant holds before the first call.
LEMMA InitIInv == Init => IInv
  <1> SUFFICES ASSUME Init PROVE IInv
    OBVIOUS
  <1> USE TimesAssumption, BoundsAssumption, ValuesAssumption DEF Init, Null, AgeCap, AgeBound, Versions
  <1>1. TypeOK
    BY DEF TypeOK, Working
  <1>2. KeysLive /\ WorkingOwns /\ NothingNewer /\ ReadIsCommitted
    BY DEF ReadIsCommitted, KeysLive, WorkingOwns, NothingNewer, At, Working
  <1>3. InOrder /\ SeenIsCached /\ MarkerIsYoung
    BY DEF InOrder, SeenIsCached, MarkerIsYoung, At
  <1> QED
    BY <1>1, <1>2, <1>3 DEF IInv

\* Every action keeps the types.
LEMMA TypeOKStep ==
    ASSUME TypeOK, [Next]_vars
    PROVE  TypeOK'
  <1> USE TimesAssumption, BoundsAssumption, ValuesAssumption
          DEF TypeOK, Working, Versions, Null, AgeCap, AgeBound
  <1>1. ASSUME Tick PROVE TypeOK'
    BY <1>1 DEF Tick, CountDown
  <1>2. ASSUME NEW s \in Skus, SaveSku(s) PROVE TypeOK'
    BY <1>2 DEF SaveSku, keyVars, lockVars, callVars
  <1>3. ASSUME NEW s \in Skus, UpdateSkuInfo(s) PROVE TypeOK'
    BY <1>3 DEF UpdateSkuInfo, keyVars, lockVars, callVars
  <1>4. ASSUME NEW s \in Skus, DeleteSkuInfo(s) PROVE TypeOK'
    BY <1>4 DEF DeleteSkuInfo, keyVars, lockVars, callVars
  <1>5. ASSUME NEW t \in Threads, NEW s \in Skus, Call(t, s) PROVE TypeOK'
    BY <1>5 DEF Call, dbVars, keyVars, lockVars
  <1>6. ASSUME NEW t \in Threads, ReadCache(t) PROVE TypeOK'
    <2>1. sku[t] \in Skus /\ UNCHANGED <<dbVars, keyVars, lockVars, failures>>
      BY <1>6 DEF ReadCache
    <2>2. CASE cache[sku[t]] = Empty /\ Return(t, Null)
      BY <2>1, <2>2 DEF Return, dbVars, keyVars, lockVars
    <2>3. CASE cache[sku[t]] = Blank /\ Goto(t, "askLock")
      BY <2>1, <2>3 DEF Goto, dbVars, keyVars, lockVars
    <2>4. CASE cache[sku[t]] \notin {Empty, Blank} /\ Return(t, cache[sku[t]])
      <3>1. cache[sku[t]] \in 1..MaxVersion
        BY <2>1, <2>4
      <3> QED
        BY <2>1, <2>4, <3>1 DEF Return, dbVars, keyVars, lockVars
    <2> QED
      BY <1>6, <2>2, <2>3, <2>4 DEF ReadCache
  <1>7. ASSUME NEW t \in Threads, AskLock(t) PROVE TypeOK'
    BY <1>7 DEF AskLock, Goto, dbVars, keyVars
  <1>8. ASSUME NEW t \in Threads, Spin(t) PROVE TypeOK'
    BY <1>8 DEF Spin, dbVars, keyVars, lockVars
  <1>9. ASSUME NEW t \in Threads, Wake(t) PROVE TypeOK'
    BY <1>9 DEF Wake, dbVars, keyVars, lockVars
  <1>10. ASSUME NEW t \in Threads, ReadDb(t) PROVE TypeOK'
    BY <1>10 DEF ReadDb, dbVars, keyVars, lockVars
  <1>11. ASSUME NEW t \in Threads, DbFails(t) PROVE TypeOK'
    BY <1>11 DEF DbFails, dbVars, keyVars, lockVars
  <1>12. ASSUME NEW t \in Threads, FillCache(t) PROVE TypeOK'
    <2>1. cache' \in [Skus -> Versions \cup {Blank, Empty}] /\ cacheTTL' \in [Skus -> 0..EmptyTTL]
      <3>1. sku[t] \in Skus
        OBVIOUS
      <3>2. CASE /\ skuInfo[t] # Null
                 /\ cache' = [cache EXCEPT ![sku[t]] = skuInfo[t]]
                 /\ cacheTTL' = [cacheTTL EXCEPT ![sku[t]] = 0]
        <4>1. skuInfo[t] \in 1..MaxVersion
          BY <3>2
        <4> QED
          BY <3>1, <3>2, <4>1
      <3>3. CASE /\ cache' = [cache EXCEPT ![sku[t]] = Empty]
                 /\ cacheTTL' = [cacheTTL EXCEPT ![sku[t]] = EmptyTTL]
        BY <3>1, <3>3
      <3> QED
        BY <1>12, <3>2, <3>3 DEF FillCache
    <2> QED
      BY <1>12, <2>1 DEF FillCache, Goto, dbVars, lockVars
  <1>13. ASSUME NEW t \in Threads, ReleaseLock(t) PROVE TypeOK'
    BY <1>13 DEF ReleaseLock, Return, dbVars, keyVars
  <1>14. CASE UNCHANGED vars
    BY <1>14 DEF vars, dbVars, keyVars, lockVars, callVars
  <1> QED
    BY <1>1, <1>2, <1>3, <1>4, <1>5, <1>6, <1>7, <1>8, <1>9, <1>10, <1>11, <1>12, <1>13, <1>14
    DEF Next, BackOffice, ThreadStep

\* What a fill does to the cache.
LEMMA FillEffect ==
    ASSUME TypeOK, NEW t \in Threads, FillCache(t)
    PROVE  /\ \A s \in Skus : s # sku[t] => cache'[s] = cache[s] /\ cacheTTL'[s] = cacheTTL[s]
           /\ skuInfo[t] # Null => cache'[sku[t]] = skuInfo[t] /\ cacheTTL'[sku[t]] = 0
           /\ skuInfo[t] = Null => cache'[sku[t]] = Empty /\ cacheTTL'[sku[t]] = EmptyTTL
  <1>1. sku[t] \in Skus /\ DOMAIN cache = Skus /\ DOMAIN cacheTTL = Skus
    BY DEF TypeOK
  <1>2. CASE /\ skuInfo[t] # Null
             /\ cache' = [cache EXCEPT ![sku[t]] = skuInfo[t]]
             /\ cacheTTL' = [cacheTTL EXCEPT ![sku[t]] = 0]
    BY <1>1, <1>2 DEF TypeOK
  <1>3. CASE /\ skuInfo[t] = Null
             /\ cache' = [cache EXCEPT ![sku[t]] = Empty]
             /\ cacheTTL' = [cacheTTL EXCEPT ![sku[t]] = EmptyTTL]
    BY <1>1, <1>3 DEF TypeOK
  <1> QED
    BY <1>2, <1>3 DEF FillCache

\* A lock key and a marker exist exactly as long as their time to live.
LEMMA KeysStep ==
    ASSUME TypeOK, KeysLive, [Next]_vars
    PROVE  KeysLive'
  <1> USE TimesAssumption, BoundsAssumption, ValuesAssumption
          DEF TypeOK, Working, Versions, Null, At, KeysLive
  <1>1. ASSUME Tick PROVE KeysLive'
    BY <1>1 DEF Tick, CountDown
  <1>2. ASSUME NEW s \in Skus, SaveSku(s) PROVE KeysLive'
    BY <1>2 DEF SaveSku, keyVars, lockVars, callVars
  <1>3. ASSUME NEW s \in Skus, UpdateSkuInfo(s) PROVE KeysLive'
    BY <1>3 DEF UpdateSkuInfo, keyVars, lockVars, callVars
  <1>4. ASSUME NEW s \in Skus, DeleteSkuInfo(s) PROVE KeysLive'
    BY <1>4 DEF DeleteSkuInfo, keyVars, lockVars, callVars
  <1>5. ASSUME NEW t \in Threads, NEW s \in Skus, Call(t, s) PROVE KeysLive'
    BY <1>5 DEF Call, dbVars, keyVars, lockVars
  <1>6. ASSUME NEW t \in Threads, ReadCache(t) PROVE KeysLive'
    BY <1>6 DEF ReadCache, Return, Goto, dbVars, keyVars, lockVars
  <1>7. ASSUME NEW t \in Threads, AskLock(t) PROVE KeysLive'
    BY <1>7 DEF AskLock, Goto, dbVars, keyVars
  <1>8. ASSUME NEW t \in Threads, Spin(t) PROVE KeysLive'
    BY <1>8 DEF Spin, dbVars, keyVars, lockVars
  <1>9. ASSUME NEW t \in Threads, Wake(t) PROVE KeysLive'
    BY <1>9 DEF Wake, dbVars, keyVars, lockVars
  <1>10. ASSUME NEW t \in Threads, ReadDb(t) PROVE KeysLive'
    BY <1>10 DEF ReadDb, dbVars, keyVars, lockVars
  <1>11. ASSUME NEW t \in Threads, DbFails(t) PROVE KeysLive'
    BY <1>11 DEF DbFails, dbVars, keyVars, lockVars
  <1>12. ASSUME NEW t \in Threads, FillCache(t) PROVE KeysLive'
    BY <1>12 DEF FillCache, Goto, dbVars, lockVars
  <1>13. ASSUME NEW t \in Threads, ReleaseLock(t) PROVE KeysLive'
    BY <1>13 DEF ReleaseLock, Return, dbVars, keyVars
  <1>14. CASE UNCHANGED vars
    BY <1>14 DEF vars, dbVars, keyVars, lockVars, callVars
  <1> QED
    BY <1>1, <1>2, <1>3, <1>4, <1>5, <1>6, <1>7, <1>8, <1>9, <1>10, <1>11, <1>12, <1>13, <1>14
    DEF Next, BackOffice, ThreadStep

\* The lock of a working thread is its own until it expires under it.
LEMMA OwnsStep ==
    ASSUME TypeOK, KeysLive, WorkingOwns, [Next]_vars
    PROVE  WorkingOwns'
  <1> USE TimesAssumption, BoundsAssumption, ValuesAssumption
          DEF TypeOK, Working, Versions, Null, At, KeysLive, WorkingOwns
  <1>1. ASSUME Tick PROVE WorkingOwns'
    BY <1>1 DEF Tick, CountDown
  <1>2. ASSUME NEW s \in Skus, SaveSku(s) PROVE WorkingOwns'
    BY <1>2 DEF SaveSku, keyVars, lockVars, callVars
  <1>3. ASSUME NEW s \in Skus, UpdateSkuInfo(s) PROVE WorkingOwns'
    BY <1>3 DEF UpdateSkuInfo, keyVars, lockVars, callVars
  <1>4. ASSUME NEW s \in Skus, DeleteSkuInfo(s) PROVE WorkingOwns'
    BY <1>4 DEF DeleteSkuInfo, keyVars, lockVars, callVars
  <1>5. ASSUME NEW t \in Threads, NEW s \in Skus, Call(t, s) PROVE WorkingOwns'
    BY <1>5 DEF Call, dbVars, keyVars, lockVars
  <1>6. ASSUME NEW t \in Threads, ReadCache(t) PROVE WorkingOwns'
    BY <1>6 DEF ReadCache, Return, Goto, dbVars, keyVars, lockVars
  <1>7. ASSUME NEW t \in Threads, AskLock(t) PROVE WorkingOwns'
    BY <1>7 DEF AskLock, Goto, dbVars, keyVars
  <1>8. ASSUME NEW t \in Threads, Spin(t) PROVE WorkingOwns'
    BY <1>8 DEF Spin, dbVars, keyVars, lockVars
  <1>9. ASSUME NEW t \in Threads, Wake(t) PROVE WorkingOwns'
    BY <1>9 DEF Wake, dbVars, keyVars, lockVars
  <1>10. ASSUME NEW t \in Threads, ReadDb(t) PROVE WorkingOwns'
    BY <1>10 DEF ReadDb, dbVars, keyVars, lockVars
  <1>11. ASSUME NEW t \in Threads, DbFails(t) PROVE WorkingOwns'
    BY <1>11 DEF DbFails, dbVars, keyVars, lockVars
  <1>12. ASSUME NEW t \in Threads, FillCache(t) PROVE WorkingOwns'
    BY <1>12 DEF FillCache, Goto, dbVars, lockVars
  <1>13. ASSUME NEW t \in Threads, ReleaseLock(t) PROVE WorkingOwns'
    BY <1>13 DEF ReleaseLock, Return, dbVars, keyVars
  <1>14. CASE UNCHANGED vars
    BY <1>14 DEF vars, dbVars, keyVars, lockVars, callVars
  <1> QED
    BY <1>1, <1>2, <1>3, <1>4, <1>5, <1>6, <1>7, <1>8, <1>9, <1>10, <1>11, <1>12, <1>13, <1>14
    DEF Next, BackOffice, ThreadStep

\* Versions only grow, and Redis never holds one that was not committed.
LEMMA NewerStep ==
    ASSUME TypeOK, KeysLive, NothingNewer, ReadIsCommitted, [Next]_vars
    PROVE  NothingNewer' /\ ReadIsCommitted'
  <1> USE TimesAssumption, BoundsAssumption, ValuesAssumption
          DEF TypeOK, Working, Versions, Null, At, KeysLive, NothingNewer, ReadIsCommitted
  <1>1. ASSUME Tick PROVE NothingNewer' /\ ReadIsCommitted'
    BY <1>1 DEF Tick, CountDown
  <1>2. ASSUME NEW s \in Skus, SaveSku(s) PROVE NothingNewer' /\ ReadIsCommitted'
    BY <1>2 DEF SaveSku, keyVars, lockVars, callVars
  <1>3. ASSUME NEW s \in Skus, UpdateSkuInfo(s) PROVE NothingNewer' /\ ReadIsCommitted'
    BY <1>3 DEF UpdateSkuInfo, keyVars, lockVars, callVars
  <1>4. ASSUME NEW s \in Skus, DeleteSkuInfo(s) PROVE NothingNewer' /\ ReadIsCommitted'
    BY <1>4 DEF DeleteSkuInfo, keyVars, lockVars, callVars
  <1>5. ASSUME NEW t \in Threads, NEW s \in Skus, Call(t, s) PROVE NothingNewer' /\ ReadIsCommitted'
    BY <1>5 DEF Call, dbVars, keyVars, lockVars
  <1>6. ASSUME NEW t \in Threads, ReadCache(t) PROVE NothingNewer' /\ ReadIsCommitted'
    BY <1>6 DEF ReadCache, Return, Goto, dbVars, keyVars, lockVars
  <1>7. ASSUME NEW t \in Threads, AskLock(t) PROVE NothingNewer' /\ ReadIsCommitted'
    BY <1>7 DEF AskLock, Goto, dbVars, keyVars
  <1>8. ASSUME NEW t \in Threads, Spin(t) PROVE NothingNewer' /\ ReadIsCommitted'
    BY <1>8 DEF Spin, dbVars, keyVars, lockVars
  <1>9. ASSUME NEW t \in Threads, Wake(t) PROVE NothingNewer' /\ ReadIsCommitted'
    BY <1>9 DEF Wake, dbVars, keyVars, lockVars
  <1>10. ASSUME NEW t \in Threads, ReadDb(t) PROVE NothingNewer' /\ ReadIsCommitted'
    <2>1. row' = row /\ written' = written /\ cache' = cache
      BY <1>10 DEF ReadDb, dbVars, keyVars
    <2>2. sku[t] \in Skus /\ row[sku[t]] <= written[sku[t]]
      <3>1. sku[t] \in Skus
        BY DEF TypeOK
      <3>2. row[sku[t]] \in 0..MaxVersion /\ written[sku[t]] \in 0..MaxVersion
        BY <3>1 DEF TypeOK
      <3>3. row[sku[t]] # 0 => row[sku[t]] = written[sku[t]]
        BY <3>1 DEF NothingNewer
      <3> QED
        BY <3>1, <3>2, <3>3, BoundsAssumption
    <2>3. NothingNewer'
      BY <2>1
    <2>4. ReadIsCommitted'
      <3>1. skuInfo' = [skuInfo EXCEPT ![t] = row[sku[t]]] /\ sku' = sku
            /\ pc' = [pc EXCEPT ![t] = "fill"]
        BY <1>10 DEF ReadDb
      <3>2. \A u \in Threads : u # t => skuInfo'[u] = skuInfo[u] /\ pc'[u] = pc[u]
        BY <3>1
      <3>3. skuInfo'[t] <= written'[sku'[t]]
        BY <2>1, <2>2, <3>1
      <3> QED
        BY <2>1, <3>1, <3>2, <3>3
    <2> QED
      BY <2>3, <2>4
  <1>11. ASSUME NEW t \in Threads, DbFails(t) PROVE NothingNewer' /\ ReadIsCommitted'
    BY <1>11 DEF DbFails, dbVars, keyVars, lockVars
  <1>12. ASSUME NEW t \in Threads, FillCache(t) PROVE NothingNewer' /\ ReadIsCommitted'
    <2>1. skuInfo[t] <= written[sku[t]] /\ row' = row /\ written' = written
      BY <1>12 DEF FillCache, dbVars
    <2>2. /\ \A s \in Skus : s # sku[t] => cache'[s] = cache[s]
          /\ cache'[sku[t]] = skuInfo[t] \/ cache'[sku[t]] \notin Versions
      BY <1>12, FillEffect
    <2>3. NothingNewer'
      BY <2>1, <2>2
    <2>4. ReadIsCommitted'
      BY <1>12, <2>1 DEF FillCache, Goto
    <2> QED
      BY <2>3, <2>4
  <1>13. ASSUME NEW t \in Threads, ReleaseLock(t) PROVE NothingNewer' /\ ReadIsCommitted'
    BY <1>13 DEF ReleaseLock, Return, dbVars, keyVars
  <1>14. CASE UNCHANGED vars
    BY <1>14 DEF vars, dbVars, keyVars, lockVars, callVars
  <1> QED
    BY <1>1, <1>2, <1>3, <1>4, <1>5, <1>6, <1>7, <1>8, <1>9, <1>10, <1>11, <1>12, <1>13, <1>14
    DEF Next, BackOffice, ThreadStep

\* Fills happen in the order of the reads.
LEMMA OrderStep ==
    ASSUME TypeOK, KeysLive, WorkingOwns, NothingNewer, ReadIsCommitted, InOrder, [Next]_vars
    PROVE  InOrder'
  <1> USE TimesAssumption, BoundsAssumption, ValuesAssumption
          DEF TypeOK, Working, Versions, Null, At, KeysLive, NothingNewer, ReadIsCommitted, InOrder
  <1>0. \A s \in Skus, t, u \in Threads :
            ~overrun[s] /\ At(t, s, Working) /\ At(u, s, Working) => t = u
    BY DEF WorkingOwns, At
  <1>1. ASSUME Tick PROVE InOrder'
    BY <1>0, <1>1 DEF Tick, CountDown
  <1>2. ASSUME NEW s \in Skus, SaveSku(s) PROVE InOrder'
    BY <1>0, <1>2 DEF SaveSku, keyVars, lockVars, callVars
  <1>3. ASSUME NEW s \in Skus, UpdateSkuInfo(s) PROVE InOrder'
    BY <1>0, <1>3 DEF UpdateSkuInfo, keyVars, lockVars, callVars
  <1>4. ASSUME NEW s \in Skus, DeleteSkuInfo(s) PROVE InOrder'
    BY <1>0, <1>4 DEF DeleteSkuInfo, keyVars, lockVars, callVars
  <1>5. ASSUME NEW t \in Threads, NEW s \in Skus, Call(t, s) PROVE InOrder'
    BY <1>0, <1>5 DEF Call, dbVars, keyVars, lockVars
  <1>6. ASSUME NEW t \in Threads, ReadCache(t) PROVE InOrder'
    <2>1. sku[t] \in Skus /\ UNCHANGED <<dbVars, keyVars, lockVars, failures>>
      BY <1>6 DEF ReadCache
    <2>2. CASE cache[sku[t]] = Empty /\ Return(t, Null)
      BY <1>0, <2>1, <2>2 DEF Return, dbVars, keyVars, lockVars
    <2>3. CASE cache[sku[t]] = Blank /\ Goto(t, "askLock")
      BY <1>0, <2>1, <2>3 DEF Goto, dbVars, keyVars, lockVars
    <2>4. CASE cache[sku[t]] \notin {Empty, Blank} /\ Return(t, cache[sku[t]])
      <3>1. cache[sku[t]] \in Versions
        BY <2>1, <2>4
      <3> QED
        BY <1>0, <2>1, <2>4, <3>1 DEF Return, dbVars, keyVars, lockVars
    <2> QED
      BY <1>6, <2>2, <2>3, <2>4 DEF ReadCache
  <1>7. ASSUME NEW t \in Threads, AskLock(t) PROVE InOrder'
    BY <1>0, <1>7 DEF AskLock, Goto, dbVars, keyVars
  <1>8. ASSUME NEW t \in Threads, Spin(t) PROVE InOrder'
    BY <1>0, <1>8 DEF Spin, dbVars, keyVars, lockVars
  <1>9. ASSUME NEW t \in Threads, Wake(t) PROVE InOrder'
    BY <1>0, <1>9 DEF Wake, dbVars, keyVars, lockVars
  <1>10. ASSUME NEW t \in Threads, ReadDb(t) PROVE InOrder'
    BY <1>0, <1>10 DEF ReadDb, dbVars, keyVars, lockVars
  <1>11. ASSUME NEW t \in Threads, DbFails(t) PROVE InOrder'
    BY <1>0, <1>11 DEF DbFails, dbVars, keyVars, lockVars
  <1>12. ASSUME NEW t \in Threads, FillCache(t) PROVE InOrder'
    BY <1>0, <1>12 DEF FillCache, Goto, dbVars, lockVars
  <1>13. ASSUME NEW t \in Threads, ReleaseLock(t) PROVE InOrder'
    BY <1>0, <1>13 DEF ReleaseLock, Return, dbVars, keyVars
  <1>14. CASE UNCHANGED vars
    BY <1>0, <1>14 DEF vars, dbVars, keyVars, lockVars, callVars
  <1> QED
    BY <1>1, <1>2, <1>3, <1>4, <1>5, <1>6, <1>7, <1>8, <1>9, <1>10, <1>11, <1>12, <1>13, <1>14
    DEF Next, BackOffice, ThreadStep

\* What was shown stays cached until the product is deleted.
LEMMA SeenStep ==
    ASSUME TypeOK, KeysLive, WorkingOwns, NothingNewer, ReadIsCommitted, InOrder, SeenIsCached, [Next]_vars
    PROVE  SeenIsCached'
  <1> USE TimesAssumption, BoundsAssumption, ValuesAssumption
          DEF TypeOK, Working, Versions, Null, At, KeysLive, NothingNewer, ReadIsCommitted, InOrder, SeenIsCached
  <1>0. \A s \in Skus, t, u \in Threads :
            ~overrun[s] /\ At(t, s, Working) /\ At(u, s, Working) => t = u
    BY DEF WorkingOwns, At
  <1>1. ASSUME Tick PROVE SeenIsCached'
    BY <1>0, <1>1 DEF Tick, CountDown
  <1>2. ASSUME NEW s \in Skus, SaveSku(s) PROVE SeenIsCached'
    BY <1>0, <1>2 DEF SaveSku, keyVars, lockVars, callVars
  <1>3. ASSUME NEW s \in Skus, UpdateSkuInfo(s) PROVE SeenIsCached'
    BY <1>0, <1>3 DEF UpdateSkuInfo, keyVars, lockVars, callVars
  <1>4. ASSUME NEW s \in Skus, DeleteSkuInfo(s) PROVE SeenIsCached'
    BY <1>0, <1>4 DEF DeleteSkuInfo, keyVars, lockVars, callVars
  <1>5. ASSUME NEW t \in Threads, NEW s \in Skus, Call(t, s) PROVE SeenIsCached'
    BY <1>0, <1>5 DEF Call, dbVars, keyVars, lockVars
  <1>6. ASSUME NEW t \in Threads, ReadCache(t) PROVE SeenIsCached'
    <2>1. sku[t] \in Skus /\ UNCHANGED <<dbVars, keyVars, lockVars, failures>>
      BY <1>6 DEF ReadCache
    <2>2. CASE cache[sku[t]] = Empty /\ Return(t, Null)
      BY <1>0, <2>1, <2>2 DEF Return, dbVars, keyVars, lockVars
    <2>3. CASE cache[sku[t]] = Blank /\ Goto(t, "askLock")
      BY <1>0, <2>1, <2>3 DEF Goto, dbVars, keyVars, lockVars
    <2>4. CASE cache[sku[t]] \notin {Empty, Blank} /\ Return(t, cache[sku[t]])
      <3>1. cache[sku[t]] \in Versions
        BY <2>1, <2>4
      <3> QED
        BY <1>0, <2>1, <2>4, <3>1 DEF Return, dbVars, keyVars, lockVars
    <2> QED
      BY <1>6, <2>2, <2>3, <2>4 DEF ReadCache
  <1>7. ASSUME NEW t \in Threads, AskLock(t) PROVE SeenIsCached'
    BY <1>0, <1>7 DEF AskLock, Goto, dbVars, keyVars
  <1>8. ASSUME NEW t \in Threads, Spin(t) PROVE SeenIsCached'
    BY <1>0, <1>8 DEF Spin, dbVars, keyVars, lockVars
  <1>9. ASSUME NEW t \in Threads, Wake(t) PROVE SeenIsCached'
    BY <1>0, <1>9 DEF Wake, dbVars, keyVars, lockVars
  <1>10. ASSUME NEW t \in Threads, ReadDb(t) PROVE SeenIsCached'
    BY <1>0, <1>10 DEF ReadDb, dbVars, keyVars, lockVars
  <1>11. ASSUME NEW t \in Threads, DbFails(t) PROVE SeenIsCached'
    BY <1>0, <1>11 DEF DbFails, dbVars, keyVars, lockVars
  <1>12. ASSUME NEW t \in Threads, FillCache(t) PROVE SeenIsCached'
    <2>1. /\ UNCHANGED <<row, written, overrun, sku, skuInfo, seen>> /\ sku[t] \in Skus
          /\ pc[t] = "fill" /\ pc' = [pc EXCEPT ![t] = "release"]
      BY <1>12 DEF FillCache, Goto, dbVars, lockVars
    <2>2. \A s \in Skus : s # sku[t] => cache'[s] = cache[s]
      BY <1>12, FillEffect
    <2>3. /\ skuInfo[t] # Null => cache'[sku[t]] = skuInfo[t]
          /\ skuInfo[t] = Null => cache'[sku[t]] = Empty
      BY <1>12, FillEffect
    <2>4. ASSUME NEW s \in Skus, NEW u \in Threads, ~overrun[s], seen[u][s] # 0
          PROVE  \/ cache'[s] \in Versions /\ seen[u][s] <= cache'[s]
                 \/ /\ cache'[s] \notin Versions
                    /\ row[s] = 0 /\ written[s] # 0
                    /\ \A v \in Threads : At(v, s, {"fill"})' => skuInfo[v] = Null
      <3>1. CASE s # sku[t]
        BY <2>1, <2>2, <2>4, <3>1
      <3>2. CASE s = sku[t] /\ skuInfo[t] # Null
        <4>1. cache[s] \in Versions /\ seen[u][s] <= cache[s] /\ cache[s] <= skuInfo[t]
          BY <2>1, <2>4, <3>2
        <4>2. skuInfo[t] \in Versions
          BY <3>2
        <4> QED
          BY <2>3, <3>2, <4>1, <4>2
      <3>3. CASE s = sku[t] /\ skuInfo[t] = Null
        <4>1. row[s] = 0 /\ written[s] # 0
          BY <2>1, <2>4, <3>3
        <4>2. \A v \in Threads : ~At(v, s, {"fill"})'
          BY <1>0, <2>1, <2>4, <3>3
        <4> QED
          BY <2>3, <3>3, <4>1, <4>2
      <3> QED
        BY <3>1, <3>2, <3>3
    <2> QED
      BY <2>1, <2>4
  <1>13. ASSUME NEW t \in Threads, ReleaseLock(t) PROVE SeenIsCached'
    BY <1>0, <1>13 DEF ReleaseLock, Return, dbVars, keyVars
  <1>14. CASE UNCHANGED vars
    BY <1>0, <1>14 DEF vars, dbVars, keyVars, lockVars, callVars
  <1> QED
    BY <1>1, <1>2, <1>3, <1>4, <1>5, <1>6, <1>7, <1>8, <1>9, <1>10, <1>11, <1>12, <1>13, <1>14
    DEF Next, BackOffice, ThreadStep

\* Markers, and reads of a missing row, stay young.
LEMMA YoungStep ==
    ASSUME TypeOK, KeysLive, WorkingOwns, MarkerIsYoung, [Next]_vars
    PROVE  MarkerIsYoung'
  <1> USE TimesAssumption, BoundsAssumption, ValuesAssumption
          DEF TypeOK, Working, Versions, Null, At, AgeBound, AgeCap, KeysLive, MarkerIsYoung
  <1>0. \A s \in Skus, t, u \in Threads :
            ~overrun[s] /\ At(t, s, Working) /\ At(u, s, Working) => t = u
    BY DEF WorkingOwns, At
  <1>1. ASSUME Tick PROVE MarkerIsYoung'
    BY <1>0, <1>1 DEF Tick, CountDown, WorkingOwns
  <1>2. ASSUME NEW s \in Skus, SaveSku(s) PROVE MarkerIsYoung'
    BY <1>0, <1>2 DEF SaveSku, keyVars, lockVars, callVars
  <1>3. ASSUME NEW s \in Skus, UpdateSkuInfo(s) PROVE MarkerIsYoung'
    BY <1>0, <1>3 DEF UpdateSkuInfo, keyVars, lockVars, callVars
  <1>4. ASSUME NEW s \in Skus, DeleteSkuInfo(s) PROVE MarkerIsYoung'
    BY <1>0, <1>4 DEF DeleteSkuInfo, keyVars, lockVars, callVars
  <1>5. ASSUME NEW t \in Threads, NEW s \in Skus, Call(t, s) PROVE MarkerIsYoung'
    BY <1>0, <1>5 DEF Call, dbVars, keyVars, lockVars
  <1>6. ASSUME NEW t \in Threads, ReadCache(t) PROVE MarkerIsYoung'
    BY <1>0, <1>6 DEF ReadCache, Return, Goto, dbVars, keyVars, lockVars
  <1>7. ASSUME NEW t \in Threads, AskLock(t) PROVE MarkerIsYoung'
    BY <1>0, <1>7 DEF AskLock, Goto, dbVars, keyVars, WorkingOwns
  <1>8. ASSUME NEW t \in Threads, Spin(t) PROVE MarkerIsYoung'
    BY <1>0, <1>8 DEF Spin, dbVars, keyVars, lockVars
  <1>9. ASSUME NEW t \in Threads, Wake(t) PROVE MarkerIsYoung'
    BY <1>0, <1>9 DEF Wake, dbVars, keyVars, lockVars
  <1>10. ASSUME NEW t \in Threads, ReadDb(t) PROVE MarkerIsYoung'
    BY <1>0, <1>10 DEF ReadDb, dbVars, keyVars, lockVars
  <1>11. ASSUME NEW t \in Threads, DbFails(t) PROVE MarkerIsYoung'
    BY <1>0, <1>11 DEF DbFails, dbVars, keyVars, lockVars
  <1>12. ASSUME NEW t \in Threads, FillCache(t) PROVE MarkerIsYoung'
    BY <1>0, <1>12 DEF FillCache, Goto, dbVars, lockVars
  <1>13. ASSUME NEW t \in Threads, ReleaseLock(t) PROVE MarkerIsYoung'
    BY <1>0, <1>13 DEF ReleaseLock, Return, dbVars, keyVars
  <1>14. CASE UNCHANGED vars
    BY <1>0, <1>14 DEF vars, dbVars, keyVars, lockVars, callVars
  <1> QED
    BY <1>1, <1>2, <1>3, <1>4, <1>5, <1>6, <1>7, <1>8, <1>9, <1>10, <1>11, <1>12, <1>13, <1>14
    DEF Next, BackOffice, ThreadStep

-----------------------------------------------------------------------------

\* The invariant holds in every reachable state.
THEOREM Invariance == Spec => []IInv
  <1>1. IInv /\ [Next]_vars => IInv'
    <2> SUFFICES ASSUME IInv, [Next]_vars PROVE IInv'
      OBVIOUS
    <2> USE DEF IInv
    <2>1. TypeOK' /\ KeysLive'
      BY TypeOKStep, KeysStep
    <2>2. WorkingOwns' /\ NothingNewer' /\ ReadIsCommitted'
      BY OwnsStep, NewerStep
    <2>3. InOrder'
      BY OrderStep
    <2>4. SeenIsCached'
      BY SeenStep
    <2>5. MarkerIsYoung'
      BY YoungStep
    <2> QED
      BY <2>1, <2>2, <2>3, <2>4, <2>5
  <1> QED
    BY InitIInv, <1>1, PTL DEF Spec

\* Every variable keeps its type.
THEOREM TypeCorrect == Spec => []TypeOK
  <1>1. IInv => TypeOK
    BY DEF IInv
  <1> QED
    BY <1>1, Invariance, PTL

\* One thread at a time reads a product from the database and fills the cache, as
\* long as no owner has outlived its lock.
THEOREM MutualExclusionHolds == Spec => []MutualExclusion
  <1>1. IInv => MutualExclusion
    BY DEF IInv, TypeOK, WorkingOwns, MutualExclusion, At
  <1> QED
    BY <1>1, Invariance, PTL

\* A thread deletes its own lock only, as long as no owner has outlived its lock.
THEOREM ReleasesOwnLockHolds == Spec => ReleasesOwnLock
  <1> DEFINE A == \A t \in Threads : pc[t] = "release" /\ pc'[t] = "idle" /\ ~overrun[sku[t]]
                        => owner[sku[t]] = t
  <1>1. IInv /\ [Next]_vars => [A]_vars
    BY DEF IInv, TypeOK, WorkingOwns, At, Working
  <1> QED
    BY <1>1, Invariance, PTL DEF Spec, ReleasesOwnLock

\* A cached product is only replaced by a newer version of itself, as long as no
\* owner has outlived its lock.
THEOREM CacheNeverGoesBackHolds == Spec => CacheNeverGoesBack
  <1> DEFINE A == \A s \in Skus :
          cache[s] \in Versions /\ cache'[s] \in Versions /\ ~overrun[s] => cache[s] <= cache'[s]
  <1>1. ASSUME IInv, Next PROVE A
    <2> USE ValuesAssumption, BoundsAssumption DEF Versions
    <2>1. TypeOK /\ InOrder
      BY <1>1 DEF IInv
    <2>2. CASE Tick
      BY <2>1, <2>2 DEF Tick, TypeOK
    <2>3. CASE \E t \in Threads : FillCache(t)
      <3>1. PICK t \in Threads : FillCache(t)
        BY <2>3
      <3>2. sku[t] \in Skus /\ pc[t] = "fill" /\ skuInfo[t] \in Nat
        BY <2>1, <3>1 DEF FillCache, TypeOK
      <3>3. \A s \in Skus : s # sku[t] => cache'[s] = cache[s]
        BY <2>1, <3>1, FillEffect
      <3>4. /\ skuInfo[t] # Null => cache'[sku[t]] = skuInfo[t]
            /\ skuInfo[t] = Null => cache'[sku[t]] = Empty
        BY <2>1, <3>1, FillEffect
      <3>5. ~overrun[sku[t]] /\ cache[sku[t]] \in Versions =>
                skuInfo[t] = Null \/ cache[sku[t]] <= skuInfo[t]
        BY <2>1, <3>2 DEF InOrder, At
      <3>6. cache[sku[t]] \in Versions /\ cache'[sku[t]] \in Versions /\ ~overrun[sku[t]]
                => cache[sku[t]] <= cache'[sku[t]]
        BY <3>4, <3>5
      <3>7. ASSUME NEW s \in Skus, s # sku[t], cache[s] \in Versions
            PROVE  cache[s] <= cache'[s]
        BY <3>3, <3>7
      <3> QED
        BY <3>6, <3>7
    <2>4. CASE cache' = cache
      BY <2>4
    <2>5. Tick \/ (\E t \in Threads : FillCache(t)) \/ cache' = cache
      BY <1>1 DEF Next, BackOffice, ThreadStep, SaveSku, UpdateSkuInfo, DeleteSkuInfo, Call,
          ReadCache, AskLock, Spin, Wake, ReadDb, DbFails, ReleaseLock, keyVars
    <2> QED
      BY <2>2, <2>3, <2>4, <2>5
  <1>2. IInv /\ [Next]_vars => [A]_vars
    BY <1>1
  <1> QED
    BY <1>2, Invariance, PTL DEF Spec, CacheNeverGoesBack

\* A caller is never shown an older version of a product than before, as long as
\* no owner has outlived its lock.
THEOREM MonotonicReadsHold == Spec => MonotonicReads
  <1> DEFINE A == \A t \in Threads, s \in Skus : ~overrun[s] => seen[t][s] <= seen'[t][s]
  <1>1. ASSUME IInv, Next PROVE A
    <2> USE ValuesAssumption, BoundsAssumption DEF Null
    <2>1. TypeOK /\ InOrder /\ SeenIsCached
      BY <1>1 DEF IInv
    <2>2. ASSUME NEW t \in Threads, NEW v \in 0..MaxVersion, Return(t, v),
                 v # Null /\ ~overrun[sku[t]] => seen[t][sku[t]] <= v
          PROVE  A
      <3>1. CASE nested[t] \/ v = Null
        BY <2>1, <2>2, <3>1 DEF Return, TypeOK
      <3>2. CASE ~nested[t] /\ v # Null
        <4>1. seen' = [seen EXCEPT ![t][sku[t]] = v] /\ sku[t] \in Skus
          BY <2>1, <2>2, <3>2 DEF Return, TypeOK
        <4> QED
          BY <2>1, <2>2, <3>2, <4>1 DEF TypeOK
      <3> QED
        BY <3>1, <3>2
    <2>3. ASSUME NEW t \in Threads, ReadCache(t) PROVE A
      <3>1. CASE Return(t, Null)
        BY <2>2, <3>1, BoundsAssumption
      <3>2. CASE Goto(t, "askLock")
        BY <2>1, <3>2 DEF Goto, TypeOK
      <3>3. CASE cache[sku[t]] \notin {Empty, Blank} /\ Return(t, cache[sku[t]])
        <4>1. sku[t] \in Skus /\ cache[sku[t]] \in Versions
          BY <2>1, <3>3 DEF TypeOK
        <4>2. ~overrun[sku[t]] => seen[t][sku[t]] <= cache[sku[t]]
          BY <2>1, <4>1 DEF SeenIsCached, TypeOK, Versions
        <4> QED
          BY <2>2, <3>3, <4>1, <4>2 DEF Versions
      <3> QED
        BY <2>3, <3>1, <3>2, <3>3 DEF ReadCache
    <2>4. ASSUME NEW t \in Threads, ReleaseLock(t) PROVE A
      <3>1. sku[t] \in Skus /\ skuInfo[t] \in 0..MaxVersion /\ pc[t] = "release"
        BY <2>1, <2>4 DEF ReleaseLock, TypeOK
      <3>2. skuInfo[t] # Null /\ ~overrun[sku[t]] => cache[sku[t]] = skuInfo[t]
        BY <2>1, <3>1 DEF InOrder, At
      <3>3. skuInfo[t] # Null /\ ~overrun[sku[t]] => seen[t][sku[t]] <= skuInfo[t]
        BY <2>1, <3>1, <3>2 DEF SeenIsCached, TypeOK, Versions
      <3> QED
        BY <2>2, <2>4, <3>1, <3>3 DEF ReleaseLock
    <2>5. CASE seen' = seen
      BY <2>1, <2>5 DEF TypeOK
    <2>6. (\E t \in Threads : ReadCache(t) \/ ReleaseLock(t)) \/ seen' = seen
      BY <1>1 DEF Next, BackOffice, ThreadStep, SaveSku, UpdateSkuInfo, DeleteSkuInfo, Call,
          AskLock, Spin, Wake, ReadDb, DbFails, FillCache, Goto, Tick, callVars
    <2> QED
      BY <2>3, <2>4, <2>5, <2>6
  <1>2. ASSUME IInv, UNCHANGED vars PROVE A
    BY <1>2 DEF IInv, TypeOK, vars, callVars
  <1>3. IInv /\ [Next]_vars => [A]_vars
    BY <1>1, <1>2
  <1> QED
    BY <1>3, Invariance, PTL DEF Spec, MonotonicReads

\* null is only returned for a product that does not exist or was saved within the
\* last LockTTL + EmptyTTL ticks, unless the call had to spin or an owner outlived
\* its lock.
THEOREM NullIsTimelyHolds == Spec => NullIsTimely
  <1> DEFINE A == \A t \in Threads : ReturnsNull(t) /\ ~nested[t] /\ ~overrun[sku[t]]
                        => row[sku[t]] = 0 \/ age[sku[t]] <= AgeBound
  <1>1. ASSUME IInv, Next, NEW t \in Threads, ReturnsNull(t), ~nested[t], ~overrun[sku[t]],
               row[sku[t]] # 0
        PROVE  age[sku[t]] <= AgeBound
    <2> USE TimesAssumption, ValuesAssumption, BoundsAssumption DEF Null, AgeBound
    <2>1. TypeOK /\ MarkerIsYoung /\ sku[t] \in Skus
      BY <1>1 DEF IInv, TypeOK
    <2>2. ReadCache(t) \/ ReleaseLock(t)
      <3>1. pc'[t] # pc[t] /\ pc[t] \in {"readCache", "release"}
        BY <1>1 DEF ReturnsNull
      <3>2. ASSUME NEW u \in Threads, ThreadStep(u) \/ DbFails(u) \/ \E s \in Skus : Call(u, s)
            PROVE  u = t
        <4>1. \E label : pc' = [pc EXCEPT ![u] = label]
          BY <3>2 DEF ThreadStep, Call, ReadCache, AskLock, Spin, Wake, ReadDb, DbFails,
              FillCache, ReleaseLock, Goto, Return
        <4> QED
          BY <2>1, <3>1, <4>1 DEF TypeOK
      <3>3. ~Tick /\ \A s \in Skus : ~BackOffice(s)
        BY <3>1 DEF Tick, BackOffice, SaveSku, UpdateSkuInfo, DeleteSkuInfo, callVars
      <3>4. ThreadStep(t) \/ DbFails(t) \/ \E s \in Skus : Call(t, s)
        BY <1>1, <3>2, <3>3 DEF Next
      <3> QED
        BY <3>1, <3>4 DEF ThreadStep, DbFails, Call, AskLock, Spin, Wake, ReadDb, FillCache
    <2>3. CASE ReadCache(t)
      <3>1. cache[sku[t]] = Empty
        BY <1>1, <2>1, <2>3 DEF ReadCache, Return, Goto, ReturnsNull, TypeOK, Versions
      <3> QED
        BY <1>1, <2>1, <3>1 DEF MarkerIsYoung, TypeOK, AgeCap
    <2>4. CASE ReleaseLock(t)
      <3>1. pc[t] = "release" /\ skuInfo[t] = Null
        BY <1>1, <2>1, <2>4 DEF ReleaseLock, Return, ReturnsNull, TypeOK
      <3> QED
        BY <1>1, <2>1, <3>1 DEF MarkerIsYoung, TypeOK, At, AgeCap
    <2> QED
      BY <2>2, <2>3, <2>4
  <1>2. IInv /\ [Next]_vars => [A]_vars
    BY <1>1
  <1> QED
    BY <1>2, Invariance, PTL DEF Spec, NullIsTimely
=============================================================================
