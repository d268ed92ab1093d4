-------------------------- MODULE SpuDialogProofs --------------------------
(***************************************************************************)
(* What holds of the uploaders and of the images of an SPU for any number   *)
(* of uploaders, openings, images, SPUs and places.  First the uploaders,    *)
(* whatever the page around them does: the pool is the set of files under   *)
(* way, and the uploaders implement UploadPool.  Then the dialog: paths      *)
(* stand beside their own images, and what is saved is what the user left   *)
(* in the dialog.                                                           *)
(***************************************************************************)
EXTENDS SpuDialog, FiniteSetTheorems, SequenceTheorems, TLAPS

\* The file that is being prepared has a place to go to and was not sent yet.
PromiseIsFree ==
    \A u \in Uploaders : promise[u] # NoFile =>
        /\ promise[u][1] = u
        /\ status[promise[u]] = "progress" /\ response[promise[u]] = "none"
        /\ Cardinality(pool[u]) < Threads

\* A file that was sent has left the queue of those that wait.
SentIsStarted ==
    \A f \in Files :
        /\ response[f] \in {"sent", "loaded"} => status[f] = "progress"
        /\ response[f] = "lost" => status[f] \in {"progress", "complete"}

QueueKnowsFiles == \A f \in Files : status[f] # "none" => InQueue(f)

PoolsFinite == \A u \in Uploaders : IsFiniteSet(pool[u])

UploaderInv ==
    /\ UploaderTypeOK
    /\ PoolIsOnTheWay
    /\ PoolsFinite
    /\ PromiseIsFree
    /\ SentIsStarted
    /\ QueueKnowsFiles

\* What a task of the browser may do to the uploaders.
UploaderStep ==
    \/ StartUpload
    \/ \E u \in Uploaders : TickPrepares(u) \/ TickEnds(u)
    \/ \E f \in Files :
        \/ AddFile(f) \/ Prepared(f) \/ PrepareFails(f)
        \/ \E heard \in BOOLEAN : Load(f, heard) \/ Fail(f, heard) \/ Finish(f, heard)

\* The first part of a file is its uploader.
LEMMA OwnUploader == ASSUME NEW f \in Files PROVE f[1] \in Uploaders
  BY UploaderAssumption

\* A file is in the queue to which it is appended, and so are those before it.
LEMMA AppendSet ==
    ASSUME NEW S, NEW s \in Seq(S), NEW x \in S
    PROVE  ToSet(Append(s, x)) = ToSet(s) \cup {x}
  <1>1. ToSet(Append(s, x)) \subseteq ToSet(s) \cup {x}
    BY DEF ToSet
  <1>2. \A y \in ToSet(s) : y \in ToSet(Append(s, x))
    BY DEF ToSet
  <1>3. x \in ToSet(Append(s, x))
    <2>1. Len(s) + 1 \in DOMAIN Append(s, x) /\ Append(s, x)[Len(s) + 1] = x
      OBVIOUS
    <2> QED
      BY <2>1 DEF ToSet
  <1> QED
    BY <1>1, <1>2, <1>3

-----------------------------------------------------------------------------

\* The invariant holds before any file was picked.
LEMMA UploaderInitInv == UploaderInit => UploaderInv
  <1> SUFFICES ASSUME UploaderInit PROVE UploaderInv
    OBVIOUS
  <1>1. UploaderTypeOK
    BY UploaderAssumption DEF UploaderInit, UploaderTypeOK
  <1>2. PoolIsOnTheWay /\ PoolsFinite
    BY FS_EmptySet, UploaderAssumption DEF UploaderInit, PoolIsOnTheWay, PoolsFinite
  <1>3. PromiseIsFree /\ SentIsStarted /\ QueueKnowsFiles
    BY DEF UploaderInit, PromiseIsFree, SentIsStarted, QueueKnowsFiles
  <1> QED
    BY <1>1, <1>2, <1>3 DEF UploaderInv

\* Clicks and new files touch neither pool nor requests.
LEMMA AddFileInv ==
    ASSUME UploaderInv, NEW f \in Files, AddFile(f) PROVE UploaderInv'
  <1> USE DEF AddFile, UploaderInv
  <1> f[1] \in Uploaders
    BY OwnUploader
  <1>1. status[f] = "none"
    BY DEF QueueKnowsFiles
  <1>2. UploaderTypeOK'
    <2>1. queue' \in [Uploaders -> Seq(Files)]
      BY DEF UploaderTypeOK
    <2>2. status' \in [Files -> {"none", "inited", "queued", "progress", "complete", "error"}]
      BY DEF UploaderTypeOK
    <2> QED
      BY <2>1, <2>2 DEF UploaderTypeOK
  <1>3. PoolIsOnTheWay' /\ PoolsFinite'
    BY DEF PoolIsOnTheWay, PoolsFinite
  <1>4. PromiseIsFree' /\ SentIsStarted'
    BY <1>1 DEF PromiseIsFree, SentIsStarted, UploaderTypeOK
  <1>5. QueueKnowsFiles'
    <2> SUFFICES ASSUME NEW g \in Files, status'[g] # "none" PROVE InQueue(g)'
      BY DEF QueueKnowsFiles
    <2>1. ToSet(queue'[f[1]]) = ToSet(queue[f[1]]) \cup {f}
      BY AppendSet DEF UploaderTypeOK
    <2>2. g # f => InQueue(g)
      BY DEF QueueKnowsFiles, UploaderTypeOK
    <2> QED
      BY <2>1, <2>2, OwnUploader DEF InQueue, UploaderTypeOK
  <1> QED
    BY <1>2, <1>3, <1>4, <1>5

LEMMA StartUploadInv ==
    ASSUME UploaderInv, StartUpload PROVE UploaderInv'
  <1> USE DEF StartUpload, StatusOnUpload, UploaderInv
  <1>1. UploaderTypeOK'
    BY DEF UploaderTypeOK
  <1>2. PoolIsOnTheWay' /\ PoolsFinite'
    BY DEF PoolIsOnTheWay, PoolsFinite
  <1>3. PromiseIsFree' /\ SentIsStarted'
    BY DEF PromiseIsFree, SentIsStarted, UploaderTypeOK
  <1>4. QueueKnowsFiles'
    BY DEF QueueKnowsFiles, InQueue, UploaderTypeOK
  <1> QED
    BY <1>1, <1>2, <1>3, <1>4

\* A file leaves the queue for a place that is free.
LEMMA TickPreparesInv ==
    ASSUME UploaderInv, NEW u \in Uploaders, TickPrepares(u) PROVE UploaderInv'
  <1> USE DEF TickPrepares, UploaderInv
  <1>1. PICK f \in Files : /\ f[1] = u /\ IsNext(f)
                           /\ status' = [status EXCEPT ![f] = "progress"]
                           /\ promise' = [promise EXCEPT ![u] = f]
    OBVIOUS
  <1>2. status[f] = "queued" /\ response[f] = "none"
    BY <1>1 DEF IsNext, SentIsStarted, UploaderTypeOK
  <1>3. UploaderTypeOK'
    BY <1>1 DEF UploaderTypeOK
  <1>4. PoolIsOnTheWay' /\ PoolsFinite'
    BY DEF PoolIsOnTheWay, PoolsFinite
  <1>5. PromiseIsFree'
    BY <1>1, <1>2 DEF PromiseIsFree, UploaderTypeOK
  <1>6. SentIsStarted'
    BY <1>1, <1>2 DEF SentIsStarted, UploaderTypeOK
  <1>7. QueueKnowsFiles'
    BY <1>1, <1>2 DEF QueueKnowsFiles, InQueue, UploaderTypeOK
  <1> QED
    BY <1>3, <1>4, <1>5, <1>6, <1>7

LEMMA TickEndsInv ==
    ASSUME UploaderInv, NEW u \in Uploaders, TickEnds(u) PROVE UploaderInv'
  <1> USE DEF TickEnds, UploaderInv
  <1>1. UploaderTypeOK'
    <2> DEFINE done == remaning[u] # 0 \/ NumOfQueue(u) > 0
    <2>1. runing' = [runing EXCEPT ![u] = @ /\ done]
      OBVIOUS
    <2>2. done \in BOOLEAN
      OBVIOUS
    <2> HIDE DEF done
    <2>3. runing' \in [Uploaders -> BOOLEAN]
      BY <2>1, <2>2, ZenonT(30) DEF UploaderTypeOK
    <2> QED
      BY <2>3 DEF UploaderTypeOK
  <1>2. PoolIsOnTheWay' /\ PoolsFinite' /\ PromiseIsFree' /\ SentIsStarted'
    BY DEF PoolIsOnTheWay, PoolsFinite, PromiseIsFree, SentIsStarted
  <1>3. QueueKnowsFiles'
    BY DEF QueueKnowsFiles, InQueue
  <1> QED
    BY <1>1, <1>2, <1>3

\* The pool grows by the file that was prepared, into the place that was free for it.
LEMMA PreparedInv ==
    ASSUME UploaderInv, NEW f \in Files, Prepared(f) PROVE UploaderInv'
  <1> USE DEF Prepared, UploaderInv
  <1>1. f[1] \in Uploaders /\ f # NoFile
    BY OwnUploader, UploaderAssumption
  <1>2. status[f] = "progress" /\ response[f] = "none" /\ Cardinality(pool[f[1]]) < Threads
    BY <1>1 DEF PromiseIsFree
  <1>3. IsFiniteSet(pool[f[1]] \cup {f})
        /\ Cardinality(pool[f[1]] \cup {f}) = Cardinality(pool[f[1]]) + 1
    <2>1. f \notin pool[f[1]]
      BY <1>1, <1>2 DEF PoolIsOnTheWay
    <2> QED
      BY <1>1, <2>1, FS_AddElement DEF PoolsFinite
  <1>4. UploaderTypeOK'
    BY <1>1 DEF UploaderTypeOK
  <1>5. PoolsFinite'
    BY <1>1, <1>3 DEF PoolsFinite, UploaderTypeOK
  <1>6. PoolIsOnTheWay'
    <2> SUFFICES ASSUME NEW u \in Uploaders
                 PROVE  /\ pool'[u] = {g \in Files : g[1] = u /\ response'[g] # "none"}
                        /\ remaning'[u] = Cardinality(pool'[u])
                        /\ Cardinality(pool'[u]) <= Threads
      BY DEF PoolIsOnTheWay
    <2>1. CASE u = f[1]
      <3>1. pool'[u] = pool[u] \cup {f} /\ remaning'[u] = remaning[u] + 1
        BY <2>1 DEF UploaderTypeOK
      <3>2. pool'[u] = {g \in Files : g[1] = u /\ response'[g] # "none"}
        BY <2>1, <3>1 DEF PoolIsOnTheWay, UploaderTypeOK
      <3>3. Cardinality(pool[u]) \in Nat
        BY FS_CardinalityType DEF PoolsFinite
      <3>4. Cardinality(pool'[u]) = Cardinality(pool[u]) + 1 /\ Cardinality(pool[u]) < Threads
        BY <1>2, <1>3, <2>1, <3>1
      <3>5. remaning[u] = Cardinality(pool[u])
        BY DEF PoolIsOnTheWay
      <3> QED
        BY <3>1, <3>2, <3>3, <3>4, <3>5, UploaderAssumption
    <2>2. CASE u # f[1]
      BY <2>2 DEF PoolIsOnTheWay, UploaderTypeOK
    <2> QED
      BY <2>1, <2>2
  <1>7. PromiseIsFree'
    <2> SUFFICES ASSUME NEW u \in Uploaders, promise'[u] # NoFile
                 PROVE  /\ promise'[u][1] = u
                        /\ status'[promise'[u]] = "progress" /\ response'[promise'[u]] = "none"
                        /\ Cardinality(pool'[u]) < Threads
      BY DEF PromiseIsFree
    <2>1. u # f[1] /\ promise'[u] = promise[u] /\ pool'[u] = pool[u]
      BY <1>1 DEF UploaderTypeOK
    <2>2. promise[u][1] = u /\ promise[u] # f /\ promise[u] \in Files
      BY <2>1 DEF PromiseIsFree, UploaderTypeOK
    <2>3. status'[promise[u]] = "progress" /\ response'[promise[u]] = "none"
      BY <2>1, <2>2 DEF PromiseIsFree, UploaderTypeOK
    <2>4. Cardinality(pool'[u]) < Threads
      BY <2>1 DEF PromiseIsFree
    <2> QED
      BY <2>1, <2>2, <2>3, <2>4
  <1>8. SentIsStarted'
    BY <1>2 DEF SentIsStarted, UploaderTypeOK
  <1>9. QueueKnowsFiles'
    BY DEF QueueKnowsFiles, InQueue
  <1> QED
    BY <1>4, <1>5, <1>6, <1>7, <1>8, <1>9

LEMMA PrepareFailsInv ==
    ASSUME UploaderInv, NEW f \in Files, PrepareFails(f) PROVE UploaderInv'
  <1> USE DEF PrepareFails, UploaderInv
  <1>1. f[1] \in Uploaders /\ f # NoFile
    BY OwnUploader, UploaderAssumption
  <1>2. status[f] = "progress" /\ response[f] = "none"
    BY <1>1 DEF PromiseIsFree
  <1>3. UploaderTypeOK'
    BY <1>1 DEF UploaderTypeOK
  <1>4. PoolIsOnTheWay' /\ PoolsFinite'
    BY DEF PoolIsOnTheWay, PoolsFinite
  <1>5. PromiseIsFree'
    <2> SUFFICES ASSUME NEW u \in Uploaders, promise'[u] # NoFile
                 PROVE  /\ promise'[u][1] = u
                        /\ status'[promise'[u]] = "progress" /\ response'[promise'[u]] = "none"
                        /\ Cardinality(pool'[u]) < Threads
      BY DEF PromiseIsFree
    <2>1. u # f[1] /\ promise'[u] = promise[u]
      BY <1>1 DEF UploaderTypeOK
    <2>2. promise[u][1] = u /\ promise[u] # f /\ promise[u] \in Files
      BY <2>1 DEF PromiseIsFree, UploaderTypeOK
    <2> QED
      BY <2>1, <2>2 DEF PromiseIsFree, UploaderTypeOK
  <1>6. SentIsStarted'
    BY <1>2 DEF SentIsStarted, UploaderTypeOK
  <1>7. QueueKnowsFiles'
    BY <1>2 DEF QueueKnowsFiles, InQueue, UploaderTypeOK
  <1> QED
    BY <1>3, <1>4, <1>5, <1>6, <1>7

-----------------------------------------------------------------------------
(* Answers. *)

LEMMA LoadInv ==
    ASSUME UploaderInv, NEW f \in Files, NEW heard \in BOOLEAN, Load(f, heard)
    PROVE  UploaderInv'
  <1> USE DEF Load, UploaderInv
  <1>1. UploaderTypeOK'
    BY DEF UploaderTypeOK
  <1>2. PoolIsOnTheWay' /\ PoolsFinite'
    BY DEF PoolIsOnTheWay, PoolsFinite, UploaderTypeOK
  <1>3. PromiseIsFree' /\ SentIsStarted'
    BY DEF PromiseIsFree, SentIsStarted, UploaderTypeOK
  <1>4. QueueKnowsFiles'
    BY DEF QueueKnowsFiles, InQueue
  <1> QED
    BY <1>1, <1>2, <1>3, <1>4

\* What the two ends of an upload have in common: the place is given back.
LEMMA EndInv ==
    ASSUME UploaderInv, NEW f \in Files, NEW st \in {"complete", "error"},
           response[f] # "none", UploadComplete(f, st),
           response' = [response EXCEPT ![f] = "none"],
           status' = [status EXCEPT ![f] = st],
           UNCHANGED <<queue, runing, promise>>
    PROVE  UploaderInv'
  <1> USE DEF UploadComplete, UploaderInv
  <1>1. f[1] \in Uploaders /\ f \in pool[f[1]]
    BY OwnUploader DEF PoolIsOnTheWay
  <1>2. IsFiniteSet(pool[f[1]] \ {f})
        /\ Cardinality(pool[f[1]] \ {f}) = Cardinality(pool[f[1]]) - 1
    BY <1>1, FS_RemoveElement DEF PoolsFinite
  <1>3. \A u \in Uploaders : Cardinality(pool[u]) \in Nat
    BY FS_CardinalityType DEF PoolsFinite
  <1>4. Cardinality(pool[f[1]] \ {f}) \in Nat
    BY <1>2, FS_CardinalityType
  <1>5. UploaderTypeOK'
    <2>1. remaning' \in [Uploaders -> Nat]
      BY <1>1, <1>2, <1>4 DEF UploaderTypeOK, PoolIsOnTheWay
    <2>2. pool' \in [Uploaders -> SUBSET Files] /\ ticks' \in [Uploaders -> BOOLEAN]
      BY DEF UploaderTypeOK
    <2> QED
      BY <2>1, <2>2 DEF UploaderTypeOK
  <1>6. PoolsFinite'
    BY <1>1, <1>2 DEF PoolsFinite, UploaderTypeOK
  <1>7. PoolIsOnTheWay'
    <2> SUFFICES ASSUME NEW u \in Uploaders
                 PROVE  /\ pool'[u] = {g \in Files : g[1] = u /\ response'[g] # "none"}
                        /\ remaning'[u] = Cardinality(pool'[u])
                        /\ Cardinality(pool'[u]) <= Threads
      BY DEF PoolIsOnTheWay
    <2>1. CASE u = f[1]
      <3>1. pool'[u] = pool[u] \ {f} /\ remaning'[u] = remaning[u] - 1
        BY <2>1 DEF UploaderTypeOK
      <3>2. pool'[u] = {g \in Files : g[1] = u /\ response'[g] # "none"}
        BY <2>1, <3>1 DEF PoolIsOnTheWay, UploaderTypeOK
      <3>3. Cardinality(pool'[u]) = Cardinality(pool[u]) - 1
        BY <1>2, <2>1, <3>1
      <3>4. remaning[u] = Cardinality(pool[u]) /\ Cardinality(pool[u]) <= Threads
        BY DEF PoolIsOnTheWay
      <3>5. Cardinality(pool[u]) \in Nat
        BY <1>3
      <3> QED
        BY <3>1, <3>2, <3>3, <3>4, <3>5, UploaderAssumption
    <2>2. CASE u # f[1]
      <3>1. pool'[u] = pool[u] /\ remaning'[u] = remaning[u]
        BY <1>1, <2>2 DEF UploaderTypeOK
      <3>2. pool[u] = {g \in Files : g[1] = u /\ response'[g] # "none"}
        BY <2>2 DEF PoolIsOnTheWay, UploaderTypeOK
      <3> QED
        BY <3>1, <3>2 DEF PoolIsOnTheWay
    <2> QED
      BY <2>1, <2>2
  <1>8. PromiseIsFree'
    <2> SUFFICES ASSUME NEW u \in Uploaders, promise'[u] # NoFile
                 PROVE  /\ promise'[u][1] = u
                        /\ status'[promise'[u]] = "progress" /\ response'[promise'[u]] = "none"
                        /\ Cardinality(pool'[u]) < Threads
      BY DEF PromiseIsFree
    <2>0. promise' = promise
      OBVIOUS
    <2>1. promise[u] # f /\ promise[u] \in Files
      BY <2>0 DEF PromiseIsFree, UploaderTypeOK
    <2>2. Cardinality(pool'[u]) <= Cardinality(pool[u])
      <3>1. CASE u = f[1]
        <4>1. pool'[u] = pool[u] \ {f}
          BY <3>1 DEF UploaderTypeOK
        <4>2. Cardinality(pool'[u]) = Cardinality(pool[u]) - 1
          BY <1>2, <3>1, <4>1
        <4> QED
          BY <1>3, <4>2
      <3>2. CASE u # f[1]
        <4>1. pool'[u] = pool[u]
          BY <1>1, <3>2 DEF UploaderTypeOK
        <4> QED
          BY <1>3, <4>1
      <3> QED
        BY <3>1, <3>2
    <2>3. Cardinality(pool'[u]) \in Nat /\ Cardinality(pool[u]) \in Nat
      BY <1>3, <1>6, FS_CardinalityType DEF PoolsFinite
    <2>4. Cardinality(pool'[u]) < Threads
      BY <2>0, <2>2, <2>3, UploaderAssumption DEF PromiseIsFree
    <2>5. status'[promise[u]] = "progress" /\ response'[promise[u]] = "none"
      BY <2>0, <2>1 DEF PromiseIsFree, UploaderTypeOK
    <2> QED
      BY <2>0, <2>4, <2>5 DEF PromiseIsFree
  <1>9. SentIsStarted'
    BY DEF SentIsStarted, UploaderTypeOK
  <1>10. QueueKnowsFiles'
    <2>1. status[f] # "none"
      BY DEF SentIsStarted, UploaderTypeOK
    <2> QED
      BY <2>1 DEF QueueKnowsFiles, InQueue, UploaderTypeOK
  <1> QED
    BY <1>5, <1>6, <1>7, <1>8, <1>9, <1>10

\* What the two ways of losing a place have in common.
LEMMA LostInv ==
    ASSUME UploaderInv, NEW f \in Files, NEW st \in {"progress", "complete"},
           response[f] \in {"sent", "loaded"},
           response' = [response EXCEPT ![f] = "lost"],
           status' = [status EXCEPT ![f] = st],
           UNCHANGED <<queue, runing, ticks, promise, pool, remaning>>
    PROVE  UploaderInv'
  <1> USE DEF UploaderInv
  <1>1. UploaderTypeOK'
    BY DEF UploaderTypeOK
  <1>2. PoolIsOnTheWay' /\ PoolsFinite'
    BY DEF PoolIsOnTheWay, PoolsFinite, UploaderTypeOK
  <1>3. PromiseIsFree' /\ SentIsStarted'
    BY DEF PromiseIsFree, SentIsStarted, UploaderTypeOK
  <1>4. QueueKnowsFiles'
    <2>1. status[f] # "none"
      BY DEF SentIsStarted
    <2> QED
      BY <2>1 DEF QueueKnowsFiles, InQueue, UploaderTypeOK
  <1> QED
    BY <1>1, <1>2, <1>3, <1>4

LEMMA FailInv ==
    ASSUME UploaderInv, NEW f \in Files, NEW heard \in BOOLEAN, Fail(f, heard)
    PROVE  UploaderInv'
  <1>1. CASE heard
    BY <1>1, EndInv DEF Fail
  <1>2. CASE ~heard
    <2>1. status' = [status EXCEPT ![f] = "progress"]
      BY <1>2 DEF Fail, UploaderInv, SentIsStarted, UploaderTypeOK
    <2> QED
      BY <1>2, <2>1, LostInv DEF Fail
  <1> QED
    BY <1>1, <1>2

LEMMA FinishInv ==
    ASSUME UploaderInv, NEW f \in Files, NEW heard \in BOOLEAN, Finish(f, heard)
    PROVE  UploaderInv'
  <1>1. CASE heard
    BY <1>1, EndInv DEF Finish
  <1>2. CASE ~heard
    BY <1>2, LostInv DEF Finish
  <1> QED
    BY <1>1, <1>2

\* Every task of the browser keeps the invariant.
LEMMA UploaderStepInv == UploaderInv /\ UploaderStep => UploaderInv'
  BY AddFileInv, StartUploadInv, TickPreparesInv, TickEndsInv, PreparedInv, PrepareFailsInv,
     LoadInv, FailInv, FinishInv DEF UploaderStep

-----------------------------------------------------------------------------
(* The refinement of UploadPool. *)

\* In terms of requests, files are active or ended; before a step and after it.
LEMMA ActiveIsSent ==
    /\ UploaderInv =>
        /\ Active = {f \in Files : response[f] # "none"}
        /\ Ended = {f \in Files : status[f] \in {"complete", "error"} /\ response[f] = "none"}
    /\ UploaderInv' =>
        /\ Active' = {f \in Files : response'[f] # "none"}
        /\ Ended' = {f \in Files : status'[f] \in {"complete", "error"} /\ response'[f] = "none"}
  <1>1. \A f \in Files : f[1] \in Uploaders
    BY OwnUploader
  <1>2. ASSUME UploaderInv PROVE Active = {f \in Files : response[f] # "none"}
    BY <1>1, <1>2 DEF Active, UploaderInv, PoolIsOnTheWay
  <1>3. ASSUME UploaderInv
        PROVE  Ended = {f \in Files : status[f] \in {"complete", "error"} /\ response[f] = "none"}
    BY <1>1, <1>3 DEF Ended, UploaderInv, PoolIsOnTheWay
  <1>4. ASSUME UploaderInv' PROVE Active' = {f \in Files : response'[f] # "none"}
    BY <1>1, <1>4 DEF Active, UploaderInv, PoolIsOnTheWay
  <1>5. ASSUME UploaderInv'
        PROVE  Ended' = {f \in Files : status'[f] \in {"complete", "error"} /\ response'[f] = "none"}
    BY <1>1, <1>5 DEF Ended, UploaderInv, PoolIsOnTheWay
  <1> QED
    BY <1>2, <1>3, <1>4, <1>5

\* The active files of an uploader are its pool.
LEMMA ActiveOfOne ==
    ASSUME UploaderInv, NEW u \in Uploaders
    PROVE  {g \in Active : g[1] = u} = pool[u]
  <1>1. Active = {f \in Files : response[f] # "none"}
    BY ActiveIsSent
  <1> QED
    BY <1>1 DEF UploaderInv, PoolIsOnTheWay

\* A file waits, is on its way or has ended, and never two of these.
LEMMA WaitsOnce ==
    ASSUME UploaderInv, NEW f \in Files
    PROVE  /\ f \in Waiting => f \notin Active /\ f \notin Ended
           /\ promise[f[1]] = f => status[f] = "progress" /\ response[f] = "none"
  <1>1. f[1] \in Uploaders /\ f # NoFile
    BY OwnUploader, UploaderAssumption
  <1>2. promise[f[1]] = f => status[f] = "progress" /\ response[f] = "none"
    BY <1>1 DEF UploaderInv, PromiseIsFree
  <1>3. status[f] = "queued" => response[f] = "none"
    BY DEF UploaderInv, SentIsStarted, UploaderTypeOK
  <1> QED
    BY <1>2, <1>3, ActiveIsSent DEF Waiting

\* The instance has a Cardinality of its own, the same one.
LEMMA PoolCardinality == \A S : UP!Cardinality(S) = Cardinality(S)
  BY Zenon DEF UP!Cardinality, Cardinality

LEMMA PoolInitially == UploaderInit => UP!PoolInit
  <1> SUFFICES ASSUME UploaderInit PROVE Waiting = {} /\ Active = {} /\ Ended = {}
    BY DEF UP!PoolInit
  <1> QED
    BY OwnUploader, UploaderAssumption DEF UploaderInit, Waiting, Active, Ended

\* A click asks for the files that came since the last one.
LEMMA StartUploadRequests ==
    ASSUME UploaderInv, UploaderInv', StartUpload PROVE UP!PoolNext
  <1> DEFINE files == {f \in Files : status[f] = "inited"}
  <1>1. files \cap (Waiting \cup Active \cup Ended) = {}
    <2> SUFFICES ASSUME NEW f \in files PROVE f \notin Waiting \cup Active \cup Ended
      OBVIOUS
    <2>1. response[f] = "none"
      BY DEF UploaderInv, SentIsStarted, UploaderTypeOK
    <2> QED
      BY <2>1, ActiveIsSent, WaitsOnce DEF Waiting
  <1>2. Waiting' = Waiting \cup files
    BY DEF Waiting, StartUpload, StatusOnUpload
  <1>3. Active' = Active
    BY DEF Active, StartUpload
  <1>4. Ended' = Ended
    BY DEF Ended, StartUpload, StatusOnUpload
  <1> QED
    BY <1>1, <1>2, <1>3, <1>4 DEF UP!PoolNext, UP!Request

\* The request of a file that was prepared is its start.
LEMMA PreparedStarts ==
    ASSUME UploaderInv, UploaderInv', NEW f \in Files, Prepared(f) PROVE UP!PoolNext
  <1>1. status[f] = "progress" /\ response[f] = "none" /\ f[1] \in Uploaders
        /\ Cardinality(pool[f[1]]) < Threads
    BY OwnUploader, WaitsOnce, UploaderAssumption
    DEF Prepared, UploaderInv, PromiseIsFree
  <1>2. f \in Waiting
    BY DEF Waiting, Prepared
  <1>3. Cardinality({g \in Active : g[1] = f[1]}) < Threads
    BY <1>1, ActiveOfOne
  <1>4. Waiting' = Waiting \ {f}
    <2>1. \A g \in Files : promise'[g[1]] = g <=> (promise[g[1]] = g /\ g # f)
      BY <1>1, OwnUploader, UploaderAssumption DEF Prepared, UploaderInv, UploaderTypeOK
    <2> QED
      BY <1>1, <2>1 DEF Waiting, Prepared
  <1>5. Active' = Active \cup {f}
    BY ActiveIsSent DEF Prepared, UploaderInv, UploaderTypeOK
  <1>6. Ended' = Ended
    <2>1. status' = status /\ \A g \in Files : g # f => response'[g] = response[g]
      BY DEF Prepared, UploaderInv, UploaderTypeOK
    <2> QED
      BY <1>1, <2>1, ActiveIsSent
  <1> QED
    BY <1>2, <1>3, <1>4, <1>5, <1>6, PoolCardinality DEF UP!PoolNext, UP!Start

\* A file that cannot be prepared is refused.
LEMMA PrepareFailsRefuses ==
    ASSUME UploaderInv, UploaderInv', NEW f \in Files, PrepareFails(f) PROVE UP!PoolNext
  <1>1. status[f] = "progress" /\ response[f] = "none" /\ f[1] \in Uploaders /\ f # NoFile
    BY OwnUploader, WaitsOnce, UploaderAssumption DEF PrepareFails
  <1>2. f \in Waiting
    BY DEF Waiting, PrepareFails
  <1>3. Waiting' = Waiting \ {f}
    <2>1. \A g \in Files : promise'[g[1]] = g <=> (promise[g[1]] = g /\ g # f)
      BY <1>1, OwnUploader, UploaderAssumption DEF PrepareFails, UploaderInv, UploaderTypeOK
    <2>2. \A g \in Files : status'[g] = "queued" <=> status[g] = "queued"
      BY <1>1 DEF PrepareFails, UploaderInv, UploaderTypeOK
    <2> QED
      BY <1>1, <2>1, <2>2 DEF Waiting
  <1>4. Active' = Active
    BY DEF Active, PrepareFails
  <1>5. Ended' = Ended \cup {f}
    <2>1. status'[f] = "error" /\ response' = response
          /\ \A g \in Files : g # f => status'[g] = status[g]
      BY DEF PrepareFails, UploaderInv, UploaderTypeOK
    <2> QED
      BY <1>1, <2>1, ActiveIsSent
  <1> QED
    BY <1>2, <1>3, <1>4, <1>5 DEF UP!PoolNext, UP!Refuse

\* An answer that the page hears ends the upload.
LEMMA EndEnds ==
    ASSUME UploaderInv, UploaderInv', NEW f \in Files, NEW st \in {"complete", "error"},
           response[f] # "none",
           response' = [response EXCEPT ![f] = "none"],
           status' = [status EXCEPT ![f] = st], promise' = promise
    PROVE  UP!PoolNext
  <1>1. status[f] # "queued" /\ promise[f[1]] # f
    BY WaitsOnce DEF UploaderInv, SentIsStarted, UploaderTypeOK
  <1>2. \A g \in Files : g # f => status'[g] = status[g] /\ response'[g] = response[g]
    BY DEF UploaderInv, UploaderTypeOK
  <1>3. status'[f] = st /\ response'[f] = "none"
    BY DEF UploaderInv, UploaderTypeOK
  <1>4. Waiting' = Waiting
    BY <1>1, <1>2, <1>3 DEF Waiting
  <1>5. Active' = Active \ {f} /\ f \in Active
    BY <1>2, <1>3, ActiveIsSent
  <1>6. Ended' = Ended \cup {f}
    BY <1>2, <1>3, ActiveIsSent
  <1> QED
    BY <1>4, <1>5, <1>6 DEF UP!PoolNext, UP!End

\* Nothing is seen of the other steps: neither of a new file, nor of a timer, nor of an
\* answer that is not heard.
LEMMA OthersStutter ==
    ASSUME UploaderInv, UploaderInv',
           \A f \in Files : /\ status'[f] = "queued" \/ promise'[f[1]] = f
                               <=> status[f] = "queued" \/ promise[f[1]] = f
                            /\ response'[f] = "none" <=> response[f] = "none"
                            /\ response[f] = "none" =>
                                 (status'[f] \in {"complete", "error"}
                                    <=> status[f] \in {"complete", "error"})
    PROVE  UNCHANGED UP!poolVars
  <1>1. ASSUME NEW f \in Files PROVE f \in Waiting' <=> f \in Waiting
    BY DEF Waiting
  <1>2. Waiting' \subseteq Files /\ Waiting \subseteq Files
    BY DEF Waiting
  <1>3. Waiting' = Waiting
    BY <1>1, <1>2, Zenon
  <1>4. /\ Active = {f \in Files : response[f] # "none"}
        /\ Active' = {f \in Files : response'[f] # "none"}
    BY ActiveIsSent
  <1>5. Active' = Active
    BY <1>4
  <1>6. /\ Ended = {f \in Files : status[f] \in {"complete", "error"} /\ response[f] = "none"}
        /\ Ended' = {f \in Files : status'[f] \in {"complete", "error"} /\ response'[f] = "none"}
    BY ActiveIsSent
  <1>7. ASSUME NEW f \in Files PROVE f \in Ended' <=> f \in Ended
    BY <1>6
  <1>8. Ended' = Ended
    BY <1>6, <1>7
  <1> QED
    BY <1>3, <1>5, <1>8 DEF UP!poolVars

\* Every task of the browser is a step of UploadPool or a stutter.
LEMMA UploaderStepPool ==
    ASSUME UploaderInv, UploaderStep PROVE [UP!PoolNext]_UP!poolVars
  <1> UploaderInv'
    BY UploaderStepInv
  <1>1. CASE StartUpload
    BY <1>1, StartUploadRequests
  <1>2. ASSUME NEW u \in Uploaders, TickPrepares(u) PROVE [UP!PoolNext]_UP!poolVars
    <2>1. PICK f \in Files : /\ f[1] = u /\ IsNext(f)
                             /\ status' = [status EXCEPT ![f] = "progress"]
                             /\ promise' = [promise EXCEPT ![u] = f]
      BY <1>2 DEF TickPrepares
    <2>2. status[f] = "queued" /\ promise[u] = NoFile /\ response' = response
      BY <1>2, <2>1 DEF IsNext, TickPrepares
    <2>3. status'[f] = "progress" /\ promise'[f[1]] = f
      BY <2>1 DEF UploaderInv, UploaderTypeOK
    <2>4. \A g \in Files : g # f => status'[g] = status[g]
                                   /\ (promise'[g[1]] = g <=> promise[g[1]] = g)
      BY <2>1, <2>2, OwnUploader, UploaderAssumption DEF UploaderInv, UploaderTypeOK
    <2> QED
      BY <2>2, <2>3, <2>4, OthersStutter
  <1>3. ASSUME NEW u \in Uploaders, TickEnds(u) PROVE [UP!PoolNext]_UP!poolVars
    BY <1>3, OthersStutter DEF TickEnds
  <1>4. ASSUME NEW f \in Files, AddFile(f) PROVE [UP!PoolNext]_UP!poolVars
    <2>1. status[f] = "none"
      BY <1>4 DEF AddFile, UploaderInv, QueueKnowsFiles
    <2>2. \A g \in Files : status'[g] = IF g = f THEN "inited" ELSE status[g]
      BY <1>4 DEF AddFile, UploaderInv, UploaderTypeOK
    <2>3. promise' = promise /\ response' = response
      BY <1>4 DEF AddFile
    <2> QED
      BY <2>1, <2>2, <2>3, OthersStutter
  <1>5. ASSUME NEW f \in Files, Prepared(f) PROVE [UP!PoolNext]_UP!poolVars
    BY <1>5, PreparedStarts
  <1>6. ASSUME NEW f \in Files, PrepareFails(f) PROVE [UP!PoolNext]_UP!poolVars
    BY <1>6, PrepareFailsRefuses
  <1>7. ASSUME NEW f \in Files, NEW heard \in BOOLEAN, Load(f, heard)
        PROVE  [UP!PoolNext]_UP!poolVars
    <2>1. \A g \in Files : response'[g] = "none" <=> response[g] = "none"
      BY <1>7 DEF Load, UploaderInv, UploaderTypeOK
    <2>2. promise' = promise /\ status' = status
      BY <1>7 DEF Load
    <2> QED
      BY <2>1, <2>2, OthersStutter
  <1>8. ASSUME NEW f \in Files, NEW st \in {"progress", "complete"},
               response[f] \in {"sent", "loaded"},
               response' = [response EXCEPT ![f] = "lost"],
               status' = [status EXCEPT ![f] = st], promise' = promise
        PROVE  [UP!PoolNext]_UP!poolVars
    <2>1. status[f] = "progress"
      BY <1>8 DEF UploaderInv, SentIsStarted
    <2>2. \A g \in Files : status'[g] = IF g = f THEN st ELSE status[g]
      BY <1>8 DEF UploaderInv, UploaderTypeOK
    <2>3. \A g \in Files : response'[g] = "none" <=> response[g] = "none"
      BY <1>8 DEF UploaderInv, UploaderTypeOK
    <2> QED
      BY <1>8, <2>1, <2>2, <2>3, OthersStutter
  <1>9. ASSUME NEW f \in Files, NEW heard \in BOOLEAN, Fail(f, heard)
        PROVE  [UP!PoolNext]_UP!poolVars
    <2>1. CASE heard
      BY <1>9, <2>1, EndEnds DEF Fail
    <2>2. CASE ~heard
      <3>1. status' = [status EXCEPT ![f] = "progress"]
        BY <1>9, <2>2 DEF Fail, UploaderInv, SentIsStarted, UploaderTypeOK
      <3> QED
        BY <1>8, <1>9, <2>2, <3>1 DEF Fail
    <2> QED
      BY <2>1, <2>2
  <1>10. ASSUME NEW f \in Files, NEW heard \in BOOLEAN, Finish(f, heard)
         PROVE  [UP!PoolNext]_UP!poolVars
    <2>1. CASE heard
      BY <1>10, <2>1, EndEnds DEF Finish
    <2>2. CASE ~heard
      BY <1>8, <1>10, <2>2 DEF Finish
    <2> QED
      BY <2>1, <2>2
  <1> QED
    BY <1>1, <1>2, <1>3, <1>4, <1>5, <1>6, <1>7, <1>9, <1>10 DEF UploaderStep

-----------------------------------------------------------------------------
(* The dialog. *)

KnownFiles == OldFiles \cup {f \in Files : InQueue(f)}

FilesOf(list) == {list[i].file : i \in DOMAIN list}

\* A list names an image once, with its own path, if any, and no image that nobody picked.
Sound(list, known) ==
    /\ \A i, j \in DOMAIN list : list[i].file = list[j].file => i = j
    /\ \A i \in DOMAIN list : list[i].url \in {NoUrl, list[i].file}
    /\ \A i \in DOMAIN list : list[i].file \in known

ListsSound ==
    /\ Sound(rows, KnownFiles)
    /\ \A load \in loads : Sound(load.answer, KnownFiles)
    /\ \A post \in posts : Sound(post.images, KnownFiles)
    /\ \A s \in DOMAIN images : Sound(images[s], KnownFiles)

\* While the user waits for each answer, one request at most is under way, the list
\* shows what the user left in it and it ever got unless it is being read, and then the
\* table has it; a form that is under way carries it for the SPU of the dialog.
OneAtATime ==
    ~hasty =>
        /\ loads = {} \/ posts = {}
        /\ \A l, m \in loads : l = m
        /\ \A p, q \in posts : p = q
        /\ loads = {} /\ dialog.open => FilesOf(rows) = wanted \ missed
        /\ loads # {} => FilesOf(rows) = {} /\ missed = {}
        /\ missed \subseteq KnownFiles
        /\ \A load \in loads : /\ FilesOf(load.answer) = wanted
                               /\ FilesOf(images[load.spu]) = wanted
        /\ \A post \in posts : ~post.saved =>
               post.spu = dialog.spu /\ FilesOf(post.images) = wanted \ missed

DialogInv == TypeOK /\ UploaderInv /\ ListsSound /\ OneAtATime

\* What is asked for and answered of the lists is no task of the uploaders.
LEMMA UploadersMove == Next => UploaderStep \/ UNCHANGED uploaderVars
  <1> SUFFICES ASSUME Next PROVE UploaderStep \/ UNCHANGED uploaderVars
    OBVIOUS
  <1>1. ASSUME NEW s, OpenDialog(s) \/ DeleteSpuInfo(s) PROVE UNCHANGED uploaderVars
    BY <1>1 DEF OpenDialog, DeleteSpuInfo
  <1>2. CASE CloseSpu \/ SaveSpu
    BY <1>2 DEF CloseSpu, SaveSpu
  <1>3. CASE ClickUpload
    BY <1>3 DEF ClickUpload, UploaderStep
  <1>4. ASSUME NEW c \in Images, Pick(c) PROVE UploaderStep
    BY <1>4 DEF Pick, UploaderStep
  <1>5. ASSUME NEW i, DeleteImage(i) PROVE UNCHANGED uploaderVars
    BY <1>5 DEF DeleteImage
  <1>6. ASSUME NEW load, ShowImages(load) \/ LoadFails(load) PROVE UNCHANGED uploaderVars
    BY <1>6 DEF ShowImages, LoadFails
  <1>7. ASSUME NEW post, ServeSave(post) \/ RefuseSave(post) \/ SpuSaved(post)
        PROVE  UNCHANGED uploaderVars
    BY <1>7 DEF ServeSave, RefuseSave, SpuSaved
  <1>8. ASSUME NEW u \in Uploaders, Timers(u) PROVE UploaderStep
    BY <1>8 DEF Timers, UploaderStep
  <1>9. ASSUME NEW f \in Files, Prepare(f) PROVE UploaderStep
    BY <1>9 DEF Prepare, UploaderStep
  <1>10. ASSUME NEW f \in Files, Answer(f) \/ UploadFails(f) \/ UploadSuccess(f)
         PROVE  UploaderStep
    <2>1. Shown(f) \in BOOLEAN
      BY DEF Shown
    <2> QED
      BY <1>10, <2>1 DEF Answer, UploadFails, UploadSuccess, UploaderStep
  <1> QED
    BY <1>1, <1>2, <1>3, <1>4, <1>5, <1>6, <1>7, <1>8, <1>9, <1>10 DEF Next

\* Steps of the uploaders and of the rest of the page keep what holds of the uploaders.
LEMMA UploadersKeep == UploaderInv /\ [Next]_vars => UploaderInv'
  <1> SUFFICES ASSUME UploaderInv, UploaderStep \/ UNCHANGED uploaderVars PROVE UploaderInv'
    BY UploadersMove DEF vars
  <1>1. CASE UploaderStep
    BY <1>1, UploaderStepInv
  <1>2. CASE UNCHANGED uploaderVars
    BY <1>2 DEF uploaderVars, UploaderInv, UploaderTypeOK, PoolIsOnTheWay, PoolsFinite,
                PromiseIsFree, SentIsStarted, QueueKnowsFiles, InQueue
  <1> QED
    BY <1>1, <1>2

\* However the dialog and the answers go on, the pool of an uploader is the set of its
\* requests without an end, and not larger than threads (_startSend, _popBlock).
THEOREM UploadsKeepPool == Spec => []PoolIsOnTheWay
  <1>1. Init => UploaderInv
    BY UploaderInitInv DEF Init
  <1>2. UploaderInv => PoolIsOnTheWay
    BY DEF UploaderInv
  <1> QED
    BY <1>1, <1>2, UploadersKeep, PTL DEF Spec

\* The uploaders of the dialog implement UploadPool: each file is sent after a click,
\* once, and in its turn.
THEOREM UploadsImplementPool == Spec => UploadsInTurn
  <1>1. Init => UploaderInv /\ UP!PoolInit
    BY UploaderInitInv, PoolInitially DEF Init
  <1>2. UploaderInv /\ [Next]_vars => [UP!PoolNext]_UP!poolVars
    <2> SUFFICES ASSUME UploaderInv, UploaderStep \/ UNCHANGED uploaderVars
                 PROVE  [UP!PoolNext]_UP!poolVars
      BY UploadersMove DEF vars
    <2>1. CASE UploaderStep
      BY <2>1, UploaderStepPool
    <2>2. CASE UNCHANGED uploaderVars
      BY <2>2 DEF uploaderVars, UP!poolVars, Waiting, Active, Ended
    <2> QED
      BY <2>1, <2>2
  <1> QED
    BY <1>1, <1>2, UploadersKeep, PTL DEF Spec, UploadsInTurn, UP!PoolSpec

-----------------------------------------------------------------------------
(* Lists of images. *)

\* Files stay in the queue into which they were picked.
LEMMA KnownGrows ==
    ASSUME UploaderInv, Next PROVE KnownFiles \subseteq KnownFiles'
  <1> SUFFICES ASSUME NEW f \in Files, InQueue(f) PROVE InQueue(f)'
    BY DEF KnownFiles
  <1>1. CASE queue' = queue
    BY <1>1 DEF InQueue
  <1>2. ASSUME NEW g \in Files, AddFile(g) PROVE InQueue(f)'
    <2>1. f[1] \in Uploaders /\ g[1] \in Uploaders
      BY OwnUploader
    <2>2. queue[g[1]] \in Seq(Files) /\ queue'[g[1]] = Append(queue[g[1]], g)
          /\ (f[1] # g[1] => queue'[f[1]] = queue[f[1]])
      BY <1>2, <2>1 DEF AddFile, UploaderInv, UploaderTypeOK
    <2>3. ToSet(Append(queue[g[1]], g)) = ToSet(queue[g[1]]) \cup {g}
      BY <2>2, AppendSet
    <2> QED
      BY <2>2, <2>3 DEF InQueue
  <1>3. UploaderStep => queue' = queue \/ \E g \in Files : AddFile(g)
    BY DEF UploaderStep, StartUpload, TickPrepares, TickEnds, Prepared, PrepareFails, Load,
           Fail, Finish
  <1> QED
    BY <1>1, <1>2, <1>3, UploadersMove DEF uploaderVars

\* A sound list remains one when more files are known.
LEMMA SoundGrows ==
    ASSUME NEW known, NEW more, known \subseteq more, NEW list, Sound(list, known)
    PROVE  Sound(list, more)
  BY DEF Sound

\* A list without its row i, by position.
LEMMA RowsLeft ==
    ASSUME NEW S, NEW list \in Seq(S), NEW i \in DOMAIN list
    PROVE  /\ RemoveAt(list, i) \in Seq(S)
           /\ DOMAIN RemoveAt(list, i) = 1..(Len(list) - 1)
           /\ \A j \in 1..(Len(list) - 1) :
                  RemoveAt(list, i)[j] = IF j < i THEN list[j] ELSE list[j + 1]
  <1>1. Len(list) \in Nat /\ i \in 1..Len(list)
    OBVIOUS
  <1> DEFINE before == SubSeq(list, 1, i - 1)
  <1> DEFINE after == SubSeq(list, i + 1, Len(list))
  <1>2. before \in Seq(S) /\ Len(before) = i - 1 /\ \A j \in 1..(i - 1) : before[j] = list[j]
    BY <1>1
  <1>3. after \in Seq(S) /\ Len(after) = Len(list) - i
        /\ \A j \in 1..(Len(list) - i) : after[j] = list[j + i]
    BY <1>1
  <1> HIDE DEF before, after
  <1>4. /\ before \o after \in Seq(S)
        /\ Len(before \o after) = Len(list) - 1
        /\ DOMAIN (before \o after) = 1..(Len(list) - 1)
    BY <1>1, <1>2, <1>3
  <1>5. ASSUME NEW j \in 1..(Len(list) - 1)
        PROVE  (before \o after)[j] = IF j < i THEN list[j] ELSE list[j + 1]
    <2>1. CASE j < i
      BY <1>1, <1>2, <1>3, <2>1
    <2>2. CASE ~(j < i)
      <3>1. (before \o after)[j] = after[j - (i - 1)]
        BY <1>1, <1>2, <1>3, <2>2, ConcatProperties
      <3>2. j - (i - 1) \in 1..(Len(list) - i) /\ (j - (i - 1)) + i = j + 1
        BY <1>1, <2>2
      <3> QED
        BY <1>3, <2>2, <3>1, <3>2
    <2> QED
      BY <2>1, <2>2
  <1> QED
    BY <1>4, <1>5 DEF RemoveAt, before, after

\* What is left has no row of the image, and all the others.
LEMMA RowsLeftSound ==
    ASSUME NEW known, NEW S, NEW list \in Seq(S), Sound(list, known), NEW i \in DOMAIN list
    PROVE  /\ Sound(RemoveAt(list, i), known)
           /\ FilesOf(RemoveAt(list, i)) = FilesOf(list) \ {list[i].file}
  <1> DEFINE left == RemoveAt(list, i)
  <1> DEFINE at(j) == IF j < i THEN j ELSE j + 1
  <1>0. Len(list) \in Nat /\ DOMAIN list = 1..Len(list) /\ i \in 1..Len(list)
    OBVIOUS
  <1>1. DOMAIN left = 1..(Len(list) - 1)
        /\ \A j \in DOMAIN left : left[j] = list[at(j)]
    BY RowsLeft
  <1>2. \A j \in DOMAIN left : at(j) \in DOMAIN list \ {i}
    BY <1>0, <1>1
  <1>3. \A j, k \in DOMAIN left : at(j) = at(k) => j = k
    BY <1>0, <1>1
  <1>4. \A k \in DOMAIN list \ {i} : \E j \in DOMAIN left : at(j) = k
    <2> TAKE k \in DOMAIN list \ {i}
    <2>1. CASE k < i
      BY <1>0, <1>1, <2>1
    <2>2. CASE k > i
      <3>1. k - 1 \in DOMAIN left /\ at(k - 1) = k
        BY <1>0, <1>1, <2>2
      <3> QED
        BY <3>1
    <2> QED
      BY <1>0, <2>1, <2>2
  <1> HIDE DEF left, at
  <1>5. Sound(left, known)
    BY <1>1, <1>2, <1>3 DEF Sound
  <1>6. FilesOf(left) = FilesOf(list) \ {list[i].file}
    <2>1. \A j \in DOMAIN left : left[j].file \in FilesOf(list) \ {list[i].file}
      BY <1>1, <1>2 DEF Sound, FilesOf
    <2>2. \A k \in DOMAIN list : list[k].file # list[i].file =>
              \E j \in DOMAIN left : left[j].file = list[k].file
      BY <1>1, <1>4
    <2> QED
      BY <2>1, <2>2 DEF FilesOf
  <1> QED
    BY <1>5, <1>6 DEF left

\* A new row for a file of which there was none.
LEMMA RowAdded ==
    ASSUME NEW S, NEW list \in Seq(S), NEW row \in S, NEW known, Sound(list, known),
           row.url = NoUrl, row.file \in known, row.file \notin FilesOf(list)
    PROVE  /\ Append(list, row) \in Seq(S)
           /\ Sound(Append(list, row), known)
           /\ FilesOf(Append(list, row)) = FilesOf(list) \cup {row.file}
  <1> DEFINE more == Append(list, row)
  <1>1. /\ more \in Seq(S) /\ Len(list) \in Nat
        /\ DOMAIN list = 1..Len(list) /\ DOMAIN more = 1..(Len(list) + 1)
        /\ more[Len(list) + 1] = row
        /\ \A i \in 1..Len(list) : more[i] = list[i]
    OBVIOUS
  <1>2. \A i \in DOMAIN more : i \in DOMAIN list \/ i = Len(list) + 1
    BY <1>1
  <1>3. Len(list) + 1 \in DOMAIN more /\ \A i \in DOMAIN list : i \in DOMAIN more
    BY <1>1
  <1> HIDE DEF more
  <1>4. \A i \in DOMAIN more : \/ i \in DOMAIN list /\ more[i] = list[i]
                               \/ i = Len(list) + 1 /\ more[i] = row
    BY <1>1, <1>2
  <1>5. \A i \in DOMAIN list : list[i].file # row.file
    BY DEF FilesOf
  <1>6. Sound(more, known)
    BY <1>4, <1>5 DEF Sound
  <1>7. FilesOf(more) = FilesOf(list) \cup {row.file}
    BY <1>1, <1>3, <1>4 DEF FilesOf
  <1> QED
    BY <1>1, <1>6, <1>7 DEF more

\* The list of another list's images and paths names the same images.
LEMMA CopySound ==
    ASSUME NEW known, NEW list, Sound(list, known), NEW copy, DOMAIN copy = DOMAIN list,
           \A i \in DOMAIN list : copy[i].file = list[i].file /\ copy[i].url = list[i].url
    PROVE  Sound(copy, known) /\ FilesOf(copy) = FilesOf(list)
  <1>1. Sound(copy, known)
    BY DEF Sound
  <1>2. FilesOf(copy) = FilesOf(list)
    BY DEF FilesOf
  <1> QED
    BY <1>1, <1>2

\* The images of SPU 1, each once.
LEMMA OldImages ==
    LET order == SetToSeq(OldFiles) IN
    /\ order \in Seq(OldFiles)
    /\ \A i, j \in DOMAIN order : order[i] = order[j] => i = j
  <1> DEFINE n == Cardinality(OldFiles)
  <1>1. n \in Nat /\ ExistsBijection(1..n, OldFiles)
    BY FS_CardinalityType, DialogAssumption
  <1> HIDE DEF n
  <1>2. PICK b \in [1..n -> OldFiles] : IsInjective(b)
    BY <1>1 DEF ExistsBijection, Bijection, Injection, IsInjective
  <1> DEFINE order == CHOOSE f \in [1..n -> OldFiles] : IsInjective(f)
  <1>3. order \in [1..n -> OldFiles] /\ IsInjective(order)
    BY <1>2
  <1>4. order \in Seq(OldFiles) /\ \A i, j \in DOMAIN order : order[i] = order[j] => i = j
    BY <1>1, <1>3 DEF IsInjective
  <1> QED
    BY <1>4 DEF SetToSeq, n

\* The files of a list.
LEMMA FilesOfImages ==
    ASSUME NEW list \in Seq(Image) PROVE FilesOf(list) \subseteq AllFiles
  <1>1. \A i \in DOMAIN list : list[i] \in Image
    OBVIOUS
  <1> QED
    BY <1>1 DEF FilesOf, Image

-----------------------------------------------------------------------------
(* The steps. *)

\* Before the dialog is opened there are only the images of SPU 1.
LEMMA DialogInit == Init => DialogInv
  <1> SUFFICES ASSUME Init PROVE DialogInv
    OBVIOUS
  <1>1. UploaderInv
    BY UploaderInitInv DEF Init
  <1> DEFINE order == SetToSeq(OldFiles)
  <1> DEFINE old == [i \in DOMAIN order |-> [file |-> order[i], url |-> order[i]]]
  <1>2. order \in Seq(OldFiles) /\ \A i, j \in DOMAIN order : order[i] = order[j] => i = j
    BY OldImages
  <1>3. images = [s \in {1} |-> old]
    BY DEF Init
  <1> HIDE DEF order
  <1>4. old \in Seq(Image)
    <2>1. DOMAIN order = 1..Len(order) /\ Len(order) \in Nat
          /\ \A i \in DOMAIN order : order[i] \in AllFiles
      BY <1>2 DEF AllFiles
    <2>2. \A i \in DOMAIN order : [file |-> order[i], url |-> order[i]] \in Image
      BY <2>1 DEF Image
    <2> QED
      BY <2>1, <2>2
  <1>5. Sound(old, KnownFiles)
    BY <1>2 DEF Sound, KnownFiles
  <1> HIDE DEF old
  <1>6. images \in [1..1 -> Seq(Image)] /\ DOMAIN images = {1} /\ images[1] = old
    BY <1>3, <1>4
  <1>7. TypeOK
    <2>1. \E n \in 1..MaxSpu : images \in [1..n -> Seq(Image)]
      BY <1>6, DialogAssumption
    <2>2. dialog \in [open : BOOLEAN, spu : {0} \cup DOMAIN images] /\ rows \in Seq(Row)
      BY DEF Init
    <2>3. opened \in 0..MaxDialogs /\ saves \in 0..MaxSaves
      BY DialogAssumption DEF Init
    <2> QED
      BY <1>1, <2>1, <2>2, <2>3 DEF Init, TypeOK, UploaderInv
  <1>8. ListsSound
    BY <1>5, <1>6 DEF ListsSound, Sound, Init
  <1>9. OneAtATime
    BY DEF OneAtATime, Init
  <1> QED
    BY <1>1, <1>7, <1>8, <1>9 DEF DialogInv

\* What a step begins with, and what other lemmas show of its end.
StepBegins == DialogInv /\ UploaderInv' /\ KnownFiles \subseteq KnownFiles'

\* Tasks of the uploaders that do not touch the list.
LEMMA OthersKeep == ASSUME StepBegins, UNCHANGED dialogVars PROVE DialogInv'
  <1> USE DEF StepBegins, DialogInv, dialogVars
  <1>1. TypeOK'
    BY DEF TypeOK, UploaderInv
  <1>2. ListsSound'
    BY SoundGrows DEF ListsSound
  <1>3. OneAtATime'
    BY DEF OneAtATime
  <1> QED
    BY <1>1, <1>2, <1>3

\* Opening the dialog empties the list and asks for the images of the SPU.
LEMMA OpenKeeps ==
    ASSUME StepBegins, NEW s \in {0} \cup DOMAIN images, OpenDialog(s)
    PROVE  DialogInv'
  <1> DEFINE new == [id |-> opened, spu |-> s, answer |-> images[s]]
  <1>1. s # 0 => s \in DOMAIN images /\ images[s] \in Seq(Image)
    BY DEF StepBegins, DialogInv, TypeOK
  <1>2. /\ loads' = IF s = 0 THEN loads ELSE loads \cup {new}
        /\ posts' = posts /\ images' = images /\ saves' = saves /\ rows' = <<>>
        /\ dialog' = [open |-> TRUE, spu |-> s]
        /\ opened < MaxDialogs /\ opened' = opened + 1 /\ missed' = {}
    BY DEF OpenDialog, Cleared
  <1>3. /\ hasty' = (hasty \/ loads # {} \/ posts # {})
        /\ wanted' = IF hasty' THEN {} ELSE IF s = 0 THEN {} ELSE FilesOf(images[s])
    BY DEF OpenDialog, Does, FilesOf
  <1>4. s # 0 => FilesOf(images[s]) \subseteq AllFiles
    BY <1>1, FilesOfImages
  <1>5. TypeOK'
    <2>1. rows' \in Seq(Row)
      BY <1>2
    <2>2. opened' \in 0..MaxDialogs /\ opened \in 0..MaxDialogs
      BY <1>2, DialogAssumption DEF StepBegins, DialogInv, TypeOK
    <2>3. loads' \subseteq [id : 0..MaxDialogs, spu : DOMAIN images, answer : Seq(Image)]
      BY <1>1, <1>2, <2>2 DEF StepBegins, DialogInv, TypeOK
    <2>4. wanted' \subseteq AllFiles /\ hasty' \in BOOLEAN
      BY <1>3, <1>4 DEF StepBegins, DialogInv, TypeOK
    <2> QED
      BY <1>2, <2>1, <2>2, <2>3, <2>4 DEF StepBegins, DialogInv, UploaderInv, TypeOK
  <1>6. ListsSound'
    <2>1. s # 0 => Sound(new.answer, KnownFiles)
      BY <1>1 DEF StepBegins, DialogInv, ListsSound
    <2>2. Sound(rows', KnownFiles')
      BY <1>2 DEF Sound
    <2> QED
      BY <1>2, <2>1, <2>2, SoundGrows DEF StepBegins, DialogInv, ListsSound
  <1>7. OneAtATime'
    <2> SUFFICES ASSUME ~hasty' PROVE OneAtATime'
      BY DEF OneAtATime
    <2>1. loads = {} /\ posts = {}
      BY <1>3
    <2>2. CASE s = 0
      <3>1. FilesOf(rows') = {}
        BY <1>2 DEF FilesOf
      <3>2. loads' = {} /\ posts' = {} /\ wanted' = {} /\ missed' = {}
        BY <1>2, <1>3, <2>1, <2>2
      <3> QED
        BY <3>1, <3>2 DEF OneAtATime
    <2>3. CASE s # 0
      <3>1. /\ loads' = {new} /\ posts' = {} /\ wanted' = FilesOf(images'[s])
            /\ missed' = {} /\ FilesOf(rows') = {}
        BY <1>2, <1>3, <2>1, <2>3 DEF FilesOf
      <3>2. new.spu = s /\ new.answer = images'[s]
        BY <1>2
      <3> QED
        BY <3>1, <3>2 DEF OneAtATime
    <2> QED
      BY <2>2, <2>3
  <1> QED
    BY <1>5, <1>6, <1>7 DEF StepBegins, DialogInv

\* A closed dialog keeps its list and its requests.
LEMMA CloseKeeps == ASSUME StepBegins, CloseSpu PROVE DialogInv'
  <1> USE DEF StepBegins, DialogInv, CloseSpu
  <1>1. dialog' = [open |-> FALSE, spu |-> dialog.spu]
    BY DEF TypeOK
  <1>2. TypeOK'
    BY <1>1 DEF TypeOK, UploaderInv
  <1>3. ListsSound'
    BY SoundGrows DEF ListsSound
  <1>4. OneAtATime'
    BY <1>1 DEF OneAtATime
  <1> QED
    BY <1>2, <1>3, <1>4

\* A file that is in no queue has no row yet; the first row of it ends the list.
LEMMA PickKeeps ==
    ASSUME StepBegins, NEW c \in Images, Pick(c) PROVE DialogInv'
  <1> DEFINE f == <<opened, c>>
  <1> DEFINE row == [file |-> f, picked |-> TRUE, url |-> NoUrl]
  <1>1. f \in Files /\ AddFile(f) /\ ~InQueue(f)
    BY DEF Pick, AddFile
  <1>2. f \notin KnownFiles /\ f \in AllFiles
    BY <1>1, DialogAssumption DEF KnownFiles, AllFiles
  <1>3. f \in KnownFiles'
    <2>1. f[1] \in Uploaders
      BY <1>1, OwnUploader
    <2>2. queue[f[1]] \in Seq(Files) /\ queue'[f[1]] = Append(queue[f[1]], f)
      BY <1>1, <2>1 DEF AddFile, StepBegins, UploaderInv, UploaderTypeOK
    <2>3. f \in ToSet(queue'[f[1]])
      BY <1>1, <2>2, AppendSet
    <2> QED
      BY <1>1, <2>3 DEF KnownFiles, InQueue
  <1>4. /\ rows' = Append(rows, row) /\ dialog.open
        /\ opened' = opened /\ dialog' = dialog /\ loads' = loads /\ posts' = posts
        /\ saves' = saves /\ images' = images /\ missed' = missed
    BY DEF Pick
  <1>5. /\ hasty' = (hasty \/ loads # {} \/ posts # {})
        /\ wanted' = IF hasty' THEN {} ELSE wanted \cup {f}
    BY DEF Pick, Does
  <1> HIDE DEF f
  <1>6. rows \in Seq(Row) /\ row \in Row
    BY <1>2 DEF StepBegins, DialogInv, TypeOK, Row
  <1>7. Sound(rows, KnownFiles') /\ f \notin FilesOf(rows)
    BY <1>2, SoundGrows DEF StepBegins, DialogInv, ListsSound, Sound, FilesOf
  <1>8. /\ rows' \in Seq(Row) /\ Sound(rows', KnownFiles')
        /\ FilesOf(rows') = FilesOf(rows) \cup {f}
    <2>1. row.url = NoUrl /\ row.file = f
      OBVIOUS
    <2> HIDE DEF row
    <2>2. /\ Append(rows, row) \in Seq(Row) /\ Sound(Append(rows, row), KnownFiles')
          /\ FilesOf(Append(rows, row)) = FilesOf(rows) \cup {f}
      BY <1>3, <1>6, <1>7, <2>1, RowAdded
    <2> QED
      BY <1>4, <2>2
  <1>9. TypeOK'
    BY <1>2, <1>4, <1>5, <1>8 DEF StepBegins, DialogInv, TypeOK, UploaderInv
  <1>10. ListsSound'
    BY <1>4, <1>8, SoundGrows DEF StepBegins, DialogInv, ListsSound
  <1>11. OneAtATime'
    <2> SUFFICES ASSUME ~hasty' PROVE OneAtATime'
      BY DEF OneAtATime
    <2>1. /\ loads' = {} /\ posts' = {} /\ wanted' = wanted \cup {f}
          /\ FilesOf(rows) = wanted \ missed /\ missed \subseteq KnownFiles
      BY <1>4, <1>5 DEF StepBegins, DialogInv, OneAtATime
    <2>2. FilesOf(rows') = wanted' \ missed' /\ missed' \subseteq KnownFiles'
      BY <1>2, <1>4, <1>8, <2>1 DEF StepBegins
    <2> QED
      BY <2>1, <2>2 DEF OneAtATime
  <1> QED
    BY <1>9, <1>10, <1>11 DEF StepBegins, DialogInv

\* The row of an image leaves the list.
LEMMA DeleteImageKeeps ==
    ASSUME StepBegins, NEW i \in DOMAIN rows, DeleteImage(i) PROVE DialogInv'
  <1>1. /\ rows' = RemoveAt(rows, i) /\ dialog.open
        /\ opened' = opened /\ dialog' = dialog /\ loads' = loads /\ posts' = posts
        /\ saves' = saves /\ images' = images /\ missed' = missed
    BY DEF DeleteImage
  <1>2. /\ hasty' = (hasty \/ loads # {} \/ posts # {})
        /\ wanted' = IF hasty' THEN {} ELSE wanted \ {rows[i].file}
    BY DEF DeleteImage, Does
  <1>3. rows \in Seq(Row) /\ Sound(rows, KnownFiles')
    BY SoundGrows DEF StepBegins, DialogInv, ListsSound, TypeOK
  <1>4. /\ rows' \in Seq(Row) /\ Sound(rows', KnownFiles')
        /\ FilesOf(rows') = FilesOf(rows) \ {rows[i].file}
    <2>1. RemoveAt(rows, i) \in Seq(Row)
      BY <1>3, RowsLeft
    <2>2. /\ Sound(RemoveAt(rows, i), KnownFiles')
          /\ FilesOf(RemoveAt(rows, i)) = FilesOf(rows) \ {rows[i].file}
      BY <1>3, RowsLeftSound
    <2> QED
      BY <1>1, <2>1, <2>2
  <1>5. TypeOK'
    BY <1>1, <1>2, <1>4 DEF StepBegins, DialogInv, TypeOK, UploaderInv
  <1>6. ListsSound'
    BY <1>1, <1>4, SoundGrows DEF StepBegins, DialogInv, ListsSound
  <1>7. OneAtATime'
    BY <1>1, <1>2, <1>4 DEF StepBegins, DialogInv, OneAtATime
  <1> QED
    BY <1>5, <1>6, <1>7 DEF StepBegins, DialogInv

\* Saving sends the images of the list.
LEMMA SaveKeeps == ASSUME StepBegins, SaveSpu PROVE DialogInv'
  <1> DEFINE form == [i \in DOMAIN rows |-> [file |-> rows[i].file, url |-> rows[i].url]]
  <1> DEFINE new == [id |-> saves, spu |-> dialog.spu, saved |-> FALSE, images |-> form]
  <1>1. /\ posts' = posts \cup {new} /\ dialog.open /\ saves < MaxSaves /\ saves' = saves + 1
        /\ opened' = opened /\ dialog' = dialog /\ loads' = loads
        /\ rows' = rows /\ images' = images /\ missed' = missed
    BY DEF SaveSpu
  <1>2. /\ hasty' = (hasty \/ loads # {} \/ posts # {})
        /\ wanted' = IF hasty' THEN {} ELSE wanted
    BY DEF SaveSpu, Does
  <1>3. form \in Seq(Image)
    <2>1. rows \in Seq(Row)
      BY DEF StepBegins, DialogInv, TypeOK
    <2>2. \A i \in DOMAIN rows : rows[i] \in Row
      BY <2>1
    <2>3. \A i \in DOMAIN rows : [file |-> rows[i].file, url |-> rows[i].url] \in Image
      BY <2>2 DEF Row, Image
    <2> QED
      BY <2>1, <2>3
  <1>4. Sound(form, KnownFiles) /\ FilesOf(form) = FilesOf(rows)
    <2>1. DOMAIN form = DOMAIN rows
          /\ \A i \in DOMAIN rows : form[i].file = rows[i].file /\ form[i].url = rows[i].url
      OBVIOUS
    <2>2. Sound(rows, KnownFiles)
      BY DEF StepBegins, DialogInv, ListsSound
    <2> HIDE DEF form
    <2> QED
      BY <2>1, <2>2, CopySound
  <1> HIDE DEF form
  <1>5. new.images = form /\ new.spu = dialog.spu /\ ~new.saved
    OBVIOUS
  <1>6. TypeOK'
    <2>1. saves \in 0..MaxSaves /\ saves' \in 0..MaxSaves
      BY <1>1, DialogAssumption DEF StepBegins, DialogInv, TypeOK
    <2>2. new \in [id : 0..MaxSaves, spu : {0} \cup DOMAIN images, saved : BOOLEAN,
                   images : Seq(Image)]
      BY <1>3, <2>1 DEF StepBegins, DialogInv, TypeOK
    <2> HIDE DEF new
    <2> QED
      BY <1>1, <1>2, <2>1, <2>2 DEF StepBegins, DialogInv, TypeOK, UploaderInv
  <1> HIDE DEF new
  <1>7. ListsSound'
    BY <1>1, <1>4, <1>5, SoundGrows DEF StepBegins, DialogInv, ListsSound
  <1>8. OneAtATime'
    <2> SUFFICES ASSUME ~hasty' PROVE OneAtATime'
      BY DEF OneAtATime
    <2>1. loads' = {} /\ posts' = {new} /\ wanted' = wanted /\ FilesOf(rows) = wanted \ missed
      BY <1>1, <1>2 DEF StepBegins, DialogInv, OneAtATime
    <2>2. /\ FilesOf(rows') = wanted' \ missed' /\ missed' \subseteq KnownFiles'
          /\ new.spu = dialog'.spu /\ FilesOf(new.images) = wanted' \ missed'
      BY <1>1, <1>2, <1>4, <1>5, <2>1 DEF StepBegins, DialogInv, OneAtATime
    <2> QED
      BY <2>1, <2>2 DEF OneAtATime
  <1> QED
    BY <1>6, <1>7, <1>8 DEF StepBegins, DialogInv

\* Deleting the images of an SPU empties its list in the table.
LEMMA DeleteSpuKeeps ==
    ASSUME StepBegins, NEW s \in DOMAIN images, DeleteSpuInfo(s) PROVE DialogInv'
  <1>1. /\ images' = [images EXCEPT ![s] = <<>>]
        /\ opened' = opened /\ dialog' = dialog /\ loads' = loads /\ posts' = posts
        /\ saves' = saves /\ rows' = rows /\ missed' = missed
    BY DEF DeleteSpuInfo
  <1>2. /\ hasty' = (hasty \/ loads # {} \/ posts # {})
        /\ wanted' = IF hasty' THEN {} ELSE wanted
    BY DEF DeleteSpuInfo, Does
  <1>3. PICK n \in 1..MaxSpu : images \in [1..n -> Seq(Image)]
    BY DEF StepBegins, DialogInv, TypeOK
  <1>4. images' \in [1..n -> Seq(Image)] /\ DOMAIN images' = DOMAIN images
        /\ \A t \in DOMAIN images : images'[t] = IF t = s THEN <<>> ELSE images[t]
    BY <1>1, <1>3
  <1>5. TypeOK'
    BY <1>1, <1>2, <1>4 DEF StepBegins, DialogInv, TypeOK, UploaderInv
  <1>6. ListsSound'
    <2>1. Sound(<<>>, KnownFiles')
      BY DEF Sound
    <2> QED
      BY <1>1, <1>4, <2>1, SoundGrows DEF StepBegins, DialogInv, ListsSound
  <1>7. OneAtATime'
    BY <1>1, <1>2 DEF StepBegins, DialogInv, OneAtATime
  <1> QED
    BY <1>5, <1>6, <1>7 DEF StepBegins, DialogInv

\* The answer to selectSpuImage replaces the list.
LEMMA ShowKeeps ==
    ASSUME StepBegins, NEW load \in loads, ShowImages(load) PROVE DialogInv'
  <1>1. PICK answer \in {load.answer, images[load.spu]} :
            rows' = [i \in DOMAIN answer |->
                        [file |-> answer[i].file, picked |-> FALSE, url |-> answer[i].url]]
    BY DEF ShowImages
  <1>2. /\ loads' = loads \ {load} /\ opened' = opened /\ dialog' = dialog /\ posts' = posts
        /\ saves' = saves /\ images' = images /\ wanted' = wanted /\ hasty' = hasty
        /\ missed' = missed
    BY DEF ShowImages
  <1>3. /\ load.answer \in Seq(Image) /\ load.spu \in DOMAIN images
        /\ images[load.spu] \in Seq(Image)
    BY DEF StepBegins, DialogInv, TypeOK
  <1>4. answer \in Seq(Image) /\ Sound(answer, KnownFiles')
    BY <1>3, SoundGrows DEF StepBegins, DialogInv, ListsSound
  <1>5. rows' \in Seq(Row)
    <2>1. \A i \in DOMAIN answer : answer[i] \in Image
      BY <1>4
    <2>2. \A i \in DOMAIN answer :
              [file |-> answer[i].file, picked |-> FALSE, url |-> answer[i].url] \in Row
      BY <2>1 DEF Row, Image
    <2> QED
      BY <1>1, <1>4, <2>2
  <1>6. Sound(rows', KnownFiles') /\ FilesOf(rows') = FilesOf(answer)
    <2>1. DOMAIN rows' = DOMAIN answer /\ \A i \in DOMAIN answer :
              rows'[i].file = answer[i].file /\ rows'[i].url = answer[i].url
      BY <1>1
    <2> QED
      BY <1>4, <2>1, CopySound
  <1>7. TypeOK'
    BY <1>2, <1>5 DEF StepBegins, DialogInv, TypeOK, UploaderInv
  <1>8. ListsSound'
    BY <1>2, <1>6, SoundGrows DEF StepBegins, DialogInv, ListsSound
  <1>9. OneAtATime'
    <2>1. ~hasty => FilesOf(answer) = wanted
      BY DEF StepBegins, DialogInv, OneAtATime
    <2> QED
      BY <1>2, <1>6, <2>1 DEF StepBegins, DialogInv, OneAtATime
  <1> QED
    BY <1>7, <1>8, <1>9 DEF StepBegins, DialogInv

\* An error answer to selectSpuImage leaves the list empty.
LEMMA LoadFailsKeeps ==
    ASSUME StepBegins, NEW load \in loads, LoadFails(load) PROVE DialogInv'
  <1>1. /\ loads' = loads \ {load} /\ missed' = wanted
        /\ opened' = opened /\ dialog' = dialog /\ rows' = rows /\ posts' = posts
        /\ saves' = saves /\ images' = images /\ wanted' = wanted /\ hasty' = hasty
    BY DEF LoadFails
  <1>2. TypeOK'
    BY <1>1 DEF StepBegins, DialogInv, TypeOK, UploaderInv
  <1>3. ListsSound'
    BY <1>1, SoundGrows DEF StepBegins, DialogInv, ListsSound
  <1>4. OneAtATime'
    <2> SUFFICES ASSUME ~hasty' PROVE OneAtATime'
      BY DEF OneAtATime
    <2>1. /\ loads = {load} /\ posts = {}
          /\ FilesOf(rows) = {} /\ wanted = FilesOf(load.answer)
      BY <1>1 DEF StepBegins, DialogInv, OneAtATime
    <2>2. Sound(load.answer, KnownFiles')
      BY SoundGrows DEF StepBegins, DialogInv, ListsSound
    <2>3. wanted \subseteq KnownFiles'
      BY <2>1, <2>2 DEF Sound, FilesOf
    <2>4. loads' = {} /\ posts' = {} /\ FilesOf(rows') = {} /\ wanted' \ missed' = {}
      BY <1>1, <2>1
    <2> QED
      BY <1>1, <2>3, <2>4 DEF OneAtATime
  <1> QED
    BY <1>2, <1>3, <1>4 DEF StepBegins, DialogInv

\* The table takes the images of the form, for the SPU of the form or a new one.
LEMMA ServeKeeps ==
    ASSUME StepBegins, NEW post \in posts, ServeSave(post) PROVE DialogInv'
  <1> DEFINE done == [post EXCEPT !.saved = TRUE]
  <1>1. /\ posts' = (posts \ {post}) \cup {done} /\ ~post.saved
        /\ opened' = opened /\ dialog' = dialog /\ loads' = loads /\ rows' = rows
        /\ saves' = saves /\ wanted' = wanted /\ hasty' = hasty /\ missed' = missed
    BY DEF ServeSave
  <1>2. post \in [id : 0..MaxSaves, spu : {0} \cup DOMAIN images, saved : BOOLEAN,
                  images : Seq(Image)]
    BY DEF StepBegins, DialogInv, TypeOK
  <1>3. /\ done \in [id : 0..MaxSaves, spu : {0} \cup DOMAIN images, saved : BOOLEAN,
                     images : Seq(Image)]
        /\ done.saved = TRUE /\ done.images = post.images
    BY <1>2
  <1> HIDE DEF done
  <1>4. PICK n \in 1..MaxSpu : images \in [1..n -> Seq(Image)]
    BY DEF StepBegins, DialogInv, TypeOK
  <1>5. \E m \in 1..MaxSpu :
            /\ m >= n /\ images' \in [1..m -> Seq(Image)]
            /\ \A s \in 1..m : images'[s] = post.images \/ (s \in 1..n /\ images'[s] = images[s])
    <2>1. CASE /\ post.spu # 0
               /\ images' = [images EXCEPT ![post.spu] = ReplaceImages(@, post.images)]
      BY <1>2, <1>4, <2>1 DEF ReplaceImages
    <2>2. CASE /\ post.spu = 0 /\ Cardinality(DOMAIN images) < MaxSpu
               /\ LET s == Cardinality(DOMAIN images) + 1 IN
                  images' = [t \in DOMAIN images \cup {s} |->
                                IF t = s THEN post.images ELSE images[t]]
      <3>1. DOMAIN images = 1..n /\ n \in Nat /\ Cardinality(1..n) = n
        BY <1>4, FS_Interval
      <3>2. images' = [t \in 1..(n + 1) |-> IF t = n + 1 THEN post.images ELSE images[t]]
        <4>1. (1..n) \cup {n + 1} = 1..(n + 1)
          BY <3>1
        <4> QED
          BY <2>2, <3>1, <4>1
      <3>3. n + 1 \in 1..MaxSpu
        BY <2>2, <3>1, DialogAssumption
      <3>4. images' \in [1..(n + 1) -> Seq(Image)]
        BY <1>2, <1>4, <3>1, <3>2
      <3> QED
        BY <3>1, <3>2, <3>3, <3>4
    <2> QED
      BY <2>1, <2>2 DEF ServeSave
  <1>6. DOMAIN images \subseteq DOMAIN images'
    BY <1>4, <1>5
  <1>7. TypeOK'
    <2>1. dialog \in [open : BOOLEAN, spu : {0} \cup DOMAIN images']
      BY <1>6 DEF StepBegins, DialogInv, TypeOK
    <2>2. loads \subseteq [id : 0..MaxDialogs, spu : DOMAIN images', answer : Seq(Image)]
      BY <1>6 DEF StepBegins, DialogInv, TypeOK
    <2>3. posts' \subseteq [id : 0..MaxSaves, spu : {0} \cup DOMAIN images', saved : BOOLEAN,
                            images : Seq(Image)]
      BY <1>1, <1>3, <1>6 DEF StepBegins, DialogInv, TypeOK
    <2>4. \E m \in 1..MaxSpu : images' \in [1..m -> Seq(Image)]
      BY <1>5
    <2> QED
      BY <1>1, <2>1, <2>2, <2>3, <2>4 DEF StepBegins, DialogInv, TypeOK, UploaderInv
  <1>8. ListsSound'
    <2>1. Sound(post.images, KnownFiles')
      BY SoundGrows DEF StepBegins, DialogInv, ListsSound
    <2>2. \A s \in DOMAIN images' : Sound(images'[s], KnownFiles')
      <3>1. \A s \in DOMAIN images : Sound(images[s], KnownFiles')
        BY SoundGrows DEF StepBegins, DialogInv, ListsSound
      <3> QED
        BY <1>4, <1>5, <2>1, <3>1
    <2> QED
      BY <1>1, <1>3, <2>1, <2>2, SoundGrows DEF StepBegins, DialogInv, ListsSound
  <1>9. OneAtATime'
    BY <1>1, <1>3 DEF StepBegins, DialogInv, OneAtATime
  <1> QED
    BY <1>7, <1>8, <1>9 DEF StepBegins, DialogInv

\* A refused form changes nothing.
LEMMA RefuseKeeps ==
    ASSUME StepBegins, NEW post \in posts, RefuseSave(post) PROVE DialogInv'
  <1> USE DEF StepBegins, DialogInv, RefuseSave
  <1>1. TypeOK'
    BY DEF TypeOK, UploaderInv
  <1>2. ListsSound'
    BY SoundGrows DEF ListsSound
  <1>3. OneAtATime'
    BY DEF OneAtATime
  <1> QED
    BY <1>1, <1>2, <1>3

\* The answer to saveSpu clears and closes the dialog.
LEMMA SavedKeeps ==
    ASSUME StepBegins, NEW post \in posts, SpuSaved(post) PROVE DialogInv'
  <1>1. /\ posts' = posts \ {post} /\ post.saved /\ rows' = <<>>
        /\ dialog' = [open |-> FALSE, spu |-> 0]
        /\ opened' = opened /\ loads' = loads /\ images' = images
        /\ saves' = saves /\ wanted' = wanted /\ hasty' = hasty /\ missed' = missed
    BY DEF SpuSaved, Cleared
  <1>2. TypeOK'
    <2>1. rows' \in Seq(Row)
      BY <1>1
    <2> QED
      BY <1>1, <2>1 DEF StepBegins, DialogInv, TypeOK, UploaderInv
  <1>3. ListsSound'
    <2>1. Sound(rows', KnownFiles')
      BY <1>1 DEF Sound
    <2> QED
      BY <1>1, <2>1, SoundGrows DEF StepBegins, DialogInv, ListsSound
  <1>4. OneAtATime'
    BY <1>1 DEF StepBegins, DialogInv, OneAtATime
  <1> QED
    BY <1>2, <1>3, <1>4 DEF StepBegins, DialogInv

\* The path of an uploaded image goes into its row.
LEMMA SuccessKeeps ==
    ASSUME StepBegins, NEW f \in Files, UploadSuccess(f) PROVE DialogInv'
  <1>1. /\ rows' = WithUrl(f, f)
        /\ opened' = opened /\ dialog' = dialog /\ loads' = loads /\ posts' = posts
        /\ images' = images /\ saves' = saves /\ wanted' = wanted /\ hasty' = hasty
        /\ missed' = missed
    BY DEF UploadSuccess
  <1>2. rows \in Seq(Row) /\ \A i \in DOMAIN rows : rows[i] \in Row
    BY DEF StepBegins, DialogInv, TypeOK
  <1>3. DOMAIN rows' = DOMAIN rows /\ \A i \in DOMAIN rows :
            /\ rows'[i] \in Row /\ rows'[i].file = rows[i].file
            /\ rows'[i].url \in {rows[i].url, rows[i].file}
    BY <1>1, <1>2 DEF WithUrl, IsRowOf, Row, AllFiles
  <1>4. rows' \in Seq(Row)
    <2>1. rows' \in [1..Len(rows) -> Row] /\ Len(rows) \in Nat
      BY <1>1, <1>2, <1>3 DEF WithUrl
    <2> QED
      BY <2>1
  <1>5. Sound(rows', KnownFiles') /\ FilesOf(rows') = FilesOf(rows)
    <2>1. Sound(rows, KnownFiles')
      BY SoundGrows DEF StepBegins, DialogInv, ListsSound
    <2>2. Sound(rows', KnownFiles')
      BY <1>3, <2>1 DEF Sound
    <2> QED
      BY <1>3, <2>2 DEF FilesOf
  <1>6. TypeOK'
    BY <1>1, <1>4 DEF StepBegins, DialogInv, TypeOK, UploaderInv
  <1>7. ListsSound'
    BY <1>1, <1>5, SoundGrows DEF StepBegins, DialogInv, ListsSound
  <1>8. OneAtATime'
    BY <1>1, <1>5 DEF StepBegins, DialogInv, OneAtATime
  <1> QED
    BY <1>6, <1>7, <1>8 DEF StepBegins, DialogInv

\* Every step keeps what holds of the dialog.
LEMMA DialogStep == DialogInv /\ [Next]_vars => DialogInv'
  <1> SUFFICES ASSUME DialogInv, [Next]_vars PROVE DialogInv'
    OBVIOUS
  <1>1. CASE UNCHANGED vars
    <2>1. UploaderInv'
      BY UploadersKeep DEF DialogInv
    <2>2. KnownFiles' = KnownFiles /\ UNCHANGED dialogVars
      BY <1>1 DEF vars, uploaderVars, KnownFiles, InQueue
    <2> QED
      BY <2>1, <2>2, OthersKeep DEF StepBegins
  <1>2. CASE Next
    <2>1. StepBegins
      BY <1>2, UploadersKeep, KnownGrows DEF StepBegins, DialogInv
    <2>2. CASE OpenDialog(0) \/ \E s \in DOMAIN images : OpenDialog(s)
      BY <2>1, <2>2, OpenKeeps
    <2>3. CASE \E s \in DOMAIN images : DeleteSpuInfo(s)
      BY <2>1, <2>3, DeleteSpuKeeps
    <2>4. CASE CloseSpu
      BY <2>1, <2>4, CloseKeeps
    <2>5. CASE SaveSpu
      BY <2>1, <2>5, SaveKeeps
    <2>6. CASE \E c \in Images : Pick(c)
      BY <2>1, <2>6, PickKeeps
    <2>7. CASE \E i \in DOMAIN rows : DeleteImage(i)
      BY <2>1, <2>7, DeleteImageKeeps
    <2>8. CASE \E load \in loads : ShowImages(load) \/ LoadFails(load)
      BY <2>1, <2>8, ShowKeeps, LoadFailsKeeps
    <2>9. CASE \E post \in posts : ServeSave(post) \/ RefuseSave(post) \/ SpuSaved(post)
      BY <2>1, <2>9, ServeKeeps, RefuseKeeps, SavedKeeps
    <2>10. CASE \E f \in Files : UploadSuccess(f)
      BY <2>1, <2>10, SuccessKeeps
    <2>11. CASE \/ ClickUpload
                \/ \E u \in Uploaders : Timers(u)
                \/ \E f \in Files : Prepare(f) \/ Answer(f) \/ UploadFails(f)
      <3>1. UNCHANGED dialogVars
        BY <2>11 DEF ClickUpload, Timers, Prepare, Answer, UploadFails
      <3> QED
        BY <2>1, <3>1, OthersKeep
    <2> QED
      BY <1>2, <2>2, <2>3, <2>4, <2>5, <2>6, <2>7, <2>8, <2>9, <2>10, <2>11 DEF Next
  <1> QED
    BY <1>1, <1>2

-----------------------------------------------------------------------------

\* The list, the forms and the table hold images with paths, whatever the order of
\* clicks and answers.
THEOREM DialogTypes == Spec => []TypeOK
  <1>1. DialogInv => TypeOK
    BY DEF DialogInv
  <1> QED
    BY <1>1, DialogInit, DialogStep, PTL DEF Spec

\* A path never stands beside another image, in the list (updateRow after
\* uploadSuccess, loadData) or in the table (saveSpu, updateSpu).
THEOREM PathsStayWithImages == Spec => []PathOfOwnImage
  <1>1. DialogInv => PathOfOwnImage
    BY DEF DialogInv, ListsSound, Sound, PathOfOwnImage
  <1> QED
    BY <1>1, DialogInit, DialogStep, PTL DEF Spec

\* What updateSpu and saveSpu write is what the user left in the dialog, for the SPU it
\* was opened for, if the user waits for each answer; less the images that the dialog
\* never got because selectSpuImage was answered with an error.
THEOREM SavesWhatWasEdited == Spec => SavedAsEdited
  <1>1. ASSUME DialogInv, [Next]_vars, ~hasty,
               NEW s \in DOMAIN images', images'[s] # <<>>,
               s \in DOMAIN images => images'[s] # images[s]
        PROVE  /\ {images'[s][i].file : i \in DOMAIN images'[s]} = wanted \ missed
               /\ dialog.spu \in {0, s}
    <2>1. images' # images
      BY <1>1
    <2>2. CASE \E t \in DOMAIN images : DeleteSpuInfo(t)
      <3>1. PICK t \in DOMAIN images : DeleteSpuInfo(t)
        BY <2>2
      <3>2. PICK n \in 1..MaxSpu : images \in [1..n -> Seq(Image)]
        BY <1>1 DEF DialogInv, TypeOK
      <3>3. /\ DOMAIN images' = DOMAIN images /\ images'[t] = <<>>
            /\ \A r \in DOMAIN images : r # t => images'[r] = images[r]
        BY <3>1, <3>2 DEF DeleteSpuInfo
      <3>4. s \in DOMAIN images
        BY <1>1, <3>3
      <3>5. images'[s] # images[s] /\ images'[s] # <<>>
        BY <1>1, <3>4
      <3> QED
        BY <3>3, <3>4, <3>5
    <2>3. CASE \E post \in posts : ServeSave(post)
      <3>1. PICK post \in posts : ServeSave(post)
        BY <2>3
      <3>2. ~post.saved /\ post.spu = dialog.spu /\ FilesOf(post.images) = wanted \ missed
        BY <1>1, <3>1 DEF ServeSave, DialogInv, OneAtATime
      <3>3. PICK n \in 1..MaxSpu : images \in [1..n -> Seq(Image)]
        BY <1>1 DEF DialogInv, TypeOK
      <3>4. images'[s] = post.images /\ post.spu \in {0, s}
        <4>1. CASE /\ post.spu # 0
                   /\ images' = [images EXCEPT ![post.spu] = ReplaceImages(@, post.images)]
          BY <1>1, <3>3, <4>1 DEF ReplaceImages
        <4>2. CASE post.spu = 0 /\ \E r : images' = [t \in DOMAIN images \cup {r} |->
                                                        IF t = r THEN post.images ELSE images[t]]
          BY <1>1, <4>2
        <4> QED
          BY <3>1, <4>1, <4>2 DEF ServeSave
      <3> QED
        BY <3>2, <3>4 DEF FilesOf
    <2>4. \/ \E t \in DOMAIN images : DeleteSpuInfo(t)
          \/ \E post \in posts : ServeSave(post)
      BY <1>1, <2>1 DEF Next, vars, dialogVars, OpenDialog, CloseSpu, ClickUpload, SaveSpu, Pick,
                        DeleteImage, ShowImages, LoadFails, RefuseSave, SpuSaved, Timers, Prepare,
                        Answer, UploadFails, UploadSuccess
    <2> QED
      BY <2>2, <2>3, <2>4
  <1>2. DialogInv /\ [Next]_vars =>
            [~hasty => \A s \in DOMAIN images' :
                (images'[s] # <<>> /\ (s \in DOMAIN images => images'[s] # images[s])) =>
                    /\ {images'[s][i].file : i \in DOMAIN images'[s]} = wanted \ missed
                    /\ dialog.spu \in {0, s}]_vars
    BY <1>1
  <1> QED
    BY <1>2, DialogInit, DialogStep, PTL DEF Spec, SavedAsEdited
=============================================================================
