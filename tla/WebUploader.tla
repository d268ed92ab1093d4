---------------------------- MODULE WebUploader ----------------------------
(***************************************************************************)
(* The uploaders of webuploader.js as spuInfoPage.html creates them: files  *)
(* are not cut into chunks, the upload starts on demand (auto: false), and   *)
(* nothing is paused, cancelled, removed or retried.                        *)
(*                                                                         *)
(* Everything runs in the one thread of the browser; an action is a task:   *)
(* a click, a timer, an answer of the server.  The handlers that the page    *)
(* has on uploadProgress and uploadSuccess run inside the tasks, and an      *)
(* exception of theirs ends the task where it stands: an action with the     *)
(* parameter heard does so when heard is false.  Several timers with _tick  *)
(* are as good as one: the task of one sets the next if it finds work.      *)
(***************************************************************************)
EXTENDS Integers, Sequences, SequencesExt, FiniteSets

CONSTANTS
    Uploaders,  \* one for each call of WebUploader.create
    Images,     \* files on the disk of the user
    Files,      \* bound: the image that may be picked with each uploader
    Threads,    \* opts.threads
    NoFile

\* The duplicate validator lets a file on the disk into an uploader once, so that
\* the pair stands for the id WU_FILE_n, which no two files of the page share.
ASSUME UploaderAssumption ==
    /\ Files \subseteq Uploaders \X Images /\ NoFile \notin Files
    /\ Threads \in Nat \ {0}

VARIABLES
    queue,     \* queue[u]: the files of uploader u, in the order in which they came
    status,    \* status[f]
    response,  \* response[f]: what became of the request that sends f
    runing,    \* runing[u]: between startUpload and uploadFinished
    ticks,     \* ticks[u]: a timer with _tick is set, or waits for the promise
    promise,   \* promise[u]: the file that before-send-file is preparing
    pool,      \* pool[u]: the files on their way
    remaning   \* remaning[u]: how many these are

uploaderVars == <<queue, status, response, runing, ticks, promise, pool, remaning>>

\* "loaded": a status 200, for which after-send-file is under way; "lost": a handler
\* of the page threw, and what should follow has not happened.
UploaderTypeOK ==
    /\ queue \in [Uploaders -> Seq(Files)]
    /\ status \in [Files -> {"none", "inited", "queued", "progress", "complete", "error"}]
    /\ response \in [Files -> {"none", "sent", "loaded", "lost"}]
    /\ runing \in [Uploaders -> BOOLEAN]
    /\ ticks \in [Uploaders -> BOOLEAN]
    /\ promise \in [Uploaders -> Files \cup {NoFile}]
    /\ pool \in [Uploaders -> SUBSET Files]
    /\ remaning \in [Uploaders -> Nat]

UploaderInit ==
    /\ queue = [u \in Uploaders |-> <<>>]
    /\ status = [f \in Files |-> "none"]
    /\ response = [f \in Files |-> "none"]
    /\ runing = [u \in Uploaders |-> FALSE]
    /\ ticks = [u \in Uploaders |-> FALSE]
    /\ promise = [u \in Uploaders |-> NoFile]
    /\ pool = [u \in Uploaders |-> {}]
    /\ remaning = [u \in Uploaders |-> 0]

InQueue(f) == f \in ToSet(queue[f[1]])

\* fetch: the first file of the queue that waits.
IsNext(f) ==
    \E i \in DOMAIN queue[f[1]] :
        /\ queue[f[1]][i] = f /\ status[f] = "queued"
        /\ \A j \in 1..(i - 1) : status[queue[f[1]][j]] # "queued"

NumOfQueue(u) == Cardinality({f \in ToSet(queue[u]) : status[f] = "queued"})

-----------------------------------------------------------------------------

\* A file that the validators accept.
AddFile(f) ==
    /\ ~InQueue(f)
    /\ queue' = [queue EXCEPT ![f[1]] = Append(@, f)]
    /\ status' = [status EXCEPT ![f] = "inited"]
    /\ UNCHANGED <<response, runing, ticks, promise, pool, remaning>>

\* Mutant: every file of the queue, not only the new ones.
StatusOnUploadAll(f) == IF InQueue(f) THEN "queued" ELSE status[f]

StatusOnUpload(f) == IF status[f] = "inited" THEN "queued" ELSE status[f]

\* upload() of all uploaders that have files.
StartUpload ==
    /\ status' = [f \in Files |-> StatusOnUpload(f)]
    /\ runing' = [u \in Uploaders |-> runing[u] \/ queue[u] # <<>>]
    /\ ticks' = [u \in Uploaders |-> ticks[u] \/ (queue[u] # <<>> /\ ~runing[u])]
    /\ UNCHANGED <<queue, response, promise, pool, remaning>>

\* _tick finds a place and a file, which _prepareNextFile hands to before-send-file.
\* fn sets the next timer.
TickPrepares(u) ==
    /\ ticks[u] /\ promise[u] = NoFile
    /\ runing[u] /\ Cardinality(pool[u]) < Threads
    /\ \E f \in Files :
        /\ f[1] = u /\ IsNext(f)
        /\ status' = [status EXCEPT ![f] = "progress"]
        /\ promise' = [promise EXCEPT ![u] = f]
    /\ ticks' = [ticks EXCEPT ![u] = FALSE]
    /\ UNCHANGED <<queue, response, runing, pool, remaning>>

\* _tick finds no place or no file, and the uploader may be done.
TickEnds(u) ==
    /\ ticks[u] /\ promise[u] = NoFile
    /\ ~(runing[u] /\ Cardinality(pool[u]) < Threads /\ NumOfQueue(u) > 0)
    /\ runing' = [runing EXCEPT ![u] = @ /\ (remaning[u] # 0 \/ NumOfQueue(u) > 0)]
    /\ ticks' = [ticks EXCEPT ![u] = FALSE]
    /\ UNCHANGED <<queue, status, response, promise, pool, remaning>>

\* _startSend and _doSend.  Nothing else can happen to the file in the command
\* before-send that lies between them.
Prepared(f) ==
    /\ promise[f[1]] = f
    /\ promise' = [promise EXCEPT ![f[1]] = NoFile]
    /\ pool' = [pool EXCEPT ![f[1]] = @ \cup {f}]
    /\ remaning' = [remaning EXCEPT ![f[1]] = @ + 1]
    /\ response' = [response EXCEPT ![f] = "sent"]
    /\ ticks' = [ticks EXCEPT ![f[1]] = TRUE]
    /\ UNCHANGED <<queue, status, runing>>

\* A jpeg that cannot be compressed.
PrepareFails(f) ==
    /\ promise[f[1]] = f
    /\ promise' = [promise EXCEPT ![f[1]] = NoFile]
    /\ status' = [status EXCEPT ![f] = "error"]
    /\ ticks' = [ticks EXCEPT ![f[1]] = TRUE]
    /\ UNCHANGED <<queue, response, runing, pool, remaning>>

\* Mutant: destroy is triggered by the finished upload only.
UploadCompleteOnSuccess(f, st) ==
    IF st = "complete"
    THEN /\ pool' = [pool EXCEPT ![f[1]] = @ \ {f}]
         /\ remaning' = [remaning EXCEPT ![f[1]] = @ - 1]
         /\ ticks' = [ticks EXCEPT ![f[1]] = TRUE]
    ELSE UNCHANGED <<pool, remaning, ticks>>

\* Mutant: the file is taken from remaning by destroy and by uploadComplete.
UploadCompleteTwice(f, st) ==
    /\ pool' = [pool EXCEPT ![f[1]] = @ \ {f}]
    /\ remaning' = [remaning EXCEPT ![f[1]] = @ - 2]
    /\ ticks' = [ticks EXCEPT ![f[1]] = TRUE]

\* Mutant: the place is given back without a new timer.
UploadCompleteWithoutTick(f, st) ==
    /\ pool' = [pool EXCEPT ![f[1]] = @ \ {f}]
    /\ remaning' = [remaning EXCEPT ![f[1]] = @ - 1]
    /\ UNCHANGED ticks

\* The handler of uploadComplete destroys the transport, whose handler of destroy
\* calls _popBlock.
UploadComplete(f, st) ==
    /\ pool' = [pool EXCEPT ![f[1]] = @ \ {f}]
    /\ remaning' = [remaning EXCEPT ![f[1]] = @ - 1]
    /\ ticks' = [ticks EXCEPT ![f[1]] = TRUE]

\* The event load.  It passes through progress first, where a handler of the page
\* may throw; the timer of the transport then repeats progress and exception.
Load(f, heard) ==
    /\ response[f] = "sent"
    /\ response' = [response EXCEPT ![f] = IF heard THEN "loaded" ELSE "lost"]
    /\ UNCHANGED <<queue, status, runing, ticks, promise, pool, remaning>>

\* The event error: status 400 or more, no connection, or two minutes without progress.
Fail(f, heard) ==
    /\ response[f] = "sent"
    /\ \/ /\ heard
          /\ response' = [response EXCEPT ![f] = "none"]
          /\ status' = [status EXCEPT ![f] = "error"]
          /\ UploadComplete(f, "error")
       \/ /\ ~heard
          /\ response' = [response EXCEPT ![f] = "lost"]
          /\ UNCHANGED <<status, pool, remaning, ticks>>
    /\ UNCHANGED <<queue, runing, promise>>

\* after-send-file in _finishFile.  The handler of uploadSuccess comes before the
\* event uploadComplete.
Finish(f, heard) ==
    /\ response[f] = "loaded"
    /\ status' = [status EXCEPT ![f] = "complete"]
    /\ \/ /\ heard
          /\ response' = [response EXCEPT ![f] = "none"]
          /\ UploadComplete(f, "complete")
       \/ /\ ~heard
          /\ response' = [response EXCEPT ![f] = "lost"]
          /\ UNCHANGED <<pool, remaning, ticks>>
    /\ UNCHANGED <<queue, runing, promise>>

-----------------------------------------------------------------------------

\* The files in the pool are those whose request has no end yet, remaning is their
\* number, and there are not more than places: whatever order the answers, failures,
\* timeouts and clicks come in, no place is given back twice or forgotten
\* (_startSend, _popBlock).
PoolIsOnTheWay ==
    \A u \in Uploaders :
        /\ pool[u] = {f \in Files : f[1] = u /\ response[f] # "none"}
        /\ remaning[u] = Cardinality(pool[u])
        /\ Cardinality(pool[u]) <= Threads

Waiting == {f \in Files : status[f] = "queued" \/ promise[f[1]] = f}
Active  == UNION {pool[u] : u \in Uploaders}
Ended   == {f \in Files : status[f] \in {"complete", "error"} /\ f \notin pool[f[1]]}

UP == INSTANCE UploadPool WITH waiting <- Waiting, active <- Active, ended <- Ended

\* The uploaders work as UploadPool says: files are sent after a click and once, at
\* most Threads of an uploader at a time, although clicks, timers and answers call
\* into startUpload and _tick in any order.
UploadsInTurn == UP!PoolSpec
=============================================================================
