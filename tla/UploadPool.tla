----------------------------- MODULE UploadPool -----------------------------
(***************************************************************************)
(* What the uploaders promise (the options auto and threads of WebUploader):*)
(* files wait until the user asks for the upload, at most Threads files of   *)
(* an uploader are on their way at a time, and each is sent once, with one  *)
(* end, good or bad.                                                        *)
(***************************************************************************)
EXTENDS Naturals, FiniteSets

CONSTANTS
    Files,   \* pairs: the first part is the uploader of the file
    Threads

VARIABLES
    waiting,  \* files that shall be uploaded
    active,   \* files on their way
    ended     \* files that were uploaded or have failed

poolVars == <<waiting, active, ended>>

PoolInit == waiting = {} /\ active = {} /\ ended = {}

\* One click may ask for the files of several uploaders.
Request(files) ==
    /\ files \cap (waiting \cup active \cup ended) = {}
    /\ waiting' = waiting \cup files
    /\ UNCHANGED <<active, ended>>

Start(f) ==
    /\ f \in waiting
    /\ Cardinality({g \in active : g[1] = f[1]}) < Threads
    /\ waiting' = waiting \ {f}
    /\ active' = active \cup {f}
    /\ UNCHANGED ended

End(f) ==
    /\ f \in active
    /\ active' = active \ {f}
    /\ ended' = ended \cup {f}
    /\ UNCHANGED waiting

\* The file cannot be prepared.
Refuse(f) ==
    /\ f \in waiting
    /\ waiting' = waiting \ {f}
    /\ ended' = ended \cup {f}
    /\ UNCHANGED active

PoolNext ==
    \/ \E files \in SUBSET Files : Request(files)
    \/ \E f \in Files : Start(f) \/ End(f) \/ Refuse(f)

PoolSpec == PoolInit /\ [][PoolNext]_poolVars
=============================================================================
