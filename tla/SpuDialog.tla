----------------------------- MODULE SpuDialog -----------------------------
(***************************************************************************)
(* The images of an SPU in the back office: the dialog of spuListPage.html  *)
(* and spuInfoPage.html with its list of images, the uploaders of module    *)
(* WebUploader, and SpuController and SpuServiceImpl behind them.            *)
(*                                                                         *)
(* The dialog is one element of the page, filled anew each time it is       *)
(* opened.  Requests that it sent before stay under way and are answered    *)
(* into whatever it shows by then; every opening creates another uploader,  *)
(* and the older ones go on uploading.  A request that is never answered is *)
(* one whose answer is delayed for ever.  Names, sale attributes and the    *)
(* progress of an upload are left out.                                      *)
(***************************************************************************)
EXTENDS WebUploader

CONSTANTS
    MaxDialogs,  \* bound: how often the dialog is opened
    MaxSpu,      \* bound: SPUs
    MaxSaves,    \* bound: how often it is saved
    OldFiles,    \* the images of SPU 1 at the start
    NoUrl        \* imgUrl is undefined

ASSUME DialogAssumption ==
    /\ MaxDialogs \in Nat /\ Uploaders = 1..MaxDialogs
    /\ MaxSpu \in Nat \ {0} /\ MaxSaves \in Nat
    /\ IsFiniteSet(OldFiles) /\ OldFiles \cap Files = {}
    /\ NoUrl \notin OldFiles \cup Files

VARIABLES
    opened,  \* how often the dialog was opened; the last uploader has the picker
    dialog,  \* whether the dialog is open, and the field spuId (0: empty)
    rows,    \* the rows of spuImgDg
    loads,   \* requests selectSpuImage: what for, and what it may be answered
    posts,   \* requests saveSpu: the form, and whether it has been saved
    saves,   \* how often the dialog was saved
    images,  \* table spu_image: images[s] for each SPU s
    wanted,  \* history: the images that the user has put into the dialog and left there
    missed,  \* history: those of them that the list never got, as selectSpuImage failed
    hasty    \* history: the user went on before the page had its answer

dialogVars == <<opened, dialog, rows, loads, posts, saves, images, wanted, missed, hasty>>
vars == <<uploaderVars, dialogVars>>

AllFiles == OldFiles \cup Files

\* picked: the row has a fileId, which rows from the database do not.
Row   == [file : AllFiles, picked : BOOLEAN, url : AllFiles \cup {NoUrl}]
Image == [file : AllFiles, url : AllFiles \cup {NoUrl}]

TypeOK ==
    /\ UploaderTypeOK
    /\ opened \in 0..MaxDialogs
    /\ dialog \in [open : BOOLEAN, spu : {0} \cup DOMAIN images]
    /\ rows \in Seq(Row)
    /\ loads \subseteq [id : 0..MaxDialogs, spu : DOMAIN images, answer : Seq(Image)]
    /\ posts \subseteq [id : 0..MaxSaves, spu : {0} \cup DOMAIN images, saved : BOOLEAN,
                       images : Seq(Image)]
    /\ saves \in 0..MaxSaves
    /\ \E n \in 1..MaxSpu : images \in [1..n -> Seq(Image)]
    /\ wanted \subseteq AllFiles /\ missed \subseteq AllFiles
    /\ hasty \in BOOLEAN

Init ==
    /\ UploaderInit
    /\ opened = 0
    /\ dialog = [open |-> FALSE, spu |-> 0]
    /\ rows = <<>>
    /\ loads = {} /\ posts = {} /\ saves = 0
    /\ images = [s \in {1} |-> LET order == SetToSeq(OldFiles) IN
                    [i \in DOMAIN order |-> [file |-> order[i], url |-> order[i]]]]
    /\ wanted = {} /\ missed = {}
    /\ hasty = FALSE

\* What the user does is of account while the page waits for nothing.
Does(images_) ==
    /\ hasty' = (hasty \/ loads # {} \/ posts # {})
    /\ wanted' = IF hasty' THEN {} ELSE images_

IsRowOf(row, f) == row.picked /\ row.file = f
Shown(f) == \E i \in DOMAIN rows : IsRowOf(rows[i], f)

-----------------------------------------------------------------------------
(* The user. *)

\* Mutant: the list keeps the rows of the last time.
RowsAsTheyWere == rows

\* loadData of no rows.
Cleared == <<>>

\* addSpuInfo, and editSpuInfo with the SPU chosen in the list; initSpuInfoDlg.  The
\* dialog is not modal: it may be open already.
OpenDialog(s) ==
    /\ opened < MaxDialogs
    /\ opened' = opened + 1
    /\ dialog' = [open |-> TRUE, spu |-> s]
    /\ rows' = Cleared
    /\ loads' = IF s = 0 THEN loads
                ELSE loads \cup {[id |-> opened, spu |-> s, answer |-> images[s]]}
    /\ Does(IF s = 0 THEN {} ELSE {images[s][i].file : i \in DOMAIN images[s]})
    /\ missed' = {}
    /\ UNCHANGED <<uploaderVars, posts, saves, images>>

CloseSpu ==
    /\ dialog.open
    /\ dialog' = [dialog EXCEPT !.open = FALSE]
    /\ UNCHANGED <<uploaderVars, opened, rows, loads, posts, saves, images, wanted, missed, hasty>>

\* The picker and the handler of fileQueued.
Pick(c) ==
    LET f == <<opened, c>> IN
    /\ dialog.open /\ f \in Files
    /\ AddFile(f)
    /\ rows' = Append(rows, [file |-> f, picked |-> TRUE, url |-> NoUrl])
    /\ Does(wanted \cup {f})
    /\ UNCHANGED <<opened, dialog, loads, posts, saves, images, missed>>

\* A click on spuImgUploadBtn, on which every uploader made so far has a handler.
ClickUpload ==
    /\ dialog.open
    /\ \E u \in Uploaders : queue[u] # <<>>
    /\ StartUpload
    /\ UNCHANGED dialogVars

\* deleteImage.  No uploader hears of it.
DeleteImage(i) ==
    /\ dialog.open /\ i \in DOMAIN rows
    /\ rows' = RemoveAt(rows, i)
    /\ Does(wanted \ {rows[i].file})
    /\ UNCHANGED <<uploaderVars, opened, dialog, loads, posts, saves, images, missed>>

SaveSpu ==
    /\ dialog.open
    /\ saves < MaxSaves
    /\ saves' = saves + 1
    /\ posts' = posts \cup {[id |-> saves, spu |-> dialog.spu, saved |-> FALSE,
          images |-> [i \in DOMAIN rows |-> [file |-> rows[i].file, url |-> rows[i].url]]]}
    /\ Does(wanted)
    /\ UNCHANGED <<uploaderVars, opened, dialog, rows, loads, images, missed>>

\* deleteSpuInfo, in the list behind the dialog.  It takes the images along, and asks
\* nobody who has the SPU open.
DeleteSpuInfo(s) ==
    /\ images[s] # <<>>
    /\ images' = [images EXCEPT ![s] = <<>>]
    /\ Does(wanted)
    /\ UNCHANGED <<uploaderVars, opened, dialog, rows, loads, posts, saves, missed>>

-----------------------------------------------------------------------------
(* Answers of the server. *)

\* selectSpuImage: read soon after it was asked for or just before the answer arrives.
\* The loader's success: loadData into the list that there is now.
ShowImages(load) ==
    /\ load \in loads
    /\ loads' = loads \ {load}
    /\ \E answer \in {load.answer, images[load.spu]} :
        rows' = [i \in DOMAIN answer |->
                    [file |-> answer[i].file, picked |-> FALSE, url |-> answer[i].url]]
    /\ UNCHANGED <<uploaderVars, opened, dialog, posts, saves, images, wanted, missed, hasty>>

\* The loader's error: the list stays as it is, and the page is not told (onLoadError
\* is empty).
LoadFails(load) ==
    /\ load \in loads
    /\ loads' = loads \ {load}
    /\ missed' = wanted
    /\ UNCHANGED <<uploaderVars, opened, dialog, rows, posts, saves, images, wanted, hasty>>

\* Mutant: updateSpu inserts without deleting first.
InsertImages(old, new) == old \o new

\* updateSpu deletes the images of the SPU and inserts those of the form.
ReplaceImages(old, new) == new

\* saveSpu and updateSpu, which need a row.
ServeSave(post) ==
    /\ post \in posts /\ ~post.saved
    /\ post.images # <<>>
    /\ \/ /\ post.spu # 0
          /\ images' = [images EXCEPT ![post.spu] = ReplaceImages(@, post.images)]
       \/ /\ post.spu = 0 /\ Cardinality(DOMAIN images) < MaxSpu
          /\ LET s == Cardinality(DOMAIN images) + 1 IN
             images' = [t \in DOMAIN images \cup {s} |->
                           IF t = s THEN post.images ELSE images[t]]
    /\ posts' = (posts \ {post}) \cup {[post EXCEPT !.saved = TRUE]}
    /\ UNCHANGED <<uploaderVars, opened, dialog, rows, loads, saves, wanted, missed, hasty>>

\* A form without images or sale attributes is a NullPointerException and a rollback;
\* the page has no handler for it.
RefuseSave(post) ==
    /\ post \in posts /\ ~post.saved
    /\ posts' = posts \ {post}
    /\ UNCHANGED <<uploaderVars, opened, dialog, rows, loads, saves, images, wanted, missed, hasty>>

\* The callback of $.post clears and closes the dialog, whatever it shows by now.
SpuSaved(post) ==
    /\ post \in posts /\ post.saved
    /\ posts' = posts \ {post}
    /\ rows' = Cleared
    /\ dialog' = [open |-> FALSE, spu |-> 0]
    /\ UNCHANGED <<uploaderVars, opened, loads, saves, images, wanted, missed, hasty>>

\* An answer of fileUpload.
Answer(f) == Load(f, Shown(f)) /\ UNCHANGED dialogVars

\* The file store refused the file (status 500), the connection broke, or a timeout.
UploadFails(f) == Fail(f, Shown(f)) /\ UNCHANGED dialogVars

\* Mutant: the row that the file had when it was queued.
WithUrlAtQueue(f, url) ==
    [i \in DOMAIN rows |->
        IF i \in DOMAIN queue[f[1]] /\ queue[f[1]][i] = f
        THEN [rows[i] EXCEPT !.url = url] ELSE rows[i]]

\* getRowIndex and updateRow.
WithUrl(f, url) ==
    [i \in DOMAIN rows |-> IF IsRowOf(rows[i], f) THEN [rows[i] EXCEPT !.url = url] ELSE rows[i]]

\* The handler of uploadSuccess.  The url f is the path in the file store or, when the
\* store could not be reached (uploadImage catches the exception), its bare address.
UploadSuccess(f) ==
    /\ Finish(f, Shown(f))
    /\ rows' = WithUrl(f, f)
    /\ UNCHANGED <<opened, dialog, loads, posts, saves, images, wanted, missed, hasty>>

Timers(u) == (TickPrepares(u) \/ TickEnds(u)) /\ UNCHANGED dialogVars

Prepare(f) == (Prepared(f) \/ PrepareFails(f)) /\ UNCHANGED dialogVars

Next ==
    \/ OpenDialog(0) \/ \E s \in DOMAIN images : OpenDialog(s) \/ DeleteSpuInfo(s)
    \/ CloseSpu \/ ClickUpload \/ SaveSpu
    \/ \E c \in Images : Pick(c)
    \/ \E i \in DOMAIN rows : DeleteImage(i)
    \/ \E load \in loads : ShowImages(load) \/ LoadFails(load)
    \/ \E post \in posts : ServeSave(post) \/ RefuseSave(post) \/ SpuSaved(post)
    \/ \E u \in Uploaders : Timers(u)
    \/ \E f \in Files : Prepare(f) \/ Answer(f) \/ UploadFails(f) \/ UploadSuccess(f)

\* Timers run, images are compressed or not, and requests are answered or time out.
Fairness ==
    /\ \A u \in Uploaders : WF_vars(Timers(u))
    /\ \A f \in Files : WF_vars(Prepare(f)) /\ WF_vars(Answer(f) \/ UploadFails(f))
                        /\ WF_vars(UploadSuccess(f))

Spec == Init /\ [][Next]_vars /\ Fairness

-----------------------------------------------------------------------------

\* A path in the list or in the database is the path of the very image beside which it
\* stands, although the answers come in any order, rows before it may have been deleted,
\* and the list may have been emptied and filled again for another SPU.
PathOfOwnImage ==
    /\ \A i \in DOMAIN rows : rows[i].url \in {NoUrl, rows[i].file}
    /\ \A s \in DOMAIN images : \A i \in DOMAIN images[s] :
           images[s][i].url \in {NoUrl, images[s][i].file}

\* What is saved for an SPU are the images that it had or that were picked, less those
\* that were deleted, as long as the user waits for every answer; it is saved for the
\* SPU that the dialog was opened for.  The images that the list never got, because
\* selectSpuImage was answered with an error, are lost with the save, and no others.
SavedAsEdited ==
    [][~hasty => \A s \in DOMAIN images' :
          (images'[s] # <<>> /\ (s \in DOMAIN images => images'[s] # images[s])) =>
              /\ {images'[s][i].file : i \in DOMAIN images'[s]} = wanted \ missed
              /\ dialog.spu \in {0, s}]_vars

\* A file whose upload was asked for is uploaded or fails, unless the row of some file
\* of the same uploader went away during its upload: then a place is lost, and without
\* further answers nobody calls _tick for the files that wait.
UploadEnds ==
    \A f \in Files :
        status[f] = "queued" ~>
            \/ status[f] \in {"complete", "error"}
            \/ \E g \in pool[f[1]] : response[g] = "lost"
=============================================================================
