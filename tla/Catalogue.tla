----------------------------- MODULE Catalogue -----------------------------
(***************************************************************************)
(* Brands, categories and products with their images: the row is in        *)
(* PostgreSQL, the image at Cloudinary, and an administrator's request     *)
(* changes the one and the other in separate steps.  The life of one item  *)
(* is modelled; its kind is chosen at the start.                           *)
(*                                                                         *)
(* Brands and categories share one algorithm: the old image goes first,    *)
(* then the new one is uploaded, then the row is updated, without a        *)
(* transaction.  Products upload first, write the row in a transaction and *)
(* clean up afterwards.                                                    *)
(*                                                                         *)
(* A step is one statement or one call of Cloudinary; a failure, with or   *)
(* without its effect, a client that leaves and a crash may come at any of *)
(* them.  Cloudinary may also refuse: its client library then answers with *)
(* err = nil and the refusal in a field of the result that the service     *)
(* does not read, so a refused deletion counts as done and a refused       *)
(* upload as one whose URL is empty.                                       *)
(*                                                                         *)
(* An image is known by its public id, folder and name: uploading          *)
(* under an id that exists replaces the image.  The name holds the id of   *)
(* the item and the client's file name, so items do not share images.      *)
(***************************************************************************)
EXTENDS Naturals

CONSTANTS
  Kinds,   \* a subset of {"brand", "category", "product"}
  Files,   \* file names a client may send
  NoFile,  \* a request without a file, a row without an image
  NoRow,
  Jobs     \* concurrent requests

ASSUME CatalogueAssumption ==
  /\ Kinds \subseteq {"brand", "category", "product"}
  /\ NoFile \notin Files
  /\ NoRow \notin [img : Files \cup {NoFile}, live : BOOLEAN]

VARIABLES
  kind,
  row,        \* the row: its image_url (as the file it shows), and deleted_at
  store,      \* Cloudinary: the public ids that exist
  job,        \* what each request has read and is about to do
  lost,       \* history of a brand's or category's images: may be gone though the row shows it
  stray       \* history: may be stored though no live row shows it

vars == <<kind, row, store, job, lost, stray>>

-----------------------------------------------------------------------------
(* Names of images.                                                        *)

Id(form, file) == [form |-> form, file |-> file]

PublicId(file) == Id("folder/name", file)
BareName(file) == Id("name", file)
Url(file) == Id("url", file)

\* Mutant: the URL is used as it is.
ExtractNothing(url) == url

\* ExtractPublicID cuts the version and the extension off the path of the URL.
ExtractPublicID(url) == PublicId(url.file)

\* Mutants: the deletions name the image they seem to mean.
CleanupProper(file) == PublicId(file)
CompensationProper(file) == PublicId(file)

\* Products delete the old image under its URL, and all kinds compensate under
\* the name without its folder: no image has such an id.
CleanupId(file) == Url(file)
CompensationId(file) == BareName(file)

MaybeFile == Files \cup {NoFile}
NoJob == [op |-> "none", stage |-> "none"]

Job ==
       {NoJob}
  \cup [op : {"create"}, stage : {"upload", "commit"}, file : MaybeFile]
  \cup [op : {"update"}, stage : {"deleteOld", "upload", "write", "cleanup"},
        seen : MaybeFile, file : MaybeFile, url : MaybeFile]
  \cup [op : {"delete"}, stage : {"deleteOld", "softDelete", "cleanup"},
        seen : MaybeFile]

TypeOK ==
  /\ kind \in Kinds
  /\ row \in {NoRow} \cup [img : MaybeFile, live : BOOLEAN]
  /\ store \subseteq {PublicId(f) : f \in Files}
  /\ job \in [Jobs -> Job]
  /\ lost \subseteq Files /\ stray \subseteq Files

Init ==
  /\ kind \in Kinds
  /\ row = NoRow
  /\ store = {}
  /\ job = [r \in Jobs |-> NoJob]
  /\ lost = {} /\ stray = {}

-----------------------------------------------------------------------------
(* Helpers.                                                                *)

Goto(r, stage) == job' = [job EXCEPT ![r].stage = stage]
End(r) == job' = [job EXCEPT ![r] = NoJob]

At(r, op, stage) == job[r].op = op /\ job[r].stage = stage

Live == row # NoRow /\ row.live
Product == kind = "product"

\* Mutant: the upload forgets the folder.
UploadBare(file) == store' = store \cup {BareName(file)}

UploadImage(file) == store' = store \cup {PublicId(file)}
DeleteImage(id) == store' = store \ {id}

(* The history: which image may be missing, and which may have stayed, and  *)
(* why.  It tells one image from another: that a request failed, or that   *)
(* two overlapped, explains nothing about the images they did not touch.   *)

\* The request has deleted, or may have deleted, the image the row showed it.
PastDeletion(r) ==
  /\ ~Product
  /\ job[r].op \in {"update", "delete"}
  /\ job[r].seen # NoFile
  /\ job[r].op = "update" => job[r].file # NoFile
  /\ job[r].stage # "deleteOld"

\* What a request has uploaded and not yet written into the row.
Uploaded(r) ==
  CASE At(r, "create", "commit") -> {job[r].file}
    [] At(r, "update", "write") /\ job[r].file # NoFile -> {job[r].url}
    [] OTHER -> {}

\* Another request is about to write an image that is deleted now.
Awaited(r, file) == \E q \in Jobs \ {r} : file \in Uploaded(q)

\* Another request believes to have deleted an image that is uploaded now.
Contested(r, file) == \E q \in Jobs \ {r} : PastDeletion(q) /\ job[q].seen = file

\* Nothing is claimed of a product's images that stay, and none is lost.
History(gone, stayed) ==
  /\ lost' = IF Product THEN lost ELSE gone \cap Files
  /\ stray' = IF Product THEN stray ELSE stayed \cap Files

NoHistory == UNCHANGED <<lost, stray>>

\* An upload that arrives.
Upload(r) ==
  /\ UploadImage(job[r].file)
  /\ History(lost \ {job[r].file},
             IF Contested(r, job[r].file) THEN stray \cup {job[r].file}
                                          ELSE stray \ {job[r].file})

\* The deletion of the old image, done or refused.
DestroySeen(r) ==
  /\ DeleteImage(ExtractPublicID(Url(job[r].seen)))
  /\ History(IF Awaited(r, job[r].seen) THEN lost \cup {job[r].seen} ELSE lost,
             stray \ {job[r].seen})

DestroyRefused(r) == store' = store /\ History(lost, stray \cup {job[r].seen})

-----------------------------------------------------------------------------
(* Create: INSERT, upload, UPDATE and COMMIT in one transaction.           *)

\* The id is new: nothing is stored under it.
Create(r, file) ==
  /\ row = NoRow /\ store = {}
  /\ \A q \in Jobs : job[q] = NoJob
  /\ job' = [job EXCEPT ![r] =
               [op |-> "create", file |-> file,
                stage |-> IF file = NoFile THEN "commit" ELSE "upload"]]
  /\ UNCHANGED <<kind, row, store>> /\ NoHistory

\* A refused upload leaves the URL empty: the row gets no image.
CreateUpload(r) ==
  /\ At(r, "create", "upload")
  /\ \/ Upload(r) /\ Goto(r, "commit")
     \/ /\ store' = store /\ NoHistory
        /\ job' = [job EXCEPT ![r].stage = "commit", ![r].file = NoFile]
  /\ UNCHANGED <<kind, row>>

CreateCommit(r) ==
  /\ At(r, "create", "commit")
  /\ row' = [img |-> job[r].file, live |-> TRUE]
  /\ End(r)
  /\ UNCHANGED <<kind, store>> /\ NoHistory

\* UPDATE or COMMIT answers with an error, after which COMMIT may still have
\* taken effect; the handler deletes the image it uploaded.
CreateCommitFails(r, applied) ==
  /\ At(r, "create", "commit")
  /\ row' = IF applied THEN [img |-> job[r].file, live |-> TRUE] ELSE row
  /\ DeleteImage(CompensationId(job[r].file))
  /\ End(r)
  /\ History(lost, stray \cup Uploaded(r))
  /\ UNCHANGED kind

-----------------------------------------------------------------------------
(* Update.                                                                 *)

\* Mutant: the old image is not deleted.
FirstStageSkipping(seen, file) == IF file = NoFile THEN "write" ELSE "upload"

FirstStage(seen, file) ==
  CASE file = NoFile -> "write"
    [] file # NoFile /\ (Product \/ seen = NoFile) -> "upload"
    [] OTHER -> "deleteOld"

\* url is what goes into image_url: the one read, if there is no file.
UpdateRead(r, file) ==
  /\ job[r] = NoJob
  /\ Live
  /\ job' = [job EXCEPT ![r] =
               [op |-> "update", seen |-> row.img, file |-> file,
                url |-> IF file = NoFile THEN row.img ELSE NoFile,
                stage |-> FirstStage(row.img, file)]]
  /\ UNCHANGED <<kind, row, store>> /\ NoHistory

\* Brands and categories: an error of this deletion is ignored, too.
UpdateDeleteOld(r) ==
  /\ At(r, "update", "deleteOld")
  /\ DestroySeen(r) \/ DestroyRefused(r)
  /\ Goto(r, "upload")
  /\ UNCHANGED <<kind, row>>

\* Mutant: an upload that failed is taken for one that worked.
UpdateUploadIgnored(r) ==
  /\ At(r, "update", "upload")
  /\ store' \in {store, store \cup {PublicId(job[r].file)}}
  /\ job' = [job EXCEPT ![r].stage = "write", ![r].url = job[r].file]
  /\ UNCHANGED <<kind, row>> /\ NoHistory

\* A refused upload leaves the URL empty, and the update goes on.
UpdateUpload(r) ==
  /\ At(r, "update", "upload")
  /\ \/ /\ Upload(r)
        /\ job' = [job EXCEPT ![r].stage = "write", ![r].url = job[r].file]
     \/ /\ store' = store /\ NoHistory
        /\ job' = [job EXCEPT ![r].stage = "write", ![r].url = NoFile]
  /\ UNCHANGED <<kind, row>>

Written(r) == [row EXCEPT !.img = job[r].url]

\* The row shows another image than the request has read.
Stale(r) == Live /\ row.img # job[r].seen

\* Brands and categories: a deleted row is not found, and the request fails.
UpdateWrite(r) ==
  /\ At(r, "update", "write") /\ ~Product
  /\ row' = IF Live THEN Written(r) ELSE row
  /\ End(r)
  /\ History(IF Stale(r) /\ job[r].file = NoFile THEN lost \cup {job[r].url} ELSE lost,
             CASE Stale(r) -> stray \cup {row.img}
               [] ~Live -> stray \cup Uploaded(r)
               [] OTHER -> stray)
  /\ UNCHANGED <<kind, store>>

\* Products: any row is written, one deleted meanwhile included.
UpdateCommit(r) ==
  /\ At(r, "update", "write") /\ Product
  /\ row' = Written(r)
  /\ IF job[r].file # NoFile /\ job[r].seen # NoFile /\ job[r].url # NoFile
       THEN Goto(r, "cleanup")
       ELSE End(r)
  /\ UNCHANGED <<kind, store>> /\ NoHistory

\* UPDATE or COMMIT fails, the latter perhaps after it took effect: the new
\* image is deleted again.
UpdateCommitFails(r, applied) ==
  /\ At(r, "update", "write") /\ Product
  /\ row' = IF applied THEN Written(r) ELSE row
  /\ DeleteImage(CompensationId(job[r].file))
  /\ End(r)
  /\ UNCHANGED kind /\ NoHistory

-----------------------------------------------------------------------------
(* Delete and Restore.                                                     *)

DeleteRead(r) ==
  /\ job[r] = NoJob
  /\ Live
  /\ job' = [job EXCEPT ![r] =
               [op |-> "delete", seen |-> row.img,
                stage |-> IF Product \/ row.img = NoFile THEN "softDelete"
                                                         ELSE "deleteOld"]]
  /\ UNCHANGED <<kind, row, store>> /\ NoHistory

DeleteDeleteImage(r) ==
  /\ At(r, "delete", "deleteOld")
  /\ DestroySeen(r) \/ DestroyRefused(r)
  /\ Goto(r, "softDelete")
  /\ UNCHANGED <<kind, row>>

SoftDelete(r) ==
  /\ At(r, "delete", "softDelete")
  /\ row' = [row EXCEPT !.live = FALSE]
  /\ IF Product /\ job[r].seen # NoFile THEN Goto(r, "cleanup") ELSE End(r)
  /\ History(lost, IF Stale(r) THEN stray \cup {row.img} ELSE stray)
  /\ UNCHANGED <<kind, store>>

\* After an update or a deletion of a product; its error is ignored.
Cleanup(r) ==
  /\ job[r].stage = "cleanup"
  /\ DeleteImage(CleanupId(job[r].seen))
  /\ End(r)
  /\ UNCHANGED <<kind, row>> /\ NoHistory

Restore ==
  /\ row # NoRow
  /\ row' = [row EXCEPT !.live = TRUE]
  /\ History(IF row.live THEN lost ELSE lost \cup {row.img}, stray)
  /\ UNCHANGED <<kind, store, job>>

-----------------------------------------------------------------------------
(* Failures.                                                               *)

\* An error of a call whose effect may have come about, a client that has left,
\* or a crash: nothing is undone but the transaction.
Fail(r) ==
  /\ job[r] # NoJob
  /\ LET gone == IF PastDeletion(r) THEN {job[r].seen} ELSE {}
     IN  \/ store' = store /\ History(lost \cup gone, stray \cup Uploaded(r))
         \/ /\ job[r].stage = "upload" /\ UploadImage(job[r].file)
            /\ History((lost \ {job[r].file}) \cup gone, stray \cup {job[r].file})
         \/ /\ job[r].stage = "deleteOld"
            /\ DeleteImage(ExtractPublicID(Url(job[r].seen)))
            /\ History(lost \cup {job[r].seen}, stray \ {job[r].seen})
  /\ End(r)
  /\ UNCHANGED <<kind, row>>

-----------------------------------------------------------------------------
(* The handlers, and what their services do next.                          *)

CreateBrand(r, file) == kind = "brand" /\ Create(r, file)
UpdateBrand(r, file) == kind = "brand" /\ UpdateRead(r, file)
DeleteBrand(r) == kind = "brand" /\ DeleteRead(r)
RestoreBrand == kind = "brand" /\ Restore

CreateCategory(r, file) == kind = "category" /\ Create(r, file)
UpdateCategory(r, file) == kind = "category" /\ UpdateRead(r, file)
DeleteCategory(r) == kind = "category" /\ DeleteRead(r)
RestoreCategory == kind = "category" /\ Restore

CreateProduct(r, file) == kind = "product" /\ Create(r, file)
UpdateProduct(r, file) == kind = "product" /\ UpdateRead(r, file)
DeleteProduct(r) == kind = "product" /\ DeleteRead(r)
RestoreProduct == kind = "product" /\ Restore

Start(r) ==
  \/ \E file \in MaybeFile :
       \/ CreateBrand(r, file) \/ CreateCategory(r, file) \/ CreateProduct(r, file)
       \/ UpdateBrand(r, file) \/ UpdateCategory(r, file) \/ UpdateProduct(r, file)
  \/ DeleteBrand(r) \/ DeleteCategory(r) \/ DeleteProduct(r)

CreateStep(r) ==
  CreateUpload(r) \/ CreateCommit(r) \/ \E applied \in BOOLEAN : CreateCommitFails(r, applied)

UpdateStep(r) ==
  \/ UpdateDeleteOld(r) \/ UpdateUpload(r) \/ UpdateWrite(r) \/ UpdateCommit(r)
  \/ \E applied \in BOOLEAN : UpdateCommitFails(r, applied)

DeleteStep(r) == DeleteDeleteImage(r) \/ SoftDelete(r)

Next ==
  \/ \E r \in Jobs : \/ Start(r) \/ CreateStep(r) \/ UpdateStep(r) \/ DeleteStep(r)
                     \/ Cleanup(r) \/ Fail(r)
  \/ RestoreBrand \/ RestoreCategory \/ RestoreProduct

Spec == Init /\ [][Next]_vars

-----------------------------------------------------------------------------
(* Safety.                                                                 *)

Shown == IF row = NoRow \/ row.img = NoFile THEN {} ELSE {PublicId(row.img)}

\* A product's row, deleted or not, shows an image that exists, so a restored
\* product has its image: whatever requests overlap, however the transaction
\* ends, and although a client may send a file of the same name again.  It
\* rests on the cleanup and the compensation that name no image.
ProductHasItsImage == Product => Shown \subseteq store

\* The image a live brand or category shows is gone only while a request is between
\* its deletion of that very image and its write, or after such a request failed, or
\* because the image was deleted while another request was about to write it, or written
\* back by one that had read it earlier, or because the row was restored; and only until
\* the image is uploaded again.  That requests failed or overlapped is no cause by itself.
DanglingHasACause ==
  ~Product /\ Live => \A file \in Files :
    row.img = file /\ PublicId(file) \notin store =>
      file \in lost \/ \E r \in Jobs : PastDeletion(r) /\ job[r].seen = file

\* An image of a brand or category that no live row shows has just been uploaded by a
\* running request, or its deletion was refused, or the request that uploaded it ended
\* without writing it, or its row was written or deleted by a request that had read
\* another image, or it was uploaded anew after a running request had deleted it; and
\* only until it is deleted or uploaded again.
LeftoverHasACause ==
  ~Product => \A file \in Files :
    PublicId(file) \in store /\ ~(Live /\ row.img = file) =>
      file \in stray \/ \E r \in Jobs : file \in Uploaded(r)

(* Why they hold: the inductive invariant.                                 *)

Images(file) == IF file = NoFile THEN {} ELSE {PublicId(file)}

\* A creation has the item to itself, the other requests have a row; a stage is only
\* reached with the files it needs; what a creation uploaded is there at its COMMIT; an
\* update without a file is to write back what it read.
StagesAreSound ==
  \A r \in Jobs :
    /\ job[r].op = "create" => row = NoRow /\ \A q \in Jobs \ {r} : job[q] = NoJob
    /\ job[r].op \in {"update", "delete"} => row # NoRow
    /\ job[r].stage = "upload" => job[r].file # NoFile
    /\ job[r].stage = "deleteOld" => /\ ~Product
                                     /\ job[r].seen # NoFile
                                     /\ job[r].op = "update" => job[r].file # NoFile
    /\ job[r].stage = "cleanup" => Product
    /\ job[r].stage = "commit" => Images(job[r].file) \subseteq store
    /\ job[r].op = "update" /\ job[r].file = NoFile => job[r].url = job[r].seen

\* What a product's update may write into the row is there; no step takes it away.
ProductsWriteWhatIsThere ==
  Product => \A r \in Jobs : job[r].op = "update" =>
    /\ Images(job[r].seen) \subseteq store
    /\ job[r].stage = "write" => Images(job[r].url) \subseteq store

\* What an update of a brand or category has uploaded is there when it writes the row,
\* or was deleted by another request meanwhile.
UploadedIsThere ==
  ~Product => \A file \in Files : \A r \in Jobs :
    file \in Uploaded(r) => PublicId(file) \in store \/ file \in lost

\* An image that a request believes to have deleted is gone, or stayed for a cause, or is
\* the one it has uploaded since.
DeletedIsGone ==
  ~Product => \A file \in Files : \A r \in Jobs :
    PastDeletion(r) /\ job[r].seen = file /\ PublicId(file) \in store =>
      file \in stray \/ file \in Uploaded(r)

IInv ==
  /\ TypeOK
  /\ StagesAreSound
  /\ ProductHasItsImage
  /\ ProductsWriteWhatIsThere
  /\ DanglingHasACause /\ UploadedIsThere
  /\ LeftoverHasACause /\ DeletedIsGone
=============================================================================
