-------------------------- MODULE Catalogue_proofs --------------------------
(***************************************************************************)
(* Rows and images, for any kinds of items, file names and concurrent      *)
(* requests.                                                               *)
(***************************************************************************)
EXTENDS Catalogue, TLAPS

-----------------------------------------------------------------------------
(* Names, jobs and steps.                                                  *)

LEMMA Names ==
  /\ \A f, g : PublicId(f) = PublicId(g) <=> f = g
  /\ \A f, g : BareName(f) # PublicId(g) /\ Url(f) # PublicId(g)
  /\ \A f : ExtractPublicID(Url(f)) = PublicId(f)
  /\ \A f, g : CompensationId(f) # PublicId(g) /\ CleanupId(f) # PublicId(g)
  BY DEF PublicId, BareName, Url, ExtractPublicID, CompensationId, CleanupId, Id

CreateJob == [op : {"create"}, stage : {"upload", "commit"}, file : MaybeFile]
UpdateJob == [op : {"update"}, stage : {"deleteOld", "upload", "write", "cleanup"},
              seen : MaybeFile, file : MaybeFile, url : MaybeFile]
DeleteJob == [op : {"delete"}, stage : {"deleteOld", "softDelete", "cleanup"}, seen : MaybeFile]

\* The operation tag of a job determines the fields it has, and its stages.
LEMMA JobTypes ==
  ASSUME NEW x \in Job
  PROVE  /\ x = NoJob <=> x.op = "none"
         /\ x.op \in {"none", "create", "update", "delete"}
         /\ x.op = "create" => x \in CreateJob
         /\ x.op = "update" => x \in UpdateJob
         /\ x.op = "delete" => x \in DeleteJob
         /\ x = NoJob => x.stage = "none"
  BY DEF Job, NoJob, CreateJob, UpdateJob, DeleteJob

LEMMA Ended ==
  ASSUME TypeOK, NEW r \in Jobs, End(r)
  PROVE  /\ job' \in [Jobs -> Job]
         /\ job'[r] = NoJob
         /\ \A q \in Jobs \ {r} : job'[q] = job[q]
  BY DEF TypeOK, End, Job

LEMMA Went ==
  ASSUME TypeOK, NEW r \in Jobs, NEW stage, Goto(r, stage),
         \/ job[r].op = "create" /\ stage \in {"upload", "commit"}
         \/ job[r].op = "update" /\ stage \in {"deleteOld", "upload", "write", "cleanup"}
         \/ job[r].op = "delete" /\ stage \in {"deleteOld", "softDelete", "cleanup"}
  PROVE  /\ job' \in [Jobs -> Job]
         /\ job'[r] # NoJob
         /\ job'[r].op = job[r].op /\ job'[r].stage = stage
         /\ job[r].op \in {"create", "update"} => job'[r].file = job[r].file
         /\ job[r].op = "update" => job'[r].url = job[r].url
         /\ job[r].op \in {"update", "delete"} => job'[r].seen = job[r].seen
         /\ \A q \in Jobs \ {r} : job'[q] = job[q]
<1>1. job[r] \in Job
  BY DEF TypeOK
<1>2. job' = [job EXCEPT ![r] = [job[r] EXCEPT !.stage = stage]]
  BY DEF Goto
<1>3. \A q \in Jobs \ {r} : job'[q] = job[q]
  BY <1>2 DEF TypeOK
<1>4. PICK x : x = [job[r] EXCEPT !.stage = stage]
  OBVIOUS
<1>5. job'[r] = x
  BY <1>2, <1>4 DEF TypeOK
<1>6. CASE job[r].op = "create"
  <2>1. job[r] \in CreateJob /\ stage \in {"upload", "commit"}
    BY <1>1, <1>6, JobTypes
  <2>2. x \in CreateJob /\ x.op = "create" /\ x.stage = stage /\ x.file = job[r].file
    BY <1>4, <2>1 DEF CreateJob
  <2>3. x \in Job /\ x # NoJob
    BY <2>2 DEF CreateJob, Job, NoJob
  <2>4. QED
    BY <1>2, <1>3, <1>4, <1>5, <1>6, <2>2, <2>3 DEF TypeOK
<1>7. CASE job[r].op = "update"
  <2>1. job[r] \in UpdateJob /\ stage \in {"deleteOld", "upload", "write", "cleanup"}
    BY <1>1, <1>7, JobTypes
  <2>2. /\ x \in UpdateJob /\ x.op = "update" /\ x.stage = stage
        /\ x.file = job[r].file /\ x.seen = job[r].seen /\ x.url = job[r].url
    BY <1>4, <2>1 DEF UpdateJob
  <2>3. x \in Job /\ x # NoJob
    BY <2>2 DEF UpdateJob, Job, NoJob
  <2>4. QED
    BY <1>2, <1>3, <1>4, <1>5, <1>7, <2>2, <2>3 DEF TypeOK
<1>8. CASE job[r].op = "delete"
  <2>1. job[r] \in DeleteJob /\ stage \in {"deleteOld", "softDelete", "cleanup"}
    BY <1>1, <1>8, JobTypes
  <2>2. x \in DeleteJob /\ x.op = "delete" /\ x.stage = stage /\ x.seen = job[r].seen
    BY <1>4, <2>1 DEF DeleteJob
  <2>3. x \in Job /\ x # NoJob
    BY <2>2 DEF DeleteJob, Job, NoJob
  <2>4. QED
    BY <1>2, <1>3, <1>4, <1>5, <1>8, <2>2, <2>3 DEF TypeOK
<1>9. QED
  BY <1>6, <1>7, <1>8

\* A request that starts with job x.
Begun(r, x) ==
  /\ x \in Job /\ x # NoJob
  /\ job' \in [Jobs -> Job]
  /\ job'[r] = x
  /\ \A q \in Jobs \ {r} : job'[q] = job[q]

LEMMA CreateBegins ==
  ASSUME TypeOK, NEW r \in Jobs, NEW file \in MaybeFile, Create(r, file)
  PROVE  \E x : /\ Begun(r, x)
                /\ x.op = "create" /\ x.file = file
                /\ x.stage = IF file = NoFile THEN "commit" ELSE "upload"
<1>1. PICK x : x = [op |-> "create", file |-> file,
                    stage |-> IF file = NoFile THEN "commit" ELSE "upload"]
  OBVIOUS
<1>2. /\ x \in CreateJob /\ x.op = "create" /\ x.file = file
      /\ x.stage = IF file = NoFile THEN "commit" ELSE "upload"
  BY <1>1 DEF CreateJob
<1>3. x \in Job /\ x # NoJob
  BY <1>2 DEF CreateJob, Job, NoJob
<1>4. job' = [job EXCEPT ![r] = x]
  BY <1>1 DEF Create
<1>5. QED
  BY <1>2, <1>3, <1>4 DEF Begun, TypeOK

LEMMA ShownFile == TypeOK /\ Live => row \in [img : MaybeFile, live : BOOLEAN]
  BY DEF TypeOK, Live

LEMMA UpdateBegins ==
  ASSUME TypeOK, NEW r \in Jobs, NEW file \in MaybeFile, UpdateRead(r, file)
  PROVE  \E x : /\ Begun(r, x)
                /\ x.op = "update" /\ x.file = file /\ x.seen = row.img
                /\ x.url = IF file = NoFile THEN row.img ELSE NoFile
                /\ x.stage = FirstStage(row.img, file)
<1>1. PICK x : x = [op |-> "update", seen |-> row.img, file |-> file,
                    url |-> IF file = NoFile THEN row.img ELSE NoFile,
                    stage |-> FirstStage(row.img, file)]
  OBVIOUS
<1>2. row.img \in MaybeFile /\ FirstStage(row.img, file) \in {"deleteOld", "upload", "write"}
  BY ShownFile DEF UpdateRead, FirstStage
<1>3. /\ x \in UpdateJob /\ x.op = "update" /\ x.file = file /\ x.seen = row.img
      /\ x.url = IF file = NoFile THEN row.img ELSE NoFile
      /\ x.stage = FirstStage(row.img, file)
  BY <1>1, <1>2 DEF UpdateJob, MaybeFile
<1>4. x \in Job /\ x # NoJob
  BY <1>3 DEF UpdateJob, Job, NoJob
<1>5. job' = [job EXCEPT ![r] = x]
  BY <1>1 DEF UpdateRead
<1>6. QED
  BY <1>3, <1>4, <1>5 DEF Begun, TypeOK

LEMMA DeleteBegins ==
  ASSUME TypeOK, NEW r \in Jobs, DeleteRead(r)
  PROVE  \E x : /\ Begun(r, x)
                /\ x.op = "delete" /\ x.seen = row.img
                /\ x.stage = IF Product \/ row.img = NoFile THEN "softDelete" ELSE "deleteOld"
<1>1. PICK x : x = [op |-> "delete", seen |-> row.img,
                    stage |-> IF Product \/ row.img = NoFile THEN "softDelete"
                                                             ELSE "deleteOld"]
  OBVIOUS
<1>2. row.img \in MaybeFile
  BY ShownFile DEF DeleteRead
<1>3. /\ x \in DeleteJob /\ x.op = "delete" /\ x.seen = row.img
      /\ x.stage = IF Product \/ row.img = NoFile THEN "softDelete" ELSE "deleteOld"
  BY <1>1, <1>2 DEF DeleteJob
<1>4. x \in Job /\ x # NoJob
  BY <1>3 DEF DeleteJob, Job, NoJob
<1>5. job' = [job EXCEPT ![r] = x]
  BY <1>1 DEF DeleteRead
<1>6. QED
  BY <1>3, <1>4, <1>5 DEF Begun, TypeOK

\* The handlers of the three kinds share their steps.
LEMMA StepCases ==
  ASSUME [Next]_vars
  PROVE  \/ UNCHANGED vars
         \/ Restore
         \/ \E r \in Jobs :
              \/ \E file \in MaybeFile : Create(r, file) \/ UpdateRead(r, file)
              \/ DeleteRead(r)
              \/ CreateStep(r) \/ UpdateStep(r) \/ DeleteStep(r) \/ Cleanup(r) \/ Fail(r)
  BY DEF Next, Start, CreateBrand, CreateCategory, CreateProduct, UpdateBrand, UpdateCategory,
         UpdateProduct, DeleteBrand, DeleteCategory, DeleteProduct, RestoreBrand,
         RestoreCategory, RestoreProduct

-----------------------------------------------------------------------------
(* What a step changes.                                                    *)

\* The stage sets of JobTypes, as facts about a job of the table.
LEMMA Stages ==
  ASSUME TypeOK, NEW r \in Jobs
  PROVE  /\ job[r] = NoJob <=> job[r].op = "none"
         /\ job[r].op \in {"none", "create", "update", "delete"}
         /\ job[r].op = "none" => job[r].stage = "none"
         /\ job[r].op = "create" => job[r].stage \in {"upload", "commit"}
         /\ job[r].op = "update" => job[r].stage \in {"deleteOld", "upload", "write", "cleanup"}
         /\ job[r].op = "delete" => job[r].stage \in {"deleteOld", "softDelete", "cleanup"}
         /\ job[r].op \in {"create", "update"} => job[r].file \in MaybeFile
         /\ job[r].op = "update" => job[r].url \in MaybeFile
         /\ job[r].op \in {"update", "delete"} => job[r].seen \in MaybeFile
  BY JobTypes DEF TypeOK, CreateJob, UpdateJob, DeleteJob

\* A request that goes on keeps its operation and what it has read and been sent; only an
\* upload changes what it will write.
Goes(r, stage) ==
  /\ job' \in [Jobs -> Job]
  /\ job'[r] # NoJob
  /\ job'[r].op = job[r].op /\ job'[r].stage = stage
  /\ job[r].op = "update" => /\ job'[r].file = job[r].file
                             /\ stage # "write" => job'[r].url = job[r].url
  /\ job[r].op \in {"update", "delete"} => job'[r].seen = job[r].seen
  /\ \A q \in Jobs \ {r} : job'[q] = job[q]

Ends(r) ==
  /\ job' \in [Jobs -> Job]
  /\ job'[r] = NoJob
  /\ \A q \in Jobs \ {r} : job'[q] = job[q]

\* The upload of a creation arrives, or is refused and leaves it without a file.
LEMMA CreateUploads ==
  ASSUME TypeOK, StagesAreSound, NEW r \in Jobs, CreateUpload(r)
  PROVE  /\ Goes(r, "commit")
         /\ job[r].op = "create" /\ job[r].stage = "upload" /\ job[r].file \in Files
         /\ \/ Upload(r) /\ job'[r].file = job[r].file
            \/ store' = store /\ NoHistory /\ job'[r].file = NoFile
<1>1. job[r].op = "create" /\ job[r].stage = "upload" /\ job[r] \in CreateJob
  BY JobTypes DEF CreateUpload, At, TypeOK
<1>2. job[r].file \in Files
  BY <1>1 DEF StagesAreSound, CreateJob, MaybeFile
<1>3. CASE Upload(r) /\ Goto(r, "commit")
  BY <1>1, <1>2, <1>3, Went DEF Goes
<1>4. CASE /\ store' = store /\ NoHistory
           /\ job' = [job EXCEPT ![r].stage = "commit", ![r].file = NoFile]
  <2>1. PICK x : x = [job[r] EXCEPT !.stage = "commit", !.file = NoFile]
    OBVIOUS
  <2>2. x \in CreateJob /\ x.op = "create" /\ x.stage = "commit" /\ x.file = NoFile
    BY <1>1, <2>1 DEF CreateJob, MaybeFile
  <2>3. x \in Job /\ x # NoJob
    BY <2>2 DEF CreateJob, Job, NoJob
  <2>4. job' = [job EXCEPT ![r] = x]
    BY <1>4, <2>1 DEF TypeOK
  <2>5. QED
    BY <1>1, <1>2, <1>4, <2>2, <2>3, <2>4 DEF Goes, TypeOK
<1>5. QED
  BY <1>3, <1>4 DEF CreateUpload

\* The upload of an update arrives, or is refused and leaves it nothing to write.
LEMMA UpdateUploads ==
  ASSUME TypeOK, StagesAreSound, NEW r \in Jobs, UpdateUpload(r)
  PROVE  /\ Goes(r, "write")
         /\ job[r].op = "update" /\ job[r].stage = "upload" /\ job[r].file \in Files
         /\ \/ Upload(r) /\ job'[r].url = job[r].file
            \/ store' = store /\ NoHistory /\ job'[r].url = NoFile
<1>1. job[r].op = "update" /\ job[r].stage = "upload" /\ job[r] \in UpdateJob
  BY JobTypes DEF UpdateUpload, At, TypeOK
<1>2. job[r].file \in Files
  BY <1>1 DEF StagesAreSound, UpdateJob, MaybeFile
<1>3. PICK url \in MaybeFile :
         /\ job' = [job EXCEPT ![r].stage = "write", ![r].url = url]
         /\ \/ Upload(r) /\ url = job[r].file
            \/ store' = store /\ NoHistory /\ url = NoFile
  BY <1>2 DEF UpdateUpload, MaybeFile
<1>4. PICK x : x = [job[r] EXCEPT !.stage = "write", !.url = url]
  OBVIOUS
<1>5. /\ x \in UpdateJob /\ x.op = "update" /\ x.stage = "write" /\ x.url = url
      /\ x.file = job[r].file /\ x.seen = job[r].seen
  BY <1>1, <1>4 DEF UpdateJob
<1>6. x \in Job /\ x # NoJob
  BY <1>5 DEF UpdateJob, Job, NoJob
<1>7. job' = [job EXCEPT ![r] = x]
  BY <1>3, <1>4 DEF TypeOK
<1>8. QED
  BY <1>1, <1>2, <1>3, <1>5, <1>6, <1>7 DEF Goes, TypeOK

LEMMA CreateSteps ==
  ASSUME TypeOK, StagesAreSound, NEW r \in Jobs
  PROVE  /\ CreateUpload(r) => Goes(r, "commit")
         /\ CreateCommit(r) => Ends(r)
         /\ \A applied \in BOOLEAN : CreateCommitFails(r, applied) => Ends(r)
<1>1. CreateUpload(r) => Goes(r, "commit")
  BY CreateUploads
<1>2. QED
  BY <1>1, Ended DEF CreateCommit, CreateCommitFails, Ends

LEMMA UpdateSteps ==
  ASSUME TypeOK, StagesAreSound, NEW r \in Jobs
  PROVE  /\ UpdateDeleteOld(r) => Goes(r, "upload")
         /\ UpdateUpload(r) => Goes(r, "write")
         /\ UpdateWrite(r) => Ends(r)
         /\ UpdateCommit(r) => Goes(r, "cleanup") \/ Ends(r)
         /\ \A applied \in BOOLEAN : UpdateCommitFails(r, applied) => Ends(r)
<1>1. UpdateUpload(r) => Goes(r, "write")
  BY UpdateUploads
<1>2. UpdateDeleteOld(r) => Goes(r, "upload")
  BY Went DEF UpdateDeleteOld, At, Goes
<1>3. UpdateCommit(r) => Goes(r, "cleanup") \/ Ends(r)
  BY Went, Ended DEF UpdateCommit, At, Goes, Ends
<1>4. QED
  BY <1>1, <1>2, <1>3, Ended DEF UpdateWrite, UpdateCommitFails, Ends

LEMMA DeleteSteps ==
  ASSUME TypeOK, NEW r \in Jobs
  PROVE  /\ DeleteDeleteImage(r) => Goes(r, "softDelete")
         /\ SoftDelete(r) => IF Product /\ job[r].seen # NoFile THEN Goes(r, "cleanup") ELSE Ends(r)
         /\ Cleanup(r) \/ Fail(r) => Ends(r)
  BY Went, Ended DEF DeleteDeleteImage, SoftDelete, Cleanup, Fail, At, Goes, Ends

\* The operation a step belongs to.
LEMMA StepsOf ==
  ASSUME TypeOK, NEW r \in Jobs
  PROVE  /\ CreateStep(r) => job[r].op = "create"
         /\ UpdateStep(r) => job[r].op = "update"
         /\ DeleteStep(r) => job[r].op = "delete"
         /\ Cleanup(r) => job[r].op \in {"update", "delete"}
         /\ Fail(r) => job[r].op \in {"create", "update", "delete"}
         /\ CreateStep(r) \/ UpdateStep(r) \/ DeleteStep(r) \/ Cleanup(r) \/ Fail(r)
              => job[r] # NoJob
  BY Stages DEF CreateStep, UpdateStep, DeleteStep, CreateUpload, CreateCommit, CreateCommitFails,
     UpdateDeleteOld, UpdateUpload, UpdateWrite, UpdateCommit, UpdateCommitFails,
     DeleteDeleteImage, SoftDelete, Cleanup, Fail, At

\* What a step does to the store: nothing, or an upload or a deletion by a request at
\* that stage, or a deletion that names no image.
LEMMA StoreSteps ==
  ASSUME [Next]_vars
  PROVE  \/ store' = store
         \/ \E r \in Jobs : job[r].stage = "upload" /\ UploadImage(job[r].file)
         \/ \E r \in Jobs : /\ job[r].stage = "deleteOld"
                            /\ DeleteImage(ExtractPublicID(Url(job[r].seen)))
         \/ \E file : DeleteImage(CompensationId(file)) \/ DeleteImage(CleanupId(file))
<1> DEFINE Goal == \/ store' = store
                   \/ \E r \in Jobs : job[r].stage = "upload" /\ UploadImage(job[r].file)
                   \/ \E r \in Jobs : /\ job[r].stage = "deleteOld"
                                      /\ DeleteImage(ExtractPublicID(Url(job[r].seen)))
                   \/ \E file : DeleteImage(CompensationId(file)) \/ DeleteImage(CleanupId(file))
<1>1. ASSUME NEW r \in Jobs, CreateStep(r) PROVE Goal
  BY <1>1 DEF CreateStep, CreateUpload, CreateCommit, CreateCommitFails, Upload, At
<1>2. ASSUME NEW r \in Jobs, UpdateStep(r) PROVE Goal
  BY <1>2 DEF UpdateStep, UpdateDeleteOld, UpdateUpload, UpdateWrite, UpdateCommit,
     UpdateCommitFails, Upload, DestroySeen, DestroyRefused, At
<1>3. ASSUME NEW r \in Jobs, DeleteStep(r) PROVE Goal
  BY <1>3 DEF DeleteStep, DeleteDeleteImage, SoftDelete, DestroySeen, DestroyRefused, At
<1>4. ASSUME NEW r \in Jobs, Cleanup(r) \/ Fail(r) PROVE Goal
  BY <1>4 DEF Cleanup, Fail
<1>5. QED
  BY <1>1, <1>2, <1>3, <1>4, StepCases DEF vars, Restore, Create, UpdateRead, DeleteRead

-----------------------------------------------------------------------------
(* Types.                                                                  *)

LEMMA Uploads ==
  ASSUME TypeOK, NEW file \in Files, UploadImage(file)
  PROVE  store' \subseteq {PublicId(f) : f \in Files}
  BY DEF TypeOK, UploadImage

LEMMA WrittenRow ==
  ASSUME TypeOK, StagesAreSound, NEW r \in Jobs, job[r].op = "update"
  PROVE  /\ row \in [img : MaybeFile, live : BOOLEAN]
         /\ Written(r) \in [img : MaybeFile, live : BOOLEAN]
         /\ Written(r).live = row.live
         /\ Written(r).img = job[r].url
<1>1. row \in [img : MaybeFile, live : BOOLEAN]
  BY DEF TypeOK, StagesAreSound
<1>2. QED
  BY <1>1, Stages DEF Written

\* Every step keeps the history as it was or writes sets of files.
LEMMA HistoryNext ==
  ASSUME [Next]_vars
  PROVE  NoHistory \/ \E gone, stayed : History(gone, stayed)
<1>1. ASSUME NEW r \in Jobs, CreateStep(r)
      PROVE  NoHistory \/ \E gone, stayed : History(gone, stayed)
  BY <1>1 DEF CreateStep, CreateUpload, CreateCommit, CreateCommitFails, Upload
<1>2. ASSUME NEW r \in Jobs, UpdateStep(r)
      PROVE  NoHistory \/ \E gone, stayed : History(gone, stayed)
  BY <1>2 DEF UpdateStep, UpdateDeleteOld, UpdateUpload, UpdateWrite, UpdateCommit,
     UpdateCommitFails, Upload, DestroySeen, DestroyRefused
<1>3. ASSUME NEW r \in Jobs, DeleteStep(r)
      PROVE  NoHistory \/ \E gone, stayed : History(gone, stayed)
  BY <1>3 DEF DeleteStep, DeleteDeleteImage, SoftDelete, DestroySeen, DestroyRefused
<1>4. ASSUME NEW r \in Jobs, Fail(r)
      PROVE  \E gone, stayed : History(gone, stayed)
  BY <1>4 DEF Fail
<1>5. QED
  BY <1>1, <1>2, <1>3, <1>4, StepCases DEF vars, NoHistory, Restore, Create, UpdateRead,
     DeleteRead, Cleanup

LEMMA TypeInit == Init => TypeOK
  BY DEF Init, TypeOK, Job

LEMMA TypeNext == TypeOK /\ StagesAreSound /\ [Next]_vars => TypeOK'
<1> SUFFICES ASSUME TypeOK, StagesAreSound, [Next]_vars PROVE TypeOK'
  OBVIOUS
<1>1. kind' \in Kinds
  BY StepCases DEF TypeOK, vars, Restore, Create, UpdateRead, DeleteRead, CreateStep, UpdateStep,
     DeleteStep, CreateUpload, CreateCommit, CreateCommitFails, UpdateDeleteOld, UpdateUpload,
     UpdateWrite, UpdateCommit, UpdateCommitFails, DeleteDeleteImage, SoftDelete, Cleanup, Fail
<1>2. lost' \subseteq Files /\ stray' \subseteq Files
  BY HistoryNext DEF TypeOK, History, NoHistory
<1>3. job' \in [Jobs -> Job]
  BY StepCases, CreateBegins, UpdateBegins, DeleteBegins, CreateSteps, UpdateSteps, DeleteSteps
  DEF Begun, Goes, Ends, TypeOK, vars, Restore, CreateStep, UpdateStep, DeleteStep
<1>4. row' \in {NoRow} \cup [img : MaybeFile, live : BOOLEAN]
  <2>1. ASSUME NEW r \in Jobs, CreateStep(r)
        PROVE  row' \in {NoRow} \cup [img : MaybeFile, live : BOOLEAN]
    <3>1. row' = row \/ row' = [img |-> job[r].file, live |-> TRUE]
      BY <2>1 DEF CreateStep, CreateUpload, CreateCommit, CreateCommitFails
    <3>2. job[r].op = "create"
      BY <2>1 DEF CreateStep, CreateUpload, CreateCommit, CreateCommitFails, At
    <3>3. job[r].file \in MaybeFile
      BY <3>2, Stages
    <3>4. [img |-> job[r].file, live |-> TRUE] \in [img : MaybeFile, live : BOOLEAN]
      BY <3>3
    <3>5. QED
      BY <3>1, <3>4 DEF TypeOK
  <2>2. ASSUME NEW r \in Jobs, UpdateStep(r)
        PROVE  row' \in {NoRow} \cup [img : MaybeFile, live : BOOLEAN]
    <3>1. row' = row \/ row' = Written(r)
      BY <2>2 DEF UpdateStep, UpdateDeleteOld, UpdateUpload, UpdateWrite, UpdateCommit,
         UpdateCommitFails
    <3>2. job[r].op = "update"
      BY <2>2 DEF UpdateStep, UpdateDeleteOld, UpdateUpload, UpdateWrite, UpdateCommit,
         UpdateCommitFails, At
    <3>3. QED
      BY <3>1, <3>2, WrittenRow DEF TypeOK
  <2>3. ASSUME NEW r \in Jobs, DeleteStep(r)
        PROVE  row' \in {NoRow} \cup [img : MaybeFile, live : BOOLEAN]
    BY <2>3 DEF DeleteStep, DeleteDeleteImage, SoftDelete, At, TypeOK, StagesAreSound
  <2>4. QED
    BY <2>1, <2>2, <2>3, StepCases DEF TypeOK, vars, Restore, Create, UpdateRead, DeleteRead,
       Cleanup, Fail
<1>5. store' \subseteq {PublicId(f) : f \in Files}
  <2>1. ASSUME NEW r \in Jobs, job[r].stage = "upload" PROVE job[r].file \in Files
    BY <2>1, Stages DEF StagesAreSound, MaybeFile
  <2>2. QED
    BY <2>1, StoreSteps, Uploads DEF TypeOK, DeleteImage
<1>6. QED
  BY <1>1, <1>2, <1>3, <1>4, <1>5 DEF TypeOK

-----------------------------------------------------------------------------
(* Stages.                                                                 *)

\* A row, once there, stays.
LEMMA RowStays ==
  ASSUME TypeOK, StagesAreSound, [Next]_vars, row # NoRow
  PROVE  row' # NoRow /\ row' \in [img : MaybeFile, live : BOOLEAN]
<1>1. row \in [img : MaybeFile, live : BOOLEAN]
  BY DEF TypeOK
<1>2. \A r \in Jobs : job[r].op # "create"
  BY DEF StagesAreSound
<1>3. ASSUME NEW r \in Jobs, UpdateStep(r) PROVE row' \in [img : MaybeFile, live : BOOLEAN]
  <2>1. row' = row \/ row' = Written(r)
    BY <1>3 DEF UpdateStep, UpdateDeleteOld, UpdateUpload, UpdateWrite, UpdateCommit,
       UpdateCommitFails
  <2>2. job[r].op = "update"
    BY <1>3 DEF UpdateStep, UpdateDeleteOld, UpdateUpload, UpdateWrite, UpdateCommit,
       UpdateCommitFails, At
  <2>3. QED
    BY <1>1, <2>1, <2>2, WrittenRow
<1>4. ASSUME NEW r \in Jobs, CreateStep(r) PROVE FALSE
  BY <1>2, <1>4 DEF CreateStep, CreateUpload, CreateCommit, CreateCommitFails, At
<1>5. ASSUME NEW r \in Jobs, DeleteStep(r) PROVE row' \in [img : MaybeFile, live : BOOLEAN]
  BY <1>1, <1>5 DEF DeleteStep, DeleteDeleteImage, SoftDelete
<1>6. row' \in [img : MaybeFile, live : BOOLEAN]
  BY <1>1, <1>3, <1>4, <1>5, StepCases DEF vars, Restore, Create, UpdateRead, DeleteRead, Cleanup,
     Fail
<1>7. QED
  BY <1>6, CatalogueAssumption DEF MaybeFile

LEMMA KindStays == [Next]_vars => (Product' <=> Product)
  BY StepCases DEF Product, vars, Restore, Create, UpdateRead, DeleteRead, CreateStep, UpdateStep,
     DeleteStep, CreateUpload, CreateCommit, CreateCommitFails, UpdateDeleteOld, UpdateUpload,
     UpdateWrite, UpdateCommit, UpdateCommitFails, DeleteDeleteImage, SoftDelete, Cleanup, Fail

\* What a stage asks of one request.
StageIsSound(r) ==
  /\ job[r].stage = "upload" => job[r].file # NoFile
  /\ job[r].stage = "deleteOld" => /\ ~Product
                                   /\ job[r].seen # NoFile
                                   /\ job[r].op = "update" => job[r].file # NoFile
  /\ job[r].stage = "cleanup" => Product
  /\ job[r].op = "update" /\ job[r].file = NoFile => job[r].url = job[r].seen

\* With a row there is no creation, and no stage but those of updates and deletions.
LEMMA StagesWithRow ==
  ASSUME TypeOK', row' # NoRow,
         \A r \in Jobs : job'[r].op # "create" /\ StageIsSound(r)'
  PROVE  StagesAreSound'
<1>1. \A r \in Jobs : job'[r].stage # "commit"
  <2>1. \A r \in Jobs : job'[r] \in Job
    BY DEF TypeOK
  <2>2. QED
    BY <2>1, JobTypes DEF UpdateJob, DeleteJob
<1>2. QED
  BY <1>1 DEF StagesAreSound, StageIsSound

LEMMA StagesWhenQuiet ==
  ASSUME \A r \in Jobs : job'[r] = NoJob
  PROVE  StagesAreSound'
  BY DEF StagesAreSound, NoJob

\* While an update or a deletion runs, no creation does.
LEMMA NoCreation ==
  ASSUME TypeOK, StagesAreSound, NEW r \in Jobs, job[r].op \in {"update", "delete"} \/ row # NoRow
  PROVE  row # NoRow /\ \A q \in Jobs : job[q].op # "create"
  BY DEF StagesAreSound

LEMMA StagesNext == TypeOK /\ TypeOK' /\ StagesAreSound /\ [Next]_vars => StagesAreSound'
<1> SUFFICES ASSUME TypeOK, TypeOK', StagesAreSound, [Next]_vars PROVE StagesAreSound'
  OBVIOUS
<1>1. CASE UNCHANGED vars
  BY <1>1 DEF vars, StagesAreSound, Product
<1>2. Product' <=> Product
  BY KindStays
<1>3. \A r \in Jobs : StageIsSound(r)
  BY DEF StagesAreSound, StageIsSound
<1>4. CASE Restore
  <2>1. row # NoRow /\ job' = job
    BY <1>4 DEF Restore
  <2>2. \A r \in Jobs : job'[r].op # "create" /\ StageIsSound(r)'
    BY <1>2, <1>3, <2>1, NoCreation DEF StageIsSound
  <2>3. QED
    BY <2>1, <2>2, RowStays, StagesWithRow
<1>5. ASSUME NEW p \in Jobs, NEW file \in MaybeFile, Create(p, file) PROVE StagesAreSound'
  <2>1. PICK x : /\ Begun(p, x) /\ x.op = "create" /\ x.file = file
                 /\ x.stage = IF file = NoFile THEN "commit" ELSE "upload"
    BY <1>5, CreateBegins
  <2>2. job'[p] = x /\ \A q \in Jobs \ {p} : job'[q] = NoJob
    BY <1>5, <2>1 DEF Begun, Create
  <2>3. row' = NoRow
    BY <1>5 DEF Create
  <2>4. QED
    BY <2>1, <2>2, <2>3 DEF StagesAreSound, NoJob, Images
<1>6. ASSUME NEW p \in Jobs, NEW file \in MaybeFile, UpdateRead(p, file) PROVE StagesAreSound'
  <2>1. PICK x : /\ Begun(p, x) /\ x.op = "update" /\ x.file = file /\ x.seen = row.img
                 /\ x.url = IF file = NoFile THEN row.img ELSE NoFile
                 /\ x.stage = FirstStage(row.img, file)
    BY <1>6, UpdateBegins
  <2>2. row # NoRow
    BY <1>6 DEF UpdateRead, Live
  <2>3. job'[p] = x /\ \A q \in Jobs \ {p} : job'[q] = job[q]
    BY <2>1 DEF Begun
  <2>4. StageIsSound(p)'
    BY <1>2, <2>1, <2>3 DEF StageIsSound, FirstStage
  <2>5. \A r \in Jobs : job'[r].op # "create" /\ StageIsSound(r)'
    BY <1>2, <1>3, <2>1, <2>2, <2>3, <2>4, NoCreation DEF StageIsSound
  <2>6. QED
    BY <2>2, <2>5, RowStays, StagesWithRow
<1>7. ASSUME NEW p \in Jobs, DeleteRead(p) PROVE StagesAreSound'
  <2>1. PICK x : /\ Begun(p, x) /\ x.op = "delete" /\ x.seen = row.img
                 /\ x.stage = IF Product \/ row.img = NoFile THEN "softDelete" ELSE "deleteOld"
    BY <1>7, DeleteBegins
  <2>2. row # NoRow
    BY <1>7 DEF DeleteRead, Live
  <2>3. job'[p] = x /\ \A q \in Jobs \ {p} : job'[q] = job[q]
    BY <2>1 DEF Begun
  <2>4. StageIsSound(p)'
    BY <1>2, <2>1, <2>3 DEF StageIsSound
  <2>5. \A r \in Jobs : job'[r].op # "create" /\ StageIsSound(r)'
    BY <1>2, <1>3, <2>1, <2>2, <2>3, <2>4, NoCreation DEF StageIsSound
  <2>6. QED
    BY <2>2, <2>5, RowStays, StagesWithRow
<1>8. ASSUME NEW p \in Jobs, job[p].op = "create", CreateStep(p) \/ Fail(p) PROVE StagesAreSound'
  <2>1. row = NoRow /\ \A q \in Jobs \ {p} : job[q] = NoJob
    BY <1>8 DEF StagesAreSound
  <2>2. CASE CreateUpload(p)
    <3>1. Goes(p, "commit")
      BY <2>2, CreateSteps
    <3>2. /\ job'[p].op = "create" /\ job'[p].stage = "commit"
          /\ \A q \in Jobs \ {p} : job'[q] = NoJob
      BY <1>8, <2>1, <3>1 DEF Goes
    <3>3. row' = NoRow /\ Images(job'[p].file) \subseteq store'
      BY <2>1, <2>2, CreateUploads DEF CreateUpload, Upload, UploadImage, Images
    <3>4. QED
      BY <3>2, <3>3 DEF StagesAreSound, NoJob, Images
  <2>3. CASE ~CreateUpload(p)
    <3>1. Ends(p)
      BY <1>8, <2>3, CreateSteps, DeleteSteps DEF CreateStep
    <3>2. QED
      BY <2>1, <3>1, StagesWhenQuiet DEF Ends
  <2>4. QED
    BY <2>2, <2>3
<1>9. ASSUME NEW p \in Jobs, job[p].op \in {"update", "delete"},
             UpdateStep(p) \/ DeleteStep(p) \/ Cleanup(p) \/ Fail(p)
      PROVE  StagesAreSound'
  <2>1. row # NoRow /\ \A q \in Jobs : job[q].op # "create"
    BY <1>9, NoCreation
  <2>2. /\ \A q \in Jobs \ {p} : job'[q] = job[q]
        /\ job'[p].op # "create"
        /\ StageIsSound(p)'
    <3>1. CASE Ends(p)
      BY <3>1 DEF Ends, StageIsSound, NoJob
    <3>2. CASE Goes(p, "softDelete") /\ job[p].op = "delete"
      BY <1>9, <3>2 DEF Goes, StageIsSound
    <3>6. CASE UpdateUpload(p)
      BY <1>9, <3>6, UpdateUploads, CatalogueAssumption DEF Goes, StageIsSound
    <3>3. CASE UpdateDeleteOld(p)
      <4>1. Goes(p, "upload") /\ job[p].file # NoFile
        BY <1>3, <3>3, UpdateSteps DEF UpdateDeleteOld, At, StageIsSound
      <4>2. QED
        BY <1>9, <3>3, <4>1 DEF Goes, StageIsSound, UpdateDeleteOld, At
    <3>4. CASE Goes(p, "cleanup") /\ Product
      BY <1>2, <1>3, <1>9, <3>4 DEF Goes, StageIsSound
    <3>5. QED
      <4>1. CASE UpdateStep(p)
        BY <3>1, <3>3, <3>4, <3>6, <4>1, UpdateSteps DEF UpdateStep, UpdateCommit
      <4>2. CASE DeleteStep(p) \/ Cleanup(p) \/ Fail(p)
        BY <3>1, <3>2, <3>4, <4>2, DeleteSteps, StepsOf DEF DeleteStep
      <4>3. QED
        BY <1>9, <4>1, <4>2
  <2>3. \A r \in Jobs : job'[r].op # "create" /\ StageIsSound(r)'
    BY <1>2, <1>3, <2>1, <2>2 DEF StageIsSound
  <2>4. QED
    BY <2>1, <2>3, RowStays, StagesWithRow
<1>10. QED
  BY <1>1, <1>4, <1>5, <1>6, <1>7, <1>8, <1>9, StepsOf, StepCases

-----------------------------------------------------------------------------
(* Products.                                                               *)

\* An image of a product is never deleted: its cleanup and its compensation name none.
LEMMA ProductKeepsImages ==
  ASSUME TypeOK, StagesAreSound, Product, [Next]_vars
  PROVE  store \subseteq store'
<1>1. \A id \in store : \A f : id # CompensationId(f) /\ id # CleanupId(f)
  BY Names DEF TypeOK
<1>2. \A r \in Jobs : job[r].stage # "deleteOld"
  BY DEF StagesAreSound
<1>3. QED
  BY <1>1, <1>2, StoreSteps DEF DeleteImage, UploadImage

LEMMA ShownImages ==
  Shown = IF row = NoRow THEN {} ELSE Images(row.img)
  BY DEF Shown, Images

\* What a step makes the row show: what it showed, or what was about to be written.
LEMMA RowWrites ==
  ASSUME TypeOK, StagesAreSound, [Next]_vars, row' # NoRow
  PROVE  \/ row # NoRow /\ row'.img = row.img
         \/ \E r \in Jobs : /\ At(r, "create", "commit")
                            /\ row'.img = job[r].file
         \/ \E r \in Jobs : /\ At(r, "update", "write")
                            /\ row'.img = job[r].url
<1>1. CASE row' = row
  BY <1>1
<1>2. CASE Restore
  <2>1. row \in [img : MaybeFile, live : BOOLEAN]
    BY <1>2 DEF Restore, TypeOK
  <2>2. QED
    BY <1>2, <2>1 DEF Restore
<1>3. ASSUME NEW r \in Jobs, CreateStep(r), row' # row
      PROVE  At(r, "create", "commit") /\ row'.img = job[r].file
  <2>1. At(r, "create", "commit") /\ row' = [img |-> job[r].file, live |-> TRUE]
    BY <1>3 DEF CreateStep, CreateUpload, CreateCommit, CreateCommitFails
  <2>2. QED
    BY <2>1
<1>4. ASSUME NEW r \in Jobs, UpdateStep(r), row' # row
      PROVE  /\ At(r, "update", "write")
             /\ row'.img = job[r].url
  <2>1. At(r, "update", "write") /\ row' = Written(r)
    BY <1>4 DEF UpdateStep, UpdateDeleteOld, UpdateUpload, UpdateWrite, UpdateCommit,
       UpdateCommitFails
  <2>2. QED
    BY <2>1, WrittenRow DEF At
<1>5. ASSUME NEW r \in Jobs, DeleteStep(r), row' # row
      PROVE  row # NoRow /\ row'.img = row.img
  <2>1. At(r, "delete", "softDelete") /\ row' = [row EXCEPT !.live = FALSE]
    BY <1>5 DEF DeleteStep, DeleteDeleteImage, SoftDelete
  <2>2. row \in [img : MaybeFile, live : BOOLEAN] /\ row # NoRow
    BY <2>1 DEF At, TypeOK, StagesAreSound
  <2>3. QED
    BY <2>1, <2>2
<1>6. QED
  BY <1>1, <1>2, <1>3, <1>4, <1>5, StepCases DEF vars, Create, UpdateRead, DeleteRead, Cleanup, Fail

LEMMA ProductShownNext ==
  ASSUME TypeOK, StagesAreSound, ProductHasItsImage, ProductsWriteWhatIsThere, [Next]_vars
  PROVE  ProductHasItsImage'
<1> SUFFICES ASSUME Product', row' # NoRow PROVE Images(row'.img) \subseteq store'
  BY DEF ProductHasItsImage, Shown, Images
<1>1. Product /\ store \subseteq store'
  BY KindStays, ProductKeepsImages
<1>2. CASE row # NoRow /\ row'.img = row.img
  BY <1>1, <1>2, ShownImages DEF ProductHasItsImage
<1>3. ASSUME NEW r \in Jobs, At(r, "create", "commit"), row'.img = job[r].file
      PROVE  Images(row'.img) \subseteq store
  BY <1>3 DEF StagesAreSound, At
<1>4. ASSUME NEW r \in Jobs, At(r, "update", "write"), row'.img = job[r].url
      PROVE  Images(row'.img) \subseteq store
  BY <1>1, <1>4 DEF ProductsWriteWhatIsThere, At
<1>5. QED
  BY <1>1, <1>2, <1>3, <1>4, RowWrites

LEMMA ProductsWriteNext ==
  ASSUME TypeOK, StagesAreSound, ProductHasItsImage, ProductsWriteWhatIsThere, [Next]_vars
  PROVE  ProductsWriteWhatIsThere'
<1> SUFFICES ASSUME Product', NEW r \in Jobs, job'[r].op = "update"
             PROVE  /\ Images(job'[r].seen) \subseteq store'
                    /\ job'[r].stage = "write" => Images(job'[r].url) \subseteq store'
  BY DEF ProductsWriteWhatIsThere, Images
<1>1. Product /\ store \subseteq store'
  BY KindStays, ProductKeepsImages
<1>2. CASE job'[r] = job[r]
  BY <1>1, <1>2 DEF ProductsWriteWhatIsThere
<1>3. CASE Ends(r)
  BY <1>3 DEF Ends, NoJob
<1>4. ASSUME NEW file \in MaybeFile, UpdateRead(r, file)
      PROVE  /\ Images(job'[r].seen) \subseteq store
             /\ job'[r].stage = "write" => job'[r].url = job'[r].seen
  <2>1. /\ job'[r].seen = row.img /\ job'[r].file = file
        /\ job'[r].url = IF file = NoFile THEN row.img ELSE NoFile
        /\ job'[r].stage = FirstStage(row.img, file)
    BY <1>4, UpdateBegins DEF Begun
  <2>2. Images(row.img) \subseteq store
    BY <1>1, <1>4, ShownImages DEF UpdateRead, Live, ProductHasItsImage
  <2>3. QED
    BY <1>1, <2>1, <2>2 DEF FirstStage
<1>5. CASE UpdateStep(r)
  <2>1. job[r].op = "update"
    BY <1>5 DEF UpdateStep, UpdateDeleteOld, UpdateUpload, UpdateWrite, UpdateCommit,
       UpdateCommitFails, At
  <2>2. CASE UpdateUpload(r)
    <3>1. job'[r].seen = job[r].seen
      BY <2>1, <2>2, UpdateSteps DEF Goes
    <3>2. Images(job'[r].url) \subseteq store'
      BY <2>2, UpdateUploads DEF Upload, UploadImage, Images
    <3>3. QED
      BY <1>1, <2>1, <3>1, <3>2 DEF ProductsWriteWhatIsThere
  <2>3. CASE UpdateDeleteOld(r)
    BY <1>1, <2>3 DEF UpdateDeleteOld, At, StagesAreSound
  <2>4. CASE Goes(r, "cleanup")
    BY <1>1, <2>1, <2>4 DEF Goes, ProductsWriteWhatIsThere
  <2>5. QED
    BY <1>3, <1>5, <2>2, <2>3, <2>4, UpdateSteps DEF UpdateStep
<1>6. job'[r] = job[r] \/ Ends(r) \/ UpdateStep(r) \/ \E file \in MaybeFile : UpdateRead(r, file)
  <2>1. CASE UNCHANGED vars \/ Restore
    BY <2>1 DEF vars, Restore
  <2>2. ASSUME NEW p \in Jobs, NEW file \in MaybeFile, Create(p, file) PROVE job'[r] = job[r]
    BY <2>2, CreateBegins DEF Begun
  <2>3. ASSUME NEW p \in Jobs, DeleteRead(p) PROVE job'[r] = job[r]
    BY <2>3, DeleteBegins DEF Begun
  <2>4. ASSUME NEW p \in Jobs, NEW file \in MaybeFile, UpdateRead(p, file)
        PROVE  p = r \/ job'[r] = job[r]
    BY <2>4, UpdateBegins DEF Begun
  <2>5. ASSUME NEW p \in Jobs, CreateStep(p) PROVE Ends(r) \/ job'[r] = job[r]
    <3>1. job[p].op = "create"
      BY <2>5 DEF CreateStep, CreateUpload, CreateCommit, CreateCommitFails, At
    <3>2. QED
      BY <2>5, <3>1, CreateSteps DEF CreateStep, Goes, Ends
  <2>6. ASSUME NEW p \in Jobs, UpdateStep(p) PROVE p = r \/ job'[r] = job[r]
    BY <2>6, UpdateSteps DEF UpdateStep, Goes, Ends
  <2>7. ASSUME NEW p \in Jobs, DeleteStep(p) PROVE Ends(r) \/ job'[r] = job[r]
    <3>1. job[p].op = "delete"
      BY <2>7 DEF DeleteStep, DeleteDeleteImage, SoftDelete, At
    <3>2. QED
      BY <2>7, <3>1, DeleteSteps DEF DeleteStep, Goes, Ends
  <2>8. ASSUME NEW p \in Jobs, Cleanup(p) \/ Fail(p) PROVE Ends(r) \/ job'[r] = job[r]
    BY <2>8, DeleteSteps DEF Ends
  <2>9. QED
    BY <2>1, <2>2, <2>3, <2>4, <2>5, <2>6, <2>7, <2>8, StepCases
<1>7. QED
  BY <1>1, <1>2, <1>3, <1>4, <1>5, <1>6

-----------------------------------------------------------------------------
(* Brands and categories: one image at a time.                             *)

LEMMA UploadedFiles ==
  \A r, f :
    /\ f \in Uploaded(r) <=>
         \/ job[r].op = "create" /\ job[r].stage = "commit" /\ f = job[r].file
         \/ /\ job[r].op = "update" /\ job[r].stage = "write"
            /\ job[r].file # NoFile /\ f = job[r].url
    /\ f \in Uploaded(r)' <=>
         \/ job'[r].op = "create" /\ job'[r].stage = "commit" /\ f = job'[r].file
         \/ /\ job'[r].op = "update" /\ job'[r].stage = "write"
            /\ job'[r].file # NoFile /\ f = job'[r].url
  BY DEF Uploaded, At

\* A request that did not move holds what it held, and one that is over holds nothing.
LEMMA Unmoved ==
  ASSUME [Next]_vars, NEW q \in Jobs
  PROVE  /\ job'[q] = job[q] => /\ \A f : f \in Uploaded(q)' <=> f \in Uploaded(q)
                                /\ PastDeletion(q)' <=> PastDeletion(q)
         /\ job'[q] = NoJob => (\A f : f \notin Uploaded(q)') /\ ~PastDeletion(q)'
  BY KindStays, UploadedFiles DEF PastDeletion, NoJob

\* What an upload and a deletion do to one image and to its history.
LEMMA Effects ==
  ASSUME ~Product, NEW r \in Jobs, NEW f \in Files
  PROVE  /\ Upload(r) =>
              /\ PublicId(f) \in store' <=> PublicId(f) \in store \/ f = job[r].file
              /\ f \in lost' <=> f \in lost /\ f # job[r].file
              /\ f \in stray' <=> IF f = job[r].file THEN Contested(r, f) ELSE f \in stray
         /\ DestroySeen(r) =>
              /\ PublicId(f) \in store' <=> PublicId(f) \in store /\ f # job[r].seen
              /\ f \in lost' <=> f \in lost \/ (f = job[r].seen /\ Awaited(r, f))
              /\ f \in stray' <=> f \in stray /\ f # job[r].seen
         /\ DestroyRefused(r) =>
              /\ store' = store
              /\ f \in lost' <=> f \in lost
              /\ f \in stray' <=> f \in stray \/ f = job[r].seen
<1>1. \A g : PublicId(g) = PublicId(f) <=> g = f
  BY Names
<1>2. ExtractPublicID(Url(job[r].seen)) = PublicId(job[r].seen)
  BY Names
<1>3. ASSUME Upload(r)
      PROVE  /\ PublicId(f) \in store' <=> PublicId(f) \in store \/ f = job[r].file
             /\ f \in lost' <=> f \in lost /\ f # job[r].file
             /\ f \in stray' <=> IF f = job[r].file THEN Contested(r, f) ELSE f \in stray
  BY <1>1, <1>3 DEF Upload, UploadImage, History
<1>4. ASSUME DestroySeen(r)
      PROVE  /\ PublicId(f) \in store' <=> PublicId(f) \in store /\ f # job[r].seen
             /\ f \in lost' <=> f \in lost \/ (f = job[r].seen /\ Awaited(r, f))
             /\ f \in stray' <=> f \in stray /\ f # job[r].seen
  BY <1>1, <1>2, <1>4 DEF DestroySeen, DeleteImage, History
<1>5. ASSUME DestroyRefused(r)
      PROVE  /\ store' = store
             /\ f \in lost' <=> f \in lost
             /\ f \in stray' <=> f \in stray \/ f = job[r].seen
  BY <1>5 DEF DestroyRefused, History
<1>6. QED
  BY <1>3, <1>4, <1>5

\* What a failure does to one image and to its history.
LEMMA FailEffects ==
  ASSUME TypeOK, StagesAreSound, ~Product, NEW r \in Jobs, Fail(r), NEW f \in Files
  PROVE  /\ PastDeletion(r) /\ f = job[r].seen => f \in lost'
         /\ \/ /\ store' = store
               /\ f \in lost => f \in lost'
               /\ f \in stray' <=> f \in stray \/ f \in Uploaded(r)
            \/ /\ job[r].stage = "upload"
               /\ PublicId(f) \in store' <=> PublicId(f) \in store \/ f = job[r].file
               /\ f \in lost => f \in lost' \/ f = job[r].file
               /\ f \in stray' <=> f \in stray \/ f = job[r].file
            \/ /\ job[r].stage = "deleteOld"
               /\ PublicId(f) \in store' <=> PublicId(f) \in store /\ f # job[r].seen
               /\ f \in lost' <=> f \in lost \/ f = job[r].seen
               /\ f \in stray' <=> f \in stray /\ f # job[r].seen
<1>1. \A g : PublicId(g) = PublicId(f) <=> g = f
  BY Names
<1>2. ExtractPublicID(Url(job[r].seen)) = PublicId(job[r].seen)
  BY Names
<1>3. CASE store' = store /\ History(lost \cup (IF PastDeletion(r) THEN {job[r].seen} ELSE {}),
                                     stray \cup Uploaded(r))
  BY <1>3 DEF History
<1>4. CASE /\ job[r].stage = "upload" /\ UploadImage(job[r].file)
           /\ History((lost \ {job[r].file}) \cup (IF PastDeletion(r) THEN {job[r].seen} ELSE {}),
                      stray \cup {job[r].file})
  BY <1>1, <1>4 DEF History, UploadImage
<1>5. CASE /\ job[r].stage = "deleteOld" /\ DeleteImage(ExtractPublicID(Url(job[r].seen)))
           /\ History(lost \cup {job[r].seen}, stray \ {job[r].seen})
  BY <1>1, <1>2, <1>5 DEF History, DeleteImage
<1>6. QED
  BY <1>3, <1>4, <1>5 DEF Fail

\* With a row that is not live, or none, no image is shown.
LEMMA RowAfter ==
  ASSUME TypeOK, StagesAreSound, NEW r \in Jobs
  PROVE  /\ CreateCommit(r) \/ (\E applied \in BOOLEAN : CreateCommitFails(r, applied)) =>
              /\ row = NoRow /\ ~Live
              /\ Live' => row'.img = job[r].file
         /\ CreateCommit(r) => Live' /\ row'.img = job[r].file
         /\ UpdateWrite(r) => IF Live THEN Live' /\ row'.img = job[r].url ELSE ~Live'
         /\ SoftDelete(r) => ~Live'
<1>1. ASSUME At(r, "create", "commit")
      PROVE  /\ row = NoRow /\ ~Live
             /\ [img |-> job[r].file, live |-> TRUE] # NoRow
  <2>1. job[r].file \in MaybeFile
    BY <1>1, Stages DEF At
  <2>2. [img |-> job[r].file, live |-> TRUE] \in [img : MaybeFile, live : BOOLEAN]
    BY <2>1
  <2>3. QED
    BY <1>1, <2>2, CatalogueAssumption DEF At, StagesAreSound, Live, MaybeFile
<1>2. ASSUME CreateCommit(r) \/ \E applied \in BOOLEAN : CreateCommitFails(r, applied)
      PROVE  Live' => row'.img = job[r].file
  BY <1>1, <1>2 DEF CreateCommit, CreateCommitFails, Live
<1>3. ASSUME CreateCommit(r) PROVE Live' /\ row'.img = job[r].file
  BY <1>1, <1>3 DEF CreateCommit, Live
<1>4. ASSUME UpdateWrite(r)
      PROVE  IF Live THEN Live' /\ row'.img = job[r].url ELSE ~Live'
  <2>1. job[r].op = "update" /\ row' = IF Live THEN Written(r) ELSE row
    BY <1>4 DEF UpdateWrite, At
  <2>2. /\ Written(r) \in [img : MaybeFile, live : BOOLEAN]
        /\ Written(r).live = row.live /\ Written(r).img = job[r].url
    BY <2>1, WrittenRow
  <2>3. Written(r) # NoRow
    BY <2>2, CatalogueAssumption DEF MaybeFile
  <2>4. QED
    BY <2>1, <2>2, <2>3 DEF Live
<1>5. ASSUME SoftDelete(r) PROVE ~Live'
  <2>1. row \in [img : MaybeFile, live : BOOLEAN] /\ row' = [row EXCEPT !.live = FALSE]
    BY <1>5 DEF SoftDelete, At, TypeOK, StagesAreSound
  <2>2. QED
    BY <2>1 DEF Live
<1>6. QED
  BY <1>1, <1>2, <1>3, <1>4, <1>5 DEF CreateCommit, CreateCommitFails

-----------------------------------------------------------------------------
(* Brands and categories: no image is lost without a cause.                *)

LossSound(f) ==
  /\ Live /\ row.img = f /\ PublicId(f) \notin store =>
       f \in lost \/ \E r \in Jobs : PastDeletion(r) /\ job[r].seen = f
  /\ \A r \in Jobs : f \in Uploaded(r) => PublicId(f) \in store \/ f \in lost

LEMMA LossNext ==
  ASSUME TypeOK, StagesAreSound, ~Product, [Next]_vars, NEW f \in Files, LossSound(f)
  PROVE  LossSound(f)'
<1> f # NoFile
  BY CatalogueAssumption
<1>1. CASE UNCHANGED vars
  BY <1>1 DEF vars, LossSound, Live, Uploaded, PastDeletion, Product, At
<1>2. CASE Restore
  <2>1. row \in [img : MaybeFile, live : BOOLEAN]
    BY <1>2 DEF Restore, TypeOK
  <2>2. row'.img = row.img /\ (row.live => row' = row)
    BY <1>2, <2>1 DEF Restore
  <2>3. /\ f \in lost => f \in lost'
        /\ ~row.live /\ row.img = f => f \in lost'
    BY <1>2 DEF Restore, History
  <2>4. \A q \in Jobs : /\ job'[q] = job[q]
                        /\ f \in Uploaded(q)' <=> f \in Uploaded(q)
                        /\ PastDeletion(q)' <=> PastDeletion(q)
    BY <1>2, Unmoved DEF Restore
  <2>5. QED
    BY <1>2, <2>2, <2>3, <2>4 DEF LossSound, Restore, Live
<1>3. ASSUME NEW p \in Jobs, NEW file \in MaybeFile, Create(p, file) PROVE LossSound(f)'
  <2>1. PICK x : /\ Begun(p, x) /\ x.op = "create" /\ x.file = file
                 /\ x.stage = IF file = NoFile THEN "commit" ELSE "upload"
    BY <1>3, CreateBegins
  <2>2. \A q \in Jobs : f \notin Uploaded(q)'
    BY <1>3, <2>1, UploadedFiles DEF Begun, Create, NoJob
  <2>3. ~Live'
    BY <1>3 DEF Create, Live
  <2>4. QED
    BY <2>2, <2>3 DEF LossSound
\* A request that begins holds nothing and has deleted nothing.
<1>4. ASSUME NEW p \in Jobs, NEW x, Begun(p, x), job[p] = NoJob, row' = row, store' = store,
             NoHistory, x.op \in {"update", "delete"},
             x.op = "update" /\ x.stage = "write" => x.file = NoFile
      PROVE  LossSound(f)'
  <2>1. f \notin Uploaded(p)' /\ ~PastDeletion(p)
    BY <1>4, UploadedFiles DEF Begun, NoJob, PastDeletion
  <2>2. \A q \in Jobs \ {p} : /\ job'[q] = job[q]
                              /\ f \in Uploaded(q)' <=> f \in Uploaded(q)
                              /\ PastDeletion(q)' <=> PastDeletion(q)
    BY <1>4, Unmoved DEF Begun
  <2>3. QED
    BY <1>4, <2>1, <2>2 DEF LossSound, NoHistory, Live
<1>5. ASSUME NEW p \in Jobs, NEW file \in MaybeFile, UpdateRead(p, file) PROVE LossSound(f)'
  <2>1. PICK x : /\ Begun(p, x) /\ x.op = "update" /\ x.file = file
                 /\ x.stage = FirstStage(row.img, file)
    BY <1>5, UpdateBegins
  <2>2. QED
    BY <1>4, <1>5, <2>1 DEF UpdateRead, FirstStage
<1>6. ASSUME NEW p \in Jobs, DeleteRead(p) PROVE LossSound(f)'
  <2>1. PICK x : Begun(p, x) /\ x.op = "delete"
    BY <1>6, DeleteBegins
  <2>2. QED
    BY <1>4, <1>6, <2>1 DEF DeleteRead
<1>7. ASSUME NEW p \in Jobs, CreateStep(p) PROVE LossSound(f)'
  <2>1. /\ job[p].op = "create" /\ row = NoRow /\ \A q \in Jobs \ {p} : job[q] = NoJob
    BY <1>7, StepsOf DEF StagesAreSound
  <2>2. CASE CreateUpload(p)
    <3>1. /\ \A q \in Jobs \ {p} : job'[q] = NoJob
          /\ \/ Upload(p) /\ job'[p].file = job[p].file
             \/ job'[p].file = NoFile
          /\ job'[p].op = "create"
      BY <2>1, <2>2, CreateUploads DEF Goes
    <3>2. ~Live'
      BY <2>1, <2>2 DEF CreateUpload, Live
    <3>3. \A q \in Jobs \ {p} : f \notin Uploaded(q)'
      BY <3>1, Unmoved
    <3>4. f \in Uploaded(p)' => PublicId(f) \in store'
      BY <3>1, UploadedFiles, Effects
    <3>5. QED
      BY <3>2, <3>3, <3>4 DEF LossSound
  <2>3. CASE CreateCommit(p) \/ \E applied \in BOOLEAN : CreateCommitFails(p, applied)
    <3>1. \A q \in Jobs : f \notin Uploaded(q)'
      BY <2>1, <2>3, CreateSteps, Unmoved DEF Ends
    <3>2. Live' => row'.img = job[p].file
      BY <2>3, RowAfter
    <3>3. Images(job[p].file) \subseteq store
      BY <2>3 DEF StagesAreSound, CreateCommit, CreateCommitFails, At
    <3>4. PublicId(f) \in store => PublicId(f) \in store'
      BY <2>3, Names DEF CreateCommit, CreateCommitFails, DeleteImage
    <3>5. QED
      BY <3>1, <3>2, <3>3, <3>4 DEF LossSound, Images
  <2>4. QED
    BY <1>7, <2>2, <2>3 DEF CreateStep
\* The other requests, while one goes on or ends.
<1>8. ASSUME NEW p \in Jobs, Ends(p) \/ \E stage : Goes(p, stage)
      PROVE  \A q \in Jobs \ {p} : /\ job'[q] = job[q]
                                   /\ f \in Uploaded(q)' <=> f \in Uploaded(q)
                                   /\ PastDeletion(q)' <=> PastDeletion(q)
  BY <1>8, Unmoved DEF Ends, Goes
<1>9. ASSUME NEW p \in Jobs, UpdateDeleteOld(p) \/ DeleteDeleteImage(p) PROVE LossSound(f)'
  <2>1. /\ job[p].stage = "deleteOld" /\ job[p].op \in {"update", "delete"}
        /\ row' = row /\ (DestroySeen(p) \/ DestroyRefused(p))
    BY <1>9 DEF UpdateDeleteOld, DeleteDeleteImage, At
  <2>2. PICK stage \in {"upload", "softDelete"} : Goes(p, stage)
    BY <1>9, UpdateSteps, DeleteSteps
  <2>3. f \notin Uploaded(p)' /\ f \notin Uploaded(p)
    BY <2>1, <2>2, UploadedFiles DEF Goes
  <2>4. PastDeletion(p)' /\ job'[p].seen = job[p].seen
    <3>1. job[p].seen # NoFile /\ (job[p].op = "update" => job[p].file # NoFile)
      BY <2>1 DEF StagesAreSound
    <3>2. QED
      BY <2>1, <2>2, <3>1, KindStays DEF Goes, PastDeletion
  <2>5. ~PastDeletion(p)
    BY <2>1 DEF PastDeletion
  <2>6. CASE DestroySeen(p)
    <3>1. /\ PublicId(f) \in store' <=> PublicId(f) \in store /\ f # job[p].seen
          /\ f \in lost => f \in lost'
          /\ f = job[p].seen /\ Awaited(p, f) => f \in lost'
      BY <2>6, Effects
    <3>2. \A q \in Jobs \ {p} : f \in Uploaded(q) => Awaited(p, f)
      BY DEF Awaited
    <3>3. QED
      BY <1>8, <2>1, <2>2, <2>3, <2>4, <2>5, <3>1, <3>2 DEF LossSound, Live
  <2>7. CASE DestroyRefused(p)
    <3>1. store' = store /\ (f \in lost' <=> f \in lost)
      BY <2>7, Effects
    <3>2. QED
      BY <1>8, <2>1, <2>2, <2>3, <2>5, <3>1 DEF LossSound, Live
  <2>8. QED
    BY <2>1, <2>6, <2>7
<1>10. ASSUME NEW p \in Jobs, UpdateUpload(p) PROVE LossSound(f)'
  <2>1. /\ Goes(p, "write") /\ row' = row
        /\ job[p].op = "update" /\ job[p].stage = "upload" /\ job[p].file \in Files
        /\ \/ Upload(p) /\ job'[p].url = job[p].file
           \/ store' = store /\ NoHistory /\ job'[p].url = NoFile
    BY <1>10, UpdateUploads DEF UpdateUpload
  <2>2. f \notin Uploaded(p) /\ (f \in Uploaded(p)' => f = job'[p].url)
    BY <2>1, UploadedFiles DEF Goes
  <2>3. (PastDeletion(p)' <=> PastDeletion(p)) /\ job'[p].seen = job[p].seen
    BY <2>1, KindStays DEF Goes, PastDeletion
  <2>4. CASE Upload(p) /\ job'[p].url = job[p].file
    <3>1. /\ PublicId(f) \in store' <=> PublicId(f) \in store \/ f = job[p].file
          /\ f \in lost' <=> f \in lost /\ f # job[p].file
      BY <2>4, Effects
    <3>2. QED
      BY <1>8, <2>1, <2>2, <2>3, <2>4, <3>1 DEF LossSound, Live
  <2>5. CASE store' = store /\ NoHistory /\ job'[p].url = NoFile
    BY <1>8, <2>1, <2>2, <2>3, <2>5 DEF LossSound, Live, NoHistory
  <2>6. QED
    BY <2>1, <2>4, <2>5
<1>11. ASSUME NEW p \in Jobs, UpdateWrite(p) PROVE LossSound(f)'
  <2>1. /\ Ends(p) /\ store' = store /\ job[p].op = "update" /\ job[p].stage = "write"
        /\ IF Live THEN Live' /\ row'.img = job[p].url ELSE ~Live'
    BY <1>11, UpdateSteps, RowAfter DEF UpdateWrite, At
  <2>2. /\ f \in lost => f \in lost'
        /\ Stale(p) /\ job[p].file = NoFile /\ job[p].url = f => f \in lost'
    BY <1>11 DEF UpdateWrite, History
  <2>3. f \notin Uploaded(p)' /\ ~PastDeletion(p)'
    BY <2>1, Unmoved DEF Ends
  <2>4. CASE job[p].file = NoFile
    <3>1. job[p].url = job[p].seen /\ ~PastDeletion(p)
      BY <2>1, <2>4 DEF StagesAreSound, PastDeletion
    <3>2. QED
      BY <1>8, <2>1, <2>2, <2>3, <2>4, <3>1 DEF LossSound, Stale
  <2>5. CASE job[p].file # NoFile
    <3>1. job[p].url = f => f \in Uploaded(p)
      BY <2>1, <2>5, UploadedFiles
    <3>2. QED
      BY <1>8, <2>1, <2>2, <2>3, <3>1 DEF LossSound
  <2>6. QED
    BY <2>4, <2>5
<1>12. ASSUME NEW p \in Jobs, SoftDelete(p) PROVE LossSound(f)'
  <2>1. Ends(p) /\ ~Live' /\ store' = store
    BY <1>12, DeleteSteps, RowAfter DEF SoftDelete
  <2>2. f \in lost => f \in lost'
    BY <1>12 DEF SoftDelete, History
  <2>3. f \notin Uploaded(p)'
    BY <2>1, Unmoved DEF Ends
  <2>4. QED
    BY <1>8, <2>1, <2>2, <2>3 DEF LossSound
<1>13. ASSUME NEW p \in Jobs, Fail(p) PROVE LossSound(f)'
  <2>1. Ends(p) /\ row' = row
    BY <1>13, DeleteSteps DEF Fail
  <2>2. f \notin Uploaded(p)' /\ ~PastDeletion(p)'
    BY <2>1, Unmoved DEF Ends
  <2>3. /\ PastDeletion(p) /\ f = job[p].seen => f \in lost'
        /\ \/ PublicId(f) \in store' /\ f \notin lost'
           \/ /\ f \in lost => f \in lost'
              /\ PublicId(f) \in store => PublicId(f) \in store' \/ f \in lost'
    BY <1>13, FailEffects
  <2>4. QED
    BY <1>8, <2>1, <2>2, <2>3 DEF LossSound, Live
<1>14. ASSUME NEW p \in Jobs PROVE ~Cleanup(p) /\ ~UpdateCommit(p)
                                   /\ \A applied \in BOOLEAN : ~UpdateCommitFails(p, applied)
  BY DEF Cleanup, UpdateCommit, UpdateCommitFails, StagesAreSound
<1>15. QED
  BY <1>1, <1>2, <1>3, <1>5, <1>6, <1>7, <1>9, <1>10, <1>11, <1>12, <1>13, <1>14, StepCases
  DEF UpdateStep, DeleteStep

-----------------------------------------------------------------------------
(* Brands and categories: no image stays without a cause.                  *)

StraySound(f) ==
  /\ PublicId(f) \in store /\ ~(Live /\ row.img = f) =>
       f \in stray \/ \E r \in Jobs : f \in Uploaded(r)
  /\ \A r \in Jobs : PastDeletion(r) /\ job[r].seen = f /\ PublicId(f) \in store =>
                       f \in stray \/ f \in Uploaded(r)

LEMMA StrayNext ==
  ASSUME TypeOK, StagesAreSound, ~Product, [Next]_vars, NEW f \in Files, StraySound(f)
  PROVE  StraySound(f)'
<1> f # NoFile
  BY CatalogueAssumption
<1>1. CASE UNCHANGED vars
  BY <1>1 DEF vars, StraySound, Live, Uploaded, PastDeletion, Product, At
<1>2. CASE Restore
  <2>1. row \in [img : MaybeFile, live : BOOLEAN] /\ row # NoRow
    BY <1>2 DEF Restore, TypeOK
  <2>2. Live /\ row.img = f => Live' /\ row'.img = f
    BY <1>2, <2>1, RowStays DEF Restore, Live
  <2>3. store' = store /\ (f \in stray' <=> f \in stray)
    BY <1>2 DEF Restore, History
  <2>4. \A q \in Jobs : /\ job'[q] = job[q]
                        /\ f \in Uploaded(q)' <=> f \in Uploaded(q)
                        /\ PastDeletion(q)' <=> PastDeletion(q)
    BY <1>2, Unmoved DEF Restore
  <2>5. QED
    BY <2>2, <2>3, <2>4 DEF StraySound
<1>3. ASSUME NEW p \in Jobs, NEW file \in MaybeFile, Create(p, file) PROVE StraySound(f)'
  BY <1>3 DEF Create, StraySound
\* A request that begins has deleted nothing.
<1>4. ASSUME NEW p \in Jobs, NEW x, Begun(p, x), job[p] = NoJob, row' = row, store' = store,
             NoHistory, x.op \in {"update", "delete"},
             x.seen # NoFile => x.stage = "deleteOld" \/ (x.op = "update" /\ x.file = NoFile)
      PROVE  StraySound(f)'
  <2>1. f \notin Uploaded(p) /\ ~PastDeletion(p)'
    BY <1>4, UploadedFiles DEF Begun, NoJob, PastDeletion
  <2>2. \A q \in Jobs \ {p} : /\ job'[q] = job[q]
                              /\ f \in Uploaded(q)' <=> f \in Uploaded(q)
                              /\ PastDeletion(q)' <=> PastDeletion(q)
    BY <1>4, Unmoved DEF Begun
  <2>3. QED
    BY <1>4, <2>1, <2>2 DEF StraySound, NoHistory, Live
<1>5. ASSUME NEW p \in Jobs, NEW file \in MaybeFile, UpdateRead(p, file) PROVE StraySound(f)'
  <2>1. PICK x : /\ Begun(p, x) /\ x.op = "update" /\ x.file = file /\ x.seen = row.img
                 /\ x.stage = FirstStage(row.img, file)
    BY <1>5, UpdateBegins
  <2>2. x.seen # NoFile => x.stage = "deleteOld" \/ x.file = NoFile
    BY <2>1 DEF FirstStage
  <2>3. QED
    BY <1>4, <1>5, <2>1, <2>2 DEF UpdateRead
<1>6. ASSUME NEW p \in Jobs, DeleteRead(p) PROVE StraySound(f)'
  <2>1. PICK x : /\ Begun(p, x) /\ x.op = "delete" /\ x.seen = row.img
                 /\ x.stage = IF Product \/ row.img = NoFile THEN "softDelete" ELSE "deleteOld"
    BY <1>6, DeleteBegins
  <2>2. QED
    BY <1>4, <1>6, <2>1 DEF DeleteRead
<1>7. ASSUME NEW p \in Jobs, CreateStep(p) PROVE StraySound(f)'
  <2>1. /\ job[p].op = "create" /\ row = NoRow /\ ~Live
        /\ \A q \in Jobs \ {p} : job[q] = NoJob
    BY <1>7, StepsOf DEF StagesAreSound, Live
  <2>2. \A q \in Jobs : ~PastDeletion(q)'
    <3>1. \A q \in Jobs \ {p} : job'[q] = NoJob
      BY <1>7, <2>1, CreateSteps DEF CreateStep, Goes, Ends
    <3>2. job'[p] = NoJob \/ job'[p].op = "create"
      BY <1>7, <2>1, CreateSteps DEF CreateStep, Goes, Ends
    <3>3. QED
      BY <3>1, <3>2, Unmoved DEF PastDeletion
  <2>3. \A q \in Jobs \ {p} : f \notin Uploaded(q)
    BY <2>1, UploadedFiles DEF NoJob
  <2>4. CASE CreateUpload(p)
    <3>1. f \notin Uploaded(p)
      BY <2>4, UploadedFiles DEF CreateUpload, At
    <3>2. CASE Upload(p) /\ job'[p].file = job[p].file
      <4>1. Goes(p, "commit")
        BY <2>4, CreateUploads
      <4>2. f = job[p].file => f \in Uploaded(p)'
        BY <2>1, <3>2, <4>1, UploadedFiles DEF Goes
      <4>3. f # job[p].file => /\ PublicId(f) \in store' <=> PublicId(f) \in store
                               /\ f \in stray' <=> f \in stray
        BY <3>2, Effects
      <4>4. QED
        BY <2>1, <2>2, <2>3, <3>1, <4>2, <4>3 DEF StraySound
    <3>3. CASE store' = store /\ NoHistory
      BY <2>1, <2>2, <2>3, <3>1, <3>3 DEF StraySound, NoHistory
    <3>4. QED
      BY <2>4, <3>2, <3>3, CreateUploads
  <2>5. CASE CreateCommit(p)
    <3>1. Live' /\ row'.img = job[p].file
      BY <2>5, RowAfter
    <3>2. f \in Uploaded(p) => f = job[p].file
      BY <2>1, UploadedFiles
    <3>3. store' = store /\ (f \in stray' <=> f \in stray)
      BY <2>5 DEF CreateCommit, NoHistory
    <3>4. QED
      BY <2>1, <2>2, <2>3, <3>1, <3>2, <3>3 DEF StraySound
  <2>6. ASSUME NEW applied \in BOOLEAN, CreateCommitFails(p, applied) PROVE StraySound(f)'
    <3>1. /\ PublicId(f) \in store' => PublicId(f) \in store
          /\ f \in stray' <=> f \in stray \/ f \in Uploaded(p)
      BY <2>6 DEF CreateCommitFails, DeleteImage, History
    <3>2. QED
      BY <2>1, <2>2, <2>3, <3>1 DEF StraySound
  <2>7. QED
    BY <1>7, <2>4, <2>5, <2>6 DEF CreateStep
\* The other requests, while one goes on or ends.
<1>8. ASSUME NEW p \in Jobs, Ends(p) \/ \E stage : Goes(p, stage)
      PROVE  \A q \in Jobs \ {p} : /\ job'[q] = job[q]
                                   /\ f \in Uploaded(q)' <=> f \in Uploaded(q)
                                   /\ PastDeletion(q)' <=> PastDeletion(q)
  BY <1>8, Unmoved DEF Ends, Goes
<1>9. ASSUME NEW p \in Jobs, UpdateDeleteOld(p) \/ DeleteDeleteImage(p) PROVE StraySound(f)'
  <2>1. /\ job[p].stage = "deleteOld" /\ job[p].op \in {"update", "delete"}
        /\ row' = row /\ (DestroySeen(p) \/ DestroyRefused(p))
    BY <1>9 DEF UpdateDeleteOld, DeleteDeleteImage, At
  <2>2. PICK stage \in {"upload", "softDelete"} : Goes(p, stage)
    BY <1>9, UpdateSteps, DeleteSteps
  <2>3. f \notin Uploaded(p) /\ job'[p].seen = job[p].seen
    BY <2>1, <2>2, UploadedFiles DEF Goes
  <2>4. CASE DestroySeen(p)
    <3>1. /\ PublicId(f) \in store' <=> PublicId(f) \in store /\ f # job[p].seen
          /\ f \in stray' <=> f \in stray /\ f # job[p].seen
      BY <2>4, Effects
    <3>2. QED
      BY <1>8, <2>1, <2>2, <2>3, <3>1 DEF StraySound, Live
  <2>5. CASE DestroyRefused(p)
    <3>1. store' = store /\ (f \in stray' <=> f \in stray \/ f = job[p].seen)
      BY <2>5, Effects
    <3>2. QED
      BY <1>8, <2>1, <2>2, <2>3, <3>1 DEF StraySound, Live
  <2>6. QED
    BY <2>1, <2>4, <2>5
<1>10. ASSUME NEW p \in Jobs, UpdateUpload(p) PROVE StraySound(f)'
  <2>1. /\ Goes(p, "write") /\ row' = row
        /\ job[p].op = "update" /\ job[p].stage = "upload" /\ job[p].file \in Files
        /\ \/ Upload(p) /\ job'[p].url = job[p].file
           \/ store' = store /\ NoHistory /\ job'[p].url = NoFile
    BY <1>10, UpdateUploads DEF UpdateUpload
  <2>2. f \notin Uploaded(p)
    BY <2>1, UploadedFiles
  <2>3. (PastDeletion(p)' <=> PastDeletion(p)) /\ job'[p].seen = job[p].seen
    BY <2>1, KindStays DEF Goes, PastDeletion
  <2>4. CASE Upload(p) /\ job'[p].url = job[p].file
    <3>1. /\ PublicId(f) \in store' <=> PublicId(f) \in store \/ f = job[p].file
          /\ f \in stray' <=> IF f = job[p].file THEN Contested(p, f) ELSE f \in stray
      BY <2>4, Effects
    <3>2. CASE f = job[p].file
      <4>1. f \in Uploaded(p)'
        BY <2>1, <2>4, <3>2, UploadedFiles, CatalogueAssumption DEF Goes
      <4>2. \A q \in Jobs \ {p} : PastDeletion(q)' /\ job'[q].seen = f => f \in stray'
        BY <1>8, <2>1, <3>1, <3>2 DEF Contested
      <4>3. QED
        BY <4>1, <4>2 DEF StraySound
    <3>3. CASE f # job[p].file
      BY <1>8, <2>1, <2>2, <2>3, <3>1, <3>3 DEF StraySound, Live
    <3>4. QED
      BY <3>2, <3>3
  <2>5. CASE store' = store /\ NoHistory
    BY <1>8, <2>1, <2>2, <2>3, <2>5 DEF StraySound, Live, NoHistory
  <2>6. QED
    BY <2>1, <2>4, <2>5
<1>11. ASSUME NEW p \in Jobs, UpdateWrite(p) PROVE StraySound(f)'
  <2>1. /\ Ends(p) /\ store' = store /\ job[p].op = "update" /\ job[p].stage = "write"
        /\ IF Live THEN Live' /\ row'.img = job[p].url ELSE ~Live'
    BY <1>11, UpdateSteps, RowAfter DEF UpdateWrite, At
  <2>2. /\ f \in stray => f \in stray'
        /\ Stale(p) /\ row.img = f => f \in stray'
        /\ ~Live /\ f \in Uploaded(p) => f \in stray'
    BY <1>11 DEF UpdateWrite, History, Stale
  <2>3. ~PastDeletion(p)'
    BY <2>1, Unmoved DEF Ends
  <2>4. f \in Uploaded(p) => f = job[p].url
    BY <2>1, UploadedFiles
  <2>5. \A q \in Jobs \ {p} : PastDeletion(q)' /\ job'[q].seen = f /\ PublicId(f) \in store' =>
                                f \in stray' \/ f \in Uploaded(q)'
    BY <1>8, <2>1, <2>2 DEF StraySound
  <2>6. CASE Live /\ row.img = f /\ f # job[p].url
    <3>1. ~Stale(p) => job[p].seen = f
      BY <2>6 DEF Stale
    <3>2. job[p].seen = f => PastDeletion(p)
      BY <2>1, <2>6 DEF PastDeletion, StagesAreSound
    <3>3. PublicId(f) \in store => f \in stray'
      BY <2>2, <2>4, <2>6, <3>1, <3>2 DEF StraySound
    <3>4. QED
      BY <2>1, <2>3, <2>5, <3>3 DEF StraySound
  <2>7. CASE ~(Live /\ row.img = f /\ f # job[p].url)
    BY <1>8, <2>1, <2>2, <2>3, <2>4, <2>5, <2>7 DEF StraySound
  <2>8. QED
    BY <2>6, <2>7
<1>12. ASSUME NEW p \in Jobs, SoftDelete(p) PROVE StraySound(f)'
  <2>1. /\ Ends(p) /\ ~Live' /\ store' = store
        /\ job[p].op = "delete" /\ job[p].stage = "softDelete"
    BY <1>12, DeleteSteps, RowAfter DEF SoftDelete, At
  <2>2. /\ f \in stray => f \in stray'
        /\ Stale(p) /\ row.img = f => f \in stray'
    BY <1>12 DEF SoftDelete, History
  <2>3. ~PastDeletion(p)' /\ f \notin Uploaded(p)
    BY <2>1, Unmoved, UploadedFiles DEF Ends
  <2>4. Live /\ row.img = f /\ PublicId(f) \in store => f \in stray'
    <3>1. Live /\ row.img = f /\ ~Stale(p) => PastDeletion(p) /\ job[p].seen = f
      BY <2>1 DEF Stale, PastDeletion
    <3>2. QED
      BY <2>2, <2>3, <3>1 DEF StraySound
  <2>5. QED
    BY <1>8, <2>1, <2>2, <2>3, <2>4 DEF StraySound
<1>13. ASSUME NEW p \in Jobs, Fail(p) PROVE StraySound(f)'
  <2>1. Ends(p) /\ row' = row
    BY <1>13, DeleteSteps DEF Fail
  <2>2. ~PastDeletion(p)'
    BY <2>1, Unmoved DEF Ends
  <2>3. \/ PublicId(f) \in store' => f \in stray'
        \/ /\ PublicId(f) \in store' => PublicId(f) \in store
           /\ f \in stray => f \in stray'
           /\ f \in Uploaded(p) => f \in stray'
    BY <1>13, FailEffects, UploadedFiles
  <2>4. QED
    BY <1>8, <2>1, <2>2, <2>3 DEF StraySound, Live
<1>14. ASSUME NEW p \in Jobs PROVE ~Cleanup(p) /\ ~UpdateCommit(p)
                                   /\ \A applied \in BOOLEAN : ~UpdateCommitFails(p, applied)
  BY DEF Cleanup, UpdateCommit, UpdateCommitFails, StagesAreSound
<1>15. QED
  BY <1>1, <1>2, <1>3, <1>5, <1>6, <1>7, <1>9, <1>10, <1>11, <1>12, <1>13, <1>14, StepCases
  DEF UpdateStep, DeleteStep

-----------------------------------------------------------------------------
(* The theorems.                                                           *)

\* The invariants of the images, image by image.
LEMMA ImageByImage ==
  /\ DanglingHasACause /\ UploadedIsThere <=> (~Product => \A f \in Files : LossSound(f))
  /\ LeftoverHasACause /\ DeletedIsGone <=> (~Product => \A f \in Files : StraySound(f))
  BY DEF DanglingHasACause, UploadedIsThere, LossSound, LeftoverHasACause, DeletedIsGone, StraySound

LEMMA Initially == Init => IInv
<1> SUFFICES ASSUME Init PROVE IInv
  OBVIOUS
<1>1. TypeOK
  BY TypeInit
<1>2. row = NoRow /\ store = {} /\ \A r \in Jobs : job[r] = NoJob
  BY DEF Init
<1>3. StagesAreSound /\ ProductHasItsImage /\ ProductsWriteWhatIsThere
  BY <1>2 DEF StagesAreSound, ProductHasItsImage, ProductsWriteWhatIsThere, Shown, NoJob
<1>4. \A r \in Jobs : \A f : f \notin Uploaded(r)
  BY <1>2, UploadedFiles DEF NoJob
<1>5. DanglingHasACause /\ UploadedIsThere /\ LeftoverHasACause /\ DeletedIsGone
  BY <1>2, <1>4 DEF DanglingHasACause, UploadedIsThere, LeftoverHasACause, DeletedIsGone, Live
<1>6. QED
  BY <1>1, <1>3, <1>5 DEF IInv

LEMMA Inductive == IInv /\ [Next]_vars => IInv'
<1> SUFFICES ASSUME IInv, [Next]_vars PROVE IInv'
  OBVIOUS
<1>1. TypeOK' /\ StagesAreSound'
  BY TypeNext, StagesNext DEF IInv
<1>2. ProductHasItsImage' /\ ProductsWriteWhatIsThere'
  BY ProductShownNext, ProductsWriteNext DEF IInv
<1>3. ASSUME ~Product', NEW f \in Files PROVE LossSound(f)' /\ StraySound(f)'
  <2>1. ~Product
    BY <1>3, KindStays
  <2>2. LossSound(f) /\ StraySound(f)
    BY <2>1, ImageByImage DEF IInv
  <2>3. QED
    BY <2>1, <2>2, LossNext, StrayNext DEF IInv
<1>4. DanglingHasACause' /\ UploadedIsThere'
  BY <1>3 DEF DanglingHasACause, UploadedIsThere, LossSound
<1>5. LeftoverHasACause' /\ DeletedIsGone'
  BY <1>3 DEF LeftoverHasACause, DeletedIsGone, StraySound
<1>6. QED
  BY <1>1, <1>2, <1>4, <1>5 DEF IInv

LEMMA Invariance == Spec => []IInv
  BY Initially, Inductive, PTL DEF Spec

\* The requests of the three services have the types of their steps, for any number of
\* concurrent requests.
THEOREM TypeCorrect == Spec => []TypeOK
<1>1. IInv => TypeOK
  BY DEF IInv
<1>2. QED
  BY <1>1, Invariance, PTL

\* A product's row always shows an image that exists: the product service uploads first,
\* writes the row in a transaction, and its clean-ups name no image.
THEOREM ProductsKeepTheirImage == Spec => []ProductHasItsImage
<1>1. IInv => ProductHasItsImage
  BY DEF IInv
<1>2. QED
  BY <1>1, Invariance, PTL

\* A live brand or category that shows a lost image owes it to what happened to that very
\* image: its deletion by a request that has not written the row or never did, a deletion
\* under an upload not yet written, a stale write-back, or a restoration.
THEOREM LossesAreExplained == Spec => []DanglingHasACause
<1>1. IInv => DanglingHasACause
  BY DEF IInv
<1>2. QED
  BY <1>1, Invariance, PTL

\* An image of a brand or category that no live row shows is one that a running request has
\* uploaded, or stayed for a cause that touched that very image: a refused deletion, a
\* request that ended before its write, a row written or deleted after it had changed, or
\* an upload that overlapped its deletion.
THEOREM LeftoversAreExplained == Spec => []LeftoverHasACause
<1>1. IInv => LeftoverHasACause
  BY DEF IInv
<1>2. QED
  BY <1>1, Invariance, PTL
=============================================================================
