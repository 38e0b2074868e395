--------------------------- MODULE ImageStoreProofs ---------------------------
(***************************************************************************)
(* Theorems about ImageStore, for any number of images, documents, workers *)
(* and files and any number of faults.                                     *)
(*                                                                         *)
(* ImagesAreThere is not inductive: that a clean-up deletes no image of a  *)
(* live document rests on who owns an object.  StoreInv says it: a request *)
(* that is creating a document shares its objects with nobody (Private),   *)
(* has them stored (Built), and documents share none (Separate).           *)
(* LeaksAreFaults compares sizes: what a step may leak is bounded action   *)
(* by action (StepLeaks), with no request larger than MaxFiles (Small).    *)
(***************************************************************************)
EXTENDS ImageStore, FiniteSetTheorems, TLAPS

Writing(w) == work[w].step \in {"upload", "insert", "cleanup"}
Building(w) == work[w].step \in {"upload", "insert"}
Own(w) == work[w].images \cup work[w].pending

\* Names are drawn once: whatever is used anywhere has been drawn.
AllDrawn ==
  /\ \A d \in documents : d.images \subseteq drawn
  /\ \A w \in Workers : Writing(w) => Own(w) \subseteq drawn

\* What a request is creating belongs to no document and to no other request.
Private ==
  \A w \in Workers : Building(w) =>
    /\ \A d \in documents : Own(w) \cap d.images = {}
    /\ \A v \in Workers : v # w /\ Writing(v) => Own(w) \cap Own(v) = {}

\* No two documents share an image.
Separate ==
  \A d, e \in documents : d # e => d.images \cap e.images = {}

\* What a request has uploaded so far is stored.
Built == \A w \in Workers : Building(w) => work[w].images \subseteq objects

\* A request deletes no image of a document, but for one whose insert raised.
CleanUpsAreSafe ==
  \A w \in Workers, d \in documents :
    work[w].step = "cleanup" => work[w].images \cap d.images = {} \/ d.id \in unanswered

\* A download is of an image its document has, or had until it was deleted.
ReadsAreOfDocuments ==
  \A w \in Workers : work[w].step = "open" =>
    \/ work[w].id \in deleted
    \/ \E d \in documents : d.id = work[w].id /\ work[w].image \in d.images

StoreInv ==
  /\ TypeOK /\ AllDrawn /\ Private /\ Separate /\ Built /\ CleanUpsAreSafe
  /\ ReadsAreOfDocuments /\ ImagesAreThere

-----------------------------------------------------------------------------
(* Types *)

\* The shape of a job follows from its step.
LEMMA JobTypes ==
  ASSUME TypeOK, NEW w \in Workers
  PROVE  /\ Writing(w) => work[w] \in WriteJob
         /\ work[w].step = "open" => work[w] \in ReadJob
  BY DEF TypeOK, Writing, Job, NoJob, WriteJob, ReadJob

\* A worker takes another job.
LEMMA WorkType ==
  ASSUME work \in [Workers -> Job], NEW w \in Workers, NEW j \in Job,
         work' = [work EXCEPT ![w] = j]
  PROVE  work' \in [Workers -> Job]
  OBVIOUS

\* A worker that is done is idle.
LEMMA FinishType ==
  ASSUME work \in [Workers -> Job], NEW w \in Workers, Finish(w)
  PROVE  work' \in [Workers -> Job]
  BY WorkType DEF Finish, Job

\* A worker that writes goes on to another step.
LEMMA ContinueType ==
  ASSUME work \in [Workers -> Job], NEW w \in Workers, work[w] \in WriteJob,
         NEW step \in {"upload", "insert", "cleanup"}, Continue(w, step)
  PROVE  work' \in [Workers -> Job]
<1>1. [work[w] EXCEPT !.step = step] \in WriteJob
  BY DEF WriteJob
<1>2. QED BY <1>1, WorkType DEF Continue, Job

\* A step that counts a fault stays within the bound.
LEMMA FaultType == TypeOK /\ Fault => faults' \in 0..MaxFaults
  BY ConstantsAssumption DEF TypeOK, Fault, ConstantsAssumption

\* The document made from a request.
LEMMA StoredType ==
  ASSUME NEW job \in WriteJob
  PROVE  /\ Stored(job) \in Document
         /\ Stored(job).id = job.id /\ Stored(job).images = job.images
  BY DEF WriteJob, Stored, Document

\* Every step keeps the types.
LEMMA TypeStep == TypeOK /\ [Next]_vars => TypeOK'
<1> SUFFICES ASSUME TypeOK, [Next]_vars PROVE TypeOK'
  OBVIOUS
<1>0. CASE UNCHANGED vars
  BY <1>0 DEF TypeOK, vars
<1>1. ASSUME NEW w \in Workers, NEW id \in DocumentIds, NEW kind \in Kinds,
             NEW files \in SUBSET Images, BeginCreate(w, id, kind, files)
      PROVE  TypeOK'
  <2>1. [step |-> "upload", id |-> id, kind |-> kind, pending |-> files,
         images |-> {}] \in Job
    BY DEF Job, WriteJob
  <2>2. work' \in [Workers -> Job]
    BY <1>1, <2>1, WorkType DEF TypeOK, BeginCreate, Start
  <2>3. QED BY <1>1, <2>2 DEF TypeOK, BeginCreate
<1>2. ASSUME NEW w \in Workers, NEW d \in documents, DeleteUpdate(w, d) PROVE TypeOK'
  <2>1. d \in Document
    BY DEF TypeOK
  <2>2. RemovalOf(d) \in Job
    BY <2>1 DEF Job, WriteJob, RemovalOf, Document
  <2>3. work' \in [Workers -> Job]
    BY <1>2, <2>2, WorkType DEF TypeOK, DeleteUpdate, Start
  <2>4. QED BY <1>2, <2>1, <2>3 DEF TypeOK, DeleteUpdate, Document
<1>3. ASSUME NEW w \in Workers, NEW d \in documents, NEW i \in d.images, FindImage(w, d, i)
      PROVE  TypeOK'
  <2>1. [step |-> "open", id |-> d.id, image |-> i] \in Job
    BY DEF TypeOK, Document, Job, ReadJob
  <2>2. work' \in [Workers -> Job]
    BY <1>3, <2>1, WorkType DEF TypeOK, FindImage, Start
  <2>3. QED BY <1>3, <2>2 DEF TypeOK, FindImage
<1>4. ASSUME NEW w \in Workers, UploadImage(w) PROVE TypeOK'
  <2>1. work[w] \in WriteJob
    BY <1>4, JobTypes DEF UploadImage, At, Writing
  <2>2. PICK i \in work[w].pending :
          /\ objects' = objects \cup {i}
          /\ work' = [work EXCEPT ![w].pending = @ \ {i}, ![w].images = @ \cup {i}]
    BY <1>4 DEF UploadImage
  <2>3. i \in Images
    BY <2>1 DEF WriteJob
  <2> DEFINE j == [[work[w] EXCEPT !.pending = @ \ {i}] EXCEPT !.images = @ \cup {i}]
  <2>4. j \in WriteJob
    BY <2>1, <2>3 DEF WriteJob
  <2>5. work' = [work EXCEPT ![w] = j]
    BY <2>2 DEF TypeOK
  <2>6. work' \in [Workers -> Job]
    BY <2>4, <2>5, WorkType DEF TypeOK, Job
  <2>7. QED BY <1>4, <2>2, <2>3, <2>6 DEF TypeOK, UploadImage
<1>5. ASSUME NEW w \in Workers, RejectImage(w) \/ EndUploads(w) \/ RejectDocument(w)
      PROVE  TypeOK'
  <2>1. work[w] \in WriteJob
    BY <1>5, JobTypes DEF RejectImage, EndUploads, RejectDocument, At, Writing
  <2>2. work' \in [Workers -> Job]
    BY <1>5, <2>1, ContinueType DEF TypeOK, RejectImage, EndUploads, RejectDocument
  <2>3. QED BY <1>5, <2>2 DEF TypeOK, RejectImage, EndUploads, RejectDocument
<1>6. ASSUME NEW w \in Workers, UploadFails(w) PROVE TypeOK'
  <2>1. work[w] \in WriteJob
    BY <1>6, JobTypes DEF UploadFails, At, Writing
  <2>2. work' \in [Workers -> Job]
    BY <1>6, <2>1, ContinueType DEF TypeOK, UploadFails
  <2>3. objects' \subseteq Images
    BY <1>6, <2>1 DEF TypeOK, UploadFails, WriteJob
  <2>4. faults' \in 0..MaxFaults
    BY <1>6, FaultType DEF UploadFails
  <2>5. QED BY <1>6, <2>2, <2>3, <2>4 DEF TypeOK, UploadFails
<1>7. ASSUME NEW w \in Workers, InsertDocument(w) PROVE TypeOK'
  <2>1. work[w] \in WriteJob
    BY <1>7, JobTypes DEF InsertDocument, At, Writing
  <2>2. Stored(work[w]) \in Document
    BY <2>1, StoredType
  <2>3. work' \in [Workers -> Job]
    BY <1>7, FinishType DEF TypeOK, InsertDocument
  <2>4. QED BY <1>7, <2>2, <2>3 DEF TypeOK, InsertDocument
<1>8. ASSUME NEW w \in Workers, InsertFails(w) PROVE TypeOK'
  <2>1. work[w] \in WriteJob
    BY <1>8, JobTypes DEF InsertFails, At, Writing
  <2>2. Stored(work[w]) \in Document /\ work[w].id \in DocumentIds
    BY <2>1, StoredType DEF WriteJob
  <2>3. work' \in [Workers -> Job]
    BY <1>8, <2>1, ContinueType DEF TypeOK, InsertFails
  <2>4. faults' \in 0..MaxFaults
    BY <1>8, FaultType DEF InsertFails
  <2>5. documents' \subseteq Document /\ unanswered' \subseteq DocumentIds
    BY <1>8, <2>2 DEF TypeOK, InsertFails
  <2>6. QED BY <1>8, <2>3, <2>4, <2>5 DEF TypeOK, InsertFails
<1>9. ASSUME NEW w \in Workers, CleanUpImage(w) PROVE TypeOK'
  <2>1. work[w] \in WriteJob
    BY <1>9, JobTypes DEF CleanUpImage, At, Writing
  <2>2. PICK i \in work[w].images :
          /\ work' = [work EXCEPT ![w].images = @ \ {i}]
          /\ \/ objects' = objects \ {i} /\ UNCHANGED faults
             \/ Fault /\ UNCHANGED objects
    BY <1>9 DEF CleanUpImage
  <2>3. [work[w] EXCEPT !.images = @ \ {i}] \in WriteJob
    BY <2>1 DEF WriteJob
  <2>4. work' \in [Workers -> Job]
    BY <2>2, <2>3, WorkType DEF TypeOK, Job
  <2>5. faults' \in 0..MaxFaults
    BY <2>2, FaultType DEF TypeOK
  <2>6. QED BY <1>9, <2>2, <2>4, <2>5 DEF TypeOK, CleanUpImage
<1>10. ASSUME NEW w \in Workers, EndCleanUp(w) \/ StreamImage(w) \/ BreakOff(w) PROVE TypeOK'
  <2>1. work' \in [Workers -> Job]
    BY <1>10, FinishType DEF TypeOK, EndCleanUp, StreamImage, BreakOff
  <2>2. QED BY <1>10, <2>1 DEF TypeOK, EndCleanUp, StreamImage, BreakOff
<1>11. ASSUME NEW w \in Workers, Crash(w) PROVE TypeOK'
  <2>1. work' \in [Workers -> Job] /\ faults' \in 0..MaxFaults
    BY <1>11, FinishType, FaultType DEF TypeOK, Crash
  <2>2. QED BY <1>11, <2>1 DEF TypeOK, Crash
<1>12. QED
  BY <1>0, <1>1, <1>2, <1>3, <1>4, <1>5, <1>6, <1>7, <1>8, <1>9, <1>10, <1>11
     DEF Next, Begin, Serve

-----------------------------------------------------------------------------
(* The invariant *)

\* A request that ends, in whatever way, disturbs nothing.
LEMMA EndKeeps ==
  ASSUME StoreInv, TypeOK', NEW w \in Workers, Finish(w),
         UNCHANGED <<objects, documents, drawn, deleted, unanswered>>
  PROVE  StoreInv'
<1>1. /\ work'[w].step = "idle"
      /\ \A v \in Workers : v # w => work'[v] = work[v]
  BY DEF StoreInv, TypeOK, Finish, NoJob
<1>2. AllDrawn'
  BY <1>1 DEF StoreInv, AllDrawn, Writing, Own
<1>3. Private'
  BY <1>1 DEF StoreInv, Private, Building, Writing, Own
<1>4. Built'
  BY <1>1 DEF StoreInv, Built, Building
<1>5. CleanUpsAreSafe'
  BY <1>1 DEF StoreInv, CleanUpsAreSafe
<1>6. ReadsAreOfDocuments'
  BY <1>1 DEF StoreInv, ReadsAreOfDocuments
<1>7. QED
  BY <1>2, <1>3, <1>4, <1>5, <1>6 DEF StoreInv, Separate, ImagesAreThere

\* What a request that writes holds when it only takes another step.
LEMMA ContinueKeeps ==
  ASSUME TypeOK, NEW w \in Workers, Writing(w), NEW step, Continue(w, step)
  PROVE  /\ work'[w].step = step /\ work'[w].images = work[w].images
         /\ work'[w].pending = work[w].pending
         /\ \A v \in Workers : v # w => work'[v] = work[v]
<1>1. work[w] \in WriteJob
  BY JobTypes
<1>2. work'[w] = [work[w] EXCEPT !.step = step] /\ \A v \in Workers : v # w => work'[v] = work[v]
  BY DEF Continue, TypeOK
<1>3. QED BY <1>1, <1>2 DEF WriteJob

\* A request that gives up before its document is stored undoes only its own.
LEMMA GivingUpKeeps ==
  ASSUME StoreInv, TypeOK', NEW w \in Workers, Building(w), Continue(w, "cleanup"),
         objects \subseteq objects', UNCHANGED <<documents, drawn, deleted, unanswered>>
  PROVE  StoreInv'
<1>1. /\ work'[w].step = "cleanup" /\ work'[w].images = work[w].images
      /\ work'[w].pending = work[w].pending
      /\ \A v \in Workers : v # w => work'[v] = work[v]
  BY ContinueKeeps DEF StoreInv, Building, Writing
<1>2. AllDrawn'
  BY <1>1 DEF StoreInv, AllDrawn, Building, Writing, Own
<1>3. Private'
  BY <1>1 DEF StoreInv, Private, Building, Writing, Own
<1>4. Built'
  BY <1>1 DEF StoreInv, Built, Building
<1>5. CleanUpsAreSafe'
  BY <1>1 DEF StoreInv, CleanUpsAreSafe, Private, Own
<1>6. ReadsAreOfDocuments'
  BY <1>1 DEF StoreInv, ReadsAreOfDocuments
<1>7. QED
  BY <1>2, <1>3, <1>4, <1>5, <1>6 DEF StoreInv, Separate, ImagesAreThere

\* A new request draws names nobody has.
LEMMA CreateKeeps ==
  ASSUME StoreInv, TypeOK', NEW w \in Workers, NEW id \in DocumentIds, NEW kind \in Kinds,
         NEW files \in SUBSET Images, BeginCreate(w, id, kind, files)
  PROVE  StoreInv'
<1>1. /\ work'[w].step = "upload" /\ work'[w].images = {} /\ work'[w].pending = files
      /\ \A v \in Workers : v # w => work'[v] = work[v]
  BY DEF StoreInv, TypeOK, BeginCreate, Start
<1>2. drawn \cap files = {} /\ drawn' = drawn \cup files \cup {id}
  BY DEF BeginCreate
<1>3. UNCHANGED <<objects, documents, deleted, unanswered>>
  BY DEF BeginCreate
<1>4. AllDrawn'
  BY <1>1, <1>2, <1>3 DEF StoreInv, AllDrawn, Writing, Own
<1>5. Private'
  <2>1. \A d \in documents : files \cap d.images = {}
    BY <1>2 DEF StoreInv, AllDrawn
  <2>2. \A v \in Workers : Writing(v) => files \cap Own(v) = {}
    BY <1>2 DEF StoreInv, AllDrawn
  <2>3. QED BY <1>1, <1>3, <2>1, <2>2 DEF StoreInv, Private, Building, Writing, Own
<1>6. Built'
  BY <1>1, <1>3 DEF StoreInv, Built, Building
<1>7. CleanUpsAreSafe'
  BY <1>1, <1>3 DEF StoreInv, CleanUpsAreSafe
<1>8. ReadsAreOfDocuments'
  BY <1>1, <1>3 DEF StoreInv, ReadsAreOfDocuments
<1>9. QED
  BY <1>3, <1>4, <1>5, <1>6, <1>7, <1>8 DEF StoreInv, Separate, ImagesAreThere

\* An upload only adds to the objects.
LEMMA UploadKeeps ==
  ASSUME StoreInv, TypeOK', NEW w \in Workers, UploadImage(w)
  PROVE  StoreInv'
<1>1. work[w] \in WriteJob /\ work[w].step = "upload"
  BY JobTypes DEF StoreInv, UploadImage, At, Writing
<1>2. PICK i \in work[w].pending :
        /\ objects' = objects \cup {i}
        /\ work' = [work EXCEPT ![w].pending = @ \ {i}, ![w].images = @ \cup {i}]
  BY DEF UploadImage
<1> DEFINE j == [[work[w] EXCEPT !.pending = @ \ {i}] EXCEPT !.images = @ \cup {i}]
<1>3. work' = [work EXCEPT ![w] = j]
  BY <1>2 DEF StoreInv, TypeOK
<1>4. work'[w] = j /\ \A v \in Workers : v # w => work'[v] = work[v]
  BY <1>3 DEF StoreInv, TypeOK
<1>5. /\ j.step = "upload" /\ j.images = work[w].images \cup {i}
      /\ j.pending = work[w].pending \ {i}
  BY <1>1 DEF WriteJob
<1> HIDE DEF j
<1>6. /\ work'[w].step = "upload" /\ work'[w].images = work[w].images \cup {i}
      /\ Own(w)' = Own(w)
  BY <1>4, <1>5 DEF Own
<1>7. UNCHANGED <<documents, drawn, deleted, unanswered>> /\ objects \subseteq objects'
  BY <1>2 DEF UploadImage
<1>8. \A v \in Workers : /\ Own(v)' = Own(v) /\ work'[v].step = work[v].step
                         /\ v # w => work'[v] = work[v]
  BY <1>1, <1>4, <1>6 DEF Own
<1>9. AllDrawn'
  BY <1>7, <1>8 DEF StoreInv, AllDrawn, Writing
<1>10. Private'
  BY <1>7, <1>8 DEF StoreInv, Private, Building, Writing
<1>11. Built'
  BY <1>1, <1>2, <1>4, <1>6, <1>7 DEF StoreInv, Built, Building
<1>12. CleanUpsAreSafe'
  BY <1>4, <1>6, <1>7 DEF StoreInv, CleanUpsAreSafe
<1>13. ReadsAreOfDocuments'
  BY <1>4, <1>6, <1>7 DEF StoreInv, ReadsAreOfDocuments
<1>14. QED
  BY <1>7, <1>9, <1>10, <1>11, <1>12, <1>13 DEF StoreInv, Separate, ImagesAreThere

\* The last upload hands over to the insert.
LEMMA EndUploadsKeeps ==
  ASSUME StoreInv, TypeOK', NEW w \in Workers, EndUploads(w)
  PROVE  StoreInv'
<1>1. /\ work'[w].step = "insert" /\ work'[w].images = work[w].images
      /\ work'[w].pending = work[w].pending
      /\ \A v \in Workers : v # w => work'[v] = work[v]
  BY ContinueKeeps DEF StoreInv, EndUploads, At, Writing
<1>2. work[w].step = "upload" /\ UNCHANGED <<objects, documents, drawn, deleted, unanswered>>
  BY DEF EndUploads, At
<1>3. AllDrawn'
  BY <1>1, <1>2 DEF StoreInv, AllDrawn, Writing, Own
<1>4. Private'
  BY <1>1, <1>2 DEF StoreInv, Private, Building, Writing, Own
<1>5. Built'
  BY <1>1, <1>2 DEF StoreInv, Built, Building
<1>6. CleanUpsAreSafe'
  BY <1>1, <1>2 DEF StoreInv, CleanUpsAreSafe
<1>7. ReadsAreOfDocuments'
  BY <1>1, <1>2 DEF StoreInv, ReadsAreOfDocuments
<1>8. QED
  BY <1>2, <1>3, <1>4, <1>5, <1>6, <1>7 DEF StoreInv, Separate, ImagesAreThere

\* A document is stored with images that are there and were its request's alone.
LEMMA StoringKeeps ==
  ASSUME StoreInv, NEW w \in Workers, work[w].step = "insert",
         documents' = documents \cup {Stored(work[w])}, UNCHANGED objects,
         unanswered \subseteq unanswered'
  PROVE  /\ Separate' /\ ImagesAreThere'
         /\ Stored(work[w]).images = work[w].images
         /\ Stored(work[w]).id = work[w].id
<1>1. work[w] \in WriteJob
  BY JobTypes DEF StoreInv, Writing
<1>2. Stored(work[w]).images = work[w].images /\ Stored(work[w]).id = work[w].id
  BY <1>1, StoredType
<1>3. \A d \in documents : work[w].images \cap d.images = {}
  BY DEF StoreInv, Private, Building, Own
<1>4. work[w].images \subseteq objects
  BY DEF StoreInv, Built, Building
<1>5. QED
  BY <1>2, <1>3, <1>4 DEF StoreInv, Separate, ImagesAreThere

\* An insert that answers.
LEMMA InsertKeeps ==
  ASSUME StoreInv, TypeOK', NEW w \in Workers, InsertDocument(w)
  PROVE  StoreInv'
<1> DEFINE new == Stored(work[w])
<1>1. /\ work[w].step = "insert" /\ documents' = documents \cup {new}
      /\ UNCHANGED <<objects, drawn, deleted, unanswered>>
  BY DEF InsertDocument, At
<1>2. /\ work'[w].step = "idle"
      /\ \A v \in Workers : v # w => work'[v] = work[v]
  BY DEF StoreInv, TypeOK, InsertDocument, Finish, NoJob
<1>3. Separate' /\ ImagesAreThere' /\ new.images = work[w].images
  BY <1>1, StoringKeeps
<1>4. \A v \in Workers : v # w /\ Writing(v) => Own(v) \cap new.images = {}
  BY <1>1, <1>3 DEF StoreInv, Private, Building, Own
<1>5. new.images \subseteq drawn
  BY <1>1, <1>3 DEF StoreInv, AllDrawn, Writing, Own
<1> HIDE DEF new
<1>6. AllDrawn'
  BY <1>1, <1>2, <1>5 DEF StoreInv, AllDrawn, Writing, Own
<1>7. Private'
  BY <1>1, <1>2, <1>4 DEF StoreInv, Private, Building, Writing, Own
<1>8. Built'
  BY <1>1, <1>2 DEF StoreInv, Built, Building
<1>9. CleanUpsAreSafe'
  BY <1>1, <1>2, <1>4 DEF StoreInv, CleanUpsAreSafe, Writing, Own
<1>10. ReadsAreOfDocuments'
  BY <1>1, <1>2 DEF StoreInv, ReadsAreOfDocuments
<1>11. QED
  BY <1>3, <1>6, <1>7, <1>8, <1>9, <1>10 DEF StoreInv

\* An insert that raises and was done: its document is the exception.
LEMMA LostAnswerKeeps ==
  ASSUME StoreInv, TypeOK', NEW w \in Workers, work[w].step = "insert",
         documents' = documents \cup {Stored(work[w])},
         unanswered' = unanswered \cup {work[w].id},
         Continue(w, "cleanup"), UNCHANGED <<objects, drawn, deleted>>
  PROVE  StoreInv'
<1> DEFINE new == Stored(work[w])
<1>1. /\ work'[w].step = "cleanup" /\ work'[w].images = work[w].images
      /\ work'[w].pending = work[w].pending
      /\ \A v \in Workers : v # w => work'[v] = work[v]
  BY ContinueKeeps DEF StoreInv, Writing
<1>2. Separate' /\ ImagesAreThere' /\ new.images = work[w].images /\ new.id = work[w].id
  BY StoringKeeps
<1>3. \A v \in Workers : v # w /\ Writing(v) => Own(v) \cap new.images = {}
  BY <1>2 DEF StoreInv, Private, Building, Own
<1>4. new.images \subseteq drawn
  BY <1>2 DEF StoreInv, AllDrawn, Writing, Own
<1>5. documents' = documents \cup {new} /\ new.id \in unanswered' /\ unanswered \subseteq unanswered'
  BY <1>2
<1>6. \A d \in documents : work[w].images \cap d.images = {}
  BY DEF StoreInv, Private, Building, Own
<1> HIDE DEF new
<1>7. AllDrawn'
  BY <1>1, <1>4, <1>5 DEF StoreInv, AllDrawn, Writing, Own
<1>8. Private'
  BY <1>1, <1>3, <1>5 DEF StoreInv, Private, Building, Writing, Own
<1>9. Built'
  BY <1>1 DEF StoreInv, Built, Building
<1>10. CleanUpsAreSafe'
  BY <1>1, <1>3, <1>5, <1>6 DEF StoreInv, CleanUpsAreSafe, Writing, Own
<1>11. ReadsAreOfDocuments'
  BY <1>1, <1>5 DEF StoreInv, ReadsAreOfDocuments
<1>12. QED
  BY <1>2, <1>7, <1>8, <1>9, <1>10, <1>11 DEF StoreInv

\* Undoing deletes an image of no document but the exceptions.
LEMMA CleanUpKeeps ==
  ASSUME StoreInv, TypeOK', NEW w \in Workers, CleanUpImage(w)
  PROVE  StoreInv'
<1>1. work[w] \in WriteJob /\ work[w].step = "cleanup"
  BY JobTypes DEF StoreInv, CleanUpImage, At, Writing
<1>2. PICK i \in work[w].images :
        /\ work' = [work EXCEPT ![w].images = @ \ {i}]
        /\ objects' \in {objects, objects \ {i}}
  BY DEF CleanUpImage
<1> DEFINE j == [work[w] EXCEPT !.images = @ \ {i}]
<1>3. work'[w] = j /\ \A v \in Workers : v # w => work'[v] = work[v]
  BY <1>2 DEF StoreInv, TypeOK
<1>4. /\ j.step = "cleanup" /\ j.images = work[w].images \ {i}
      /\ j.pending = work[w].pending
  BY <1>1 DEF WriteJob
<1> HIDE DEF j
<1>5. UNCHANGED <<documents, drawn, deleted, unanswered>>
  BY DEF CleanUpImage
<1>6. /\ work'[w].step = "cleanup" /\ work'[w].images \subseteq work[w].images
      /\ Own(w)' \subseteq Own(w)
  BY <1>3, <1>4 DEF Own
<1>7. AllDrawn'
  BY <1>1, <1>3, <1>5, <1>6 DEF StoreInv, AllDrawn, Writing, Own
<1>8. Private'
  <2>1. \A v \in Workers : Own(v)' \subseteq Own(v) /\ work'[v].step = work[v].step
    BY <1>1, <1>3, <1>6 DEF Own
  <2>2. QED BY <1>5, <2>1 DEF StoreInv, Private, Building, Writing
<1>9. Built'
  <2>1. \A v \in Workers : Building(v) => i \notin work[v].images
    BY <1>1 DEF StoreInv, Private, Building, Writing, Own
  <2>2. QED BY <1>2, <1>3, <1>6, <2>1 DEF StoreInv, Built, Building
<1>10. CleanUpsAreSafe'
  BY <1>1, <1>3, <1>5, <1>6 DEF StoreInv, CleanUpsAreSafe
<1>11. ReadsAreOfDocuments'
  BY <1>3, <1>5, <1>6 DEF StoreInv, ReadsAreOfDocuments
<1>12. ImagesAreThere'
  <2>1. \A d \in documents : i \notin d.images \/ d.id \in unanswered
    BY <1>1 DEF StoreInv, CleanUpsAreSafe
  <2>2. QED BY <1>2, <1>5, <2>1 DEF StoreInv, ImagesAreThere
<1>13. QED
  BY <1>5, <1>7, <1>8, <1>9, <1>10, <1>11, <1>12 DEF StoreInv, Separate

\* Deleting a product update takes the document out before its image.
LEMMA DeletionKeeps ==
  ASSUME StoreInv, TypeOK', NEW w \in Workers, NEW d \in documents, DeleteUpdate(w, d)
  PROVE  StoreInv'
<1>1. /\ documents' = documents \ {d} /\ deleted' = deleted \cup {d.id}
      /\ UNCHANGED <<objects, drawn, unanswered>>
  BY DEF DeleteUpdate
<1>2. /\ work'[w].step = "cleanup" /\ work'[w].images = d.images /\ work'[w].pending = {}
      /\ \A v \in Workers : v # w => work'[v] = work[v]
  BY DEF StoreInv, TypeOK, DeleteUpdate, Start, RemovalOf
<1>3. AllDrawn'
  BY <1>1, <1>2 DEF StoreInv, AllDrawn, Writing, Own
<1>4. Private'
  BY <1>1, <1>2 DEF StoreInv, Private, Building, Writing, Own
<1>5. Built'
  BY <1>1, <1>2 DEF StoreInv, Built, Building
<1>6. CleanUpsAreSafe'
  BY <1>1, <1>2 DEF StoreInv, CleanUpsAreSafe, Separate
<1>7. ReadsAreOfDocuments'
  BY <1>1, <1>2 DEF StoreInv, ReadsAreOfDocuments
<1>8. QED
  BY <1>1, <1>3, <1>4, <1>5, <1>6, <1>7 DEF StoreInv, Separate, ImagesAreThere

\* A download starts from a document that has the image.
LEMMA FindKeeps ==
  ASSUME StoreInv, TypeOK', NEW w \in Workers, NEW d \in documents, NEW i \in d.images,
         FindImage(w, d, i)
  PROVE  StoreInv'
<1>1. UNCHANGED <<objects, documents, drawn, deleted, unanswered>>
  BY DEF FindImage
<1>2. /\ work'[w].step = "open" /\ work'[w].id = d.id /\ work'[w].image = i
      /\ \A v \in Workers : v # w => work'[v] = work[v]
  BY DEF StoreInv, TypeOK, FindImage, Start
<1>3. AllDrawn'
  BY <1>1, <1>2 DEF StoreInv, AllDrawn, Writing, Own
<1>4. Private'
  BY <1>1, <1>2 DEF StoreInv, Private, Building, Writing, Own
<1>5. Built'
  BY <1>1, <1>2 DEF StoreInv, Built, Building
<1>6. CleanUpsAreSafe'
  BY <1>1, <1>2 DEF StoreInv, CleanUpsAreSafe
<1>7. ReadsAreOfDocuments'
  BY <1>1, <1>2 DEF StoreInv, ReadsAreOfDocuments
<1>8. QED
  BY <1>1, <1>3, <1>4, <1>5, <1>6, <1>7 DEF StoreInv, Separate, ImagesAreThere

\* Every step keeps the invariant.
LEMMA StoreStep == StoreInv /\ [Next]_vars => StoreInv'
<1> SUFFICES ASSUME StoreInv, [Next]_vars PROVE StoreInv'
  OBVIOUS
<1>1. TypeOK'
  BY TypeStep DEF StoreInv
<1>2. CASE UNCHANGED vars
  BY <1>2 DEF vars, StoreInv, TypeOK, AllDrawn, Private, Separate, Built, CleanUpsAreSafe,
              ReadsAreOfDocuments, ImagesAreThere, Writing, Building, Own
<1>3. ASSUME NEW w \in Workers, Begin(w) PROVE StoreInv'
  BY <1>1, <1>3, CreateKeeps, DeletionKeeps, FindKeeps DEF Begin
<1>4. ASSUME NEW w \in Workers, Crash(w) \/ EndCleanUp(w) \/ StreamImage(w) \/ BreakOff(w)
      PROVE  StoreInv'
  BY <1>1, <1>4, EndKeeps DEF Crash, EndCleanUp, StreamImage, BreakOff
<1>5. ASSUME NEW w \in Workers, RejectImage(w) \/ UploadFails(w) \/ RejectDocument(w)
      PROVE  StoreInv'
  <2>1. /\ Building(w) /\ Continue(w, "cleanup") /\ objects \subseteq objects'
        /\ UNCHANGED <<documents, drawn, deleted, unanswered>>
    BY <1>5 DEF RejectImage, UploadFails, RejectDocument, At, Building
  <2>2. QED BY <1>1, <2>1, GivingUpKeeps
<1>6. ASSUME NEW w \in Workers, InsertFails(w) PROVE StoreInv'
  <2>1. /\ work[w].step = "insert" /\ Continue(w, "cleanup")
        /\ UNCHANGED <<objects, drawn, deleted>>
    BY <1>6 DEF InsertFails, At
  <2>2. CASE UNCHANGED <<documents, unanswered>>
    BY <1>1, <2>1, <2>2, GivingUpKeeps DEF Building
  <2>3. CASE /\ documents' = documents \cup {Stored(work[w])}
             /\ unanswered' = unanswered \cup {work[w].id}
    BY <1>1, <2>1, <2>3, LostAnswerKeeps
  <2>4. QED BY <1>6, <2>2, <2>3 DEF InsertFails
<1>7. ASSUME NEW w \in Workers, Serve(w) PROVE StoreInv'
  BY <1>1, <1>4, <1>5, <1>6, <1>7, UploadKeeps, EndUploadsKeeps, InsertKeeps, CleanUpKeeps
     DEF Serve
<1>8. QED
  BY <1>2, <1>3, <1>4, <1>7 DEF Next

-----------------------------------------------------------------------------
(* Theorems *)

\* StoreInv holds at the beginning.
LEMMA StoreInit == Init => StoreInv
  BY ConstantsAssumption
     DEF Init, StoreInv, TypeOK, AllDrawn, Private, Separate, Built, CleanUpsAreSafe,
         ReadsAreOfDocuments, ImagesAreThere, Writing, Building, Own, NoJob, Job,
         ConstantsAssumption

\* StoreInv holds in every reachable state.
LEMMA StoreAlways == Spec => []StoreInv
  BY StoreInit, StoreStep, PTL DEF Spec

(* Object names, documents and the jobs of their writers stay what           *)
(* services/suggestion_images.py makes them, also after a fault half way.    *)
THEOREM StoreIsTyped == Spec => []TypeOK
<1>1. StoreInv => TypeOK
  BY DEF StoreInv
<1>2. QED BY <1>1, StoreAlways, PTL

(* A stored document never points at an object that is gone, whatever other  *)
(* requests upload, undo or delete, except where its insert raised after it   *)
(* was done.                                                                 *)
THEOREM DocumentsKeepTheirImages == Spec => []ImagesAreThere
<1>1. StoreInv => ImagesAreThere
  BY DEF StoreInv
<1>2. QED BY <1>1, StoreAlways, PTL

(* A download that was answered 200 breaks off only on an image whose product *)
(* update was deleted in the meantime, or whose insert raised.                *)
THEOREM DownloadsBreakOffForAReason == Spec => []BreakOffsExplained
<1>1. StoreInv => BreakOffsExplained
  BY DEF StoreInv, ReadsAreOfDocuments, ImagesAreThere, BreakOffsExplained, At
<1>2. QED BY <1>1, StoreAlways, PTL

-----------------------------------------------------------------------------
(* Leaks *)

\* What no document points at and no request holds.
Leaked == objects \ (Referenced \cup InFlight)

\* No request and no document has more images than a request may upload.
Small ==
  /\ \A w \in Workers : Writing(w) => Cardinality(Own(w)) <= MaxFiles
  /\ \A d \in documents : Cardinality(d.images) <= MaxFiles

LeakInv == TypeOK /\ Small /\ LeaksAreFaults

\* A set of images has a size, no smaller than that of its subsets.
LEMMA ImageSetsFinite ==
  ASSUME NEW S \in SUBSET Images, NEW T \in SUBSET S
  PROVE  /\ IsFiniteSet(S) /\ Cardinality(S) \in Nat
         /\ IsFiniteSet(T) /\ Cardinality(T) \in Nat
         /\ Cardinality(T) <= Cardinality(S)
<1>1. IsFiniteSet(Images)
  BY ConstantsAssumption DEF ConstantsAssumption
<1>2. IsFiniteSet(S)
  BY <1>1, FS_Subset
<1>3. IsFiniteSet(T) /\ Cardinality(T) <= Cardinality(S)
  BY <1>2, FS_Subset
<1>4. QED BY <1>2, <1>3, FS_CardinalityType

\* What a request that writes owns are images.
LEMMA OwnType ==
  ASSUME TypeOK, NEW w \in Workers, Writing(w)
  PROVE  work[w].images \in SUBSET Images /\ Own(w) \in SUBSET Images
  BY JobTypes DEF WriteJob, Own

\* Only a request that writes holds images: those it has uploaded.
LEMMA HeldIs ==
  ASSUME TypeOK, NEW w \in Workers
  PROVE  Held(w) = IF Writing(w) THEN work[w].images ELSE {}
<1>1. CASE Writing(w)
  BY <1>1, JobTypes DEF Held
<1>2. CASE ~Writing(w)
  <2>1. work[w] \notin WriteJob
    BY <1>2 DEF Writing, WriteJob
  <2>2. QED BY <1>2, <2>1 DEF Held
<1>3. QED BY <1>1, <1>2

\* What is leaked, element by element.
LEMMA LeakedIs ==
  ASSUME TypeOK, NEW x
  PROVE  x \in Leaked <=>
           /\ x \in objects
           /\ \A d \in documents : x \notin d.images
           /\ \A w \in Workers : Writing(w) => x \notin work[w].images
  BY HeldIs DEF Leaked, Referenced, InFlight

\* The same of the next state.
LEMMA LeakedIsNext ==
  ASSUME TypeOK', NEW x
  PROVE  x \in Leaked' <=>
           /\ x \in objects'
           /\ \A d \in documents' : x \notin d.images
           /\ \A w \in Workers : Writing(w)' => x \notin work'[w].images
<1>1. \A w \in Workers : Held(w)' = IF Writing(w)' THEN work'[w].images ELSE {}
  <2> TAKE w \in Workers
  <2>1. CASE Writing(w)'
    <3>1. work'[w] \in WriteJob
      BY <2>1 DEF TypeOK, Writing, Job, NoJob, ReadJob
    <3>2. QED BY <2>1, <3>1 DEF Held
  <2>2. CASE ~Writing(w)'
    <3>1. work'[w] \notin WriteJob
      BY <2>2 DEF Writing, WriteJob
    <3>2. QED BY <2>2, <3>1 DEF Held
  <2>3. QED BY <2>1, <2>2
<1>2. QED BY <1>1 DEF Leaked, Referenced, InFlight

\* A step without a fault leaks nothing; one fault leaks no more than MaxFiles.
NoLeak == Leaked' \subseteq Leaked /\ faults' = faults
SmallLeak ==
  /\ faults' = faults + 1
  /\ \E X \in SUBSET Images : Leaked' \subseteq Leaked \cup X /\ Cardinality(X) <= MaxFiles

\* Either of them keeps the count of leaks within the faults.
LEMMA LeaksCounted ==
  ASSUME LeakInv, TypeOK', NoLeak \/ SmallLeak
  PROVE  LeaksAreFaults'
<1>1. Leaked \in SUBSET Images /\ Leaked' \in SUBSET Images
  BY DEF LeakInv, TypeOK, Leaked
<1>2. Cardinality(Leaked) \in Nat /\ Cardinality(Leaked') \in Nat
  BY <1>1, ImageSetsFinite
<1>3. Cardinality(Leaked) <= faults * MaxFiles
  BY DEF LeakInv, LeaksAreFaults, Leaked
<1>4. faults \in Nat /\ MaxFiles \in Nat
  BY ConstantsAssumption DEF LeakInv, TypeOK, ConstantsAssumption
<1>5. CASE NoLeak
  <2>1. Cardinality(Leaked') <= Cardinality(Leaked)
    BY <1>1, <1>5, ImageSetsFinite DEF NoLeak
  <2>2. Cardinality(Leaked') <= faults' * MaxFiles
    <3>1. faults' = faults
      BY <1>5 DEF NoLeak
    <3>2. faults * MaxFiles \in Nat
      BY <1>4
    <3>3. QED BY <1>2, <1>3, <2>1, <3>1, <3>2
  <2>3. QED BY <2>2 DEF LeaksAreFaults, Leaked
<1>6. CASE SmallLeak
  <2>1. PICK X \in SUBSET Images :
          Leaked' \subseteq Leaked \cup X /\ Cardinality(X) <= MaxFiles
    BY <1>6 DEF SmallLeak
  <2>2. /\ IsFiniteSet(Leaked) /\ IsFiniteSet(X) /\ Cardinality(X) \in Nat
        /\ Cardinality(Leaked \cap X) \in Nat
    BY <1>1, ImageSetsFinite
  <2>3. Cardinality(Leaked \cup X) = Cardinality(Leaked) + Cardinality(X) - Cardinality(Leaked \cap X)
    BY <2>2, FS_Union
  <2>4. Cardinality(Leaked') <= Cardinality(Leaked \cup X)
    BY <1>1, <2>1, ImageSetsFinite
  <2>5. (faults + 1) * MaxFiles = faults * MaxFiles + MaxFiles /\ faults * MaxFiles \in Nat
    BY <1>4
  <2>6. faults' = faults + 1
    BY <1>6 DEF SmallLeak
  <2>7. Cardinality(Leaked') <= faults' * MaxFiles
    BY <1>2, <1>3, <1>4, <2>1, <2>2, <2>3, <2>4, <2>5, <2>6
  <2>8. QED BY <2>7 DEF LeaksAreFaults, Leaked
<1>7. QED BY <1>5, <1>6

\* A request that ends abandons what it holds.
LEMMA EndLeaks ==
  ASSUME TypeOK, TypeOK', NEW w \in Workers, Finish(w), UNCHANGED objects,
         documents \subseteq documents'
  PROVE  Leaked' \subseteq Leaked \cup (IF Writing(w) THEN work[w].images ELSE {})
<1>1. \A v \in Workers : v # w => work'[v] = work[v]
  BY DEF Finish, TypeOK
<1>2. ASSUME NEW x \in Leaked', x \notin (IF Writing(w) THEN work[w].images ELSE {})
      PROVE  x \in Leaked
  BY <1>1, <1>2, LeakedIs, LeakedIsNext DEF Writing
<1>3. QED BY <1>2

\* A request that takes another step goes on holding what it held.
LEMMA ContinueLeaks ==
  ASSUME TypeOK, TypeOK', NEW w \in Workers, Writing(w),
         NEW step \in {"upload", "insert", "cleanup"}, Continue(w, step),
         documents \subseteq documents', NEW X, objects' \subseteq objects \cup X
  PROVE  Leaked' \subseteq Leaked \cup X
<1>1. /\ work'[w].step = step /\ work'[w].images = work[w].images
      /\ \A v \in Workers : v # w => work'[v] = work[v]
  BY ContinueKeeps
<1>2. ASSUME NEW x \in Leaked', x \notin X PROVE x \in Leaked
  BY <1>1, <1>2, LeakedIs, LeakedIsNext DEF Writing
<1>3. QED BY <1>2

\* One image is no more than a request may upload.
LEMMA OneIsSmall == \A i : Cardinality({i}) <= MaxFiles
<1>1. \A i : Cardinality({i}) = 1
  BY FS_Singleton
<1>2. QED BY <1>1, ConstantsAssumption DEF ConstantsAssumption

\* What each step may leak.
LEMMA StepLeaks ==
  ASSUME StoreInv, Small, TypeOK', Next
  PROVE  NoLeak \/ SmallLeak
<1>0. TypeOK
  BY DEF StoreInv
<1>1. ASSUME NEW w \in Workers, NEW id \in DocumentIds, NEW kind \in Kinds,
             NEW files \in SUBSET Images, BeginCreate(w, id, kind, files)
      PROVE  NoLeak
  <2>1. /\ work[w].step = "idle" /\ \A v \in Workers : v # w => work'[v] = work[v]
        /\ UNCHANGED <<objects, documents, faults>>
    BY <1>0, <1>1 DEF TypeOK, BeginCreate, Start, NoJob
  <2>2. \A x \in Leaked' : x \in Leaked
    BY <1>0, <2>1, LeakedIs, LeakedIsNext DEF Writing
  <2>3. QED BY <2>1, <2>2 DEF NoLeak
<1>2. ASSUME NEW w \in Workers, NEW d \in documents, DeleteUpdate(w, d) PROVE NoLeak
  <2>1. /\ work[w].step = "idle" /\ \A v \in Workers : v # w => work'[v] = work[v]
        /\ work'[w].step = "cleanup" /\ work'[w].images = d.images
        /\ documents' = documents \ {d} /\ UNCHANGED <<objects, faults>>
    BY <1>0, <1>2 DEF TypeOK, DeleteUpdate, Start, NoJob, RemovalOf
  <2>2. \A x \in Leaked' : x \in Leaked
    BY <1>0, <2>1, LeakedIs, LeakedIsNext DEF Writing
  <2>3. QED BY <2>1, <2>2 DEF NoLeak
<1>3. ASSUME NEW w \in Workers, NEW d \in documents, NEW i \in d.images, FindImage(w, d, i)
      PROVE  NoLeak
  <2>1. /\ work[w].step = "idle" /\ \A v \in Workers : v # w => work'[v] = work[v]
        /\ UNCHANGED <<objects, documents, faults>>
    BY <1>0, <1>3 DEF TypeOK, FindImage, Start, NoJob
  <2>2. \A x \in Leaked' : x \in Leaked
    BY <1>0, <2>1, LeakedIs, LeakedIsNext DEF Writing
  <2>3. QED BY <2>1, <2>2 DEF NoLeak
<1>4. ASSUME NEW w \in Workers, UploadImage(w) PROVE NoLeak
  <2>1. PICK i \in work[w].pending :
          /\ objects' = objects \cup {i}
          /\ work' = [work EXCEPT ![w].pending = @ \ {i}, ![w].images = @ \cup {i}]
    BY <1>4 DEF UploadImage
  <2>2. work[w] \in WriteJob /\ work[w].step = "upload"
    BY <1>0, <1>4, JobTypes DEF UploadImage, At, Writing
  <2> DEFINE j == [[work[w] EXCEPT !.pending = @ \ {i}] EXCEPT !.images = @ \cup {i}]
  <2>3. work'[w] = j /\ \A v \in Workers : v # w => work'[v] = work[v]
    BY <1>0, <2>1 DEF TypeOK
  <2>4. j.step = "upload" /\ j.images = work[w].images \cup {i}
    BY <2>2 DEF WriteJob
  <2> HIDE DEF j
  <2>5. UNCHANGED <<documents, faults>>
    BY <1>4 DEF UploadImage
  <2>6. \A x \in Leaked' : x \in Leaked
    BY <1>0, <2>1, <2>2, <2>3, <2>4, <2>5, LeakedIs, LeakedIsNext DEF Writing
  <2>7. QED BY <2>5, <2>6 DEF NoLeak
<1>5. ASSUME NEW w \in Workers, RejectImage(w) \/ EndUploads(w) \/ RejectDocument(w)
      PROVE  NoLeak
  <2>1. /\ Writing(w) /\ UNCHANGED <<objects, documents, faults>>
        /\ Continue(w, "cleanup") \/ Continue(w, "insert")
    BY <1>5 DEF RejectImage, EndUploads, RejectDocument, At, Writing
  <2>2. Leaked' \subseteq Leaked \cup {}
    <3>1. documents \subseteq documents' /\ objects' \subseteq objects \cup {}
      BY <2>1
    <3>2. QED BY <1>0, <2>1, <3>1, ContinueLeaks
  <2>3. QED BY <2>1, <2>2 DEF NoLeak
<1>6. ASSUME NEW w \in Workers, UploadFails(w) PROVE SmallLeak
  <2>1. Writing(w) /\ Continue(w, "cleanup") /\ faults' = faults + 1 /\ UNCHANGED documents
    BY <1>6 DEF UploadFails, At, Writing, Fault
  <2>2. PICK i \in work[w].pending : objects' \subseteq objects \cup {i}
    BY <1>6 DEF UploadFails
  <2>3. {i} \in SUBSET Images
    BY <1>0, <2>1, OwnType DEF Own
  <2>4. Leaked' \subseteq Leaked \cup {i}
    BY <1>0, <2>1, <2>2, ContinueLeaks
  <2>5. QED BY <2>1, <2>3, <2>4, OneIsSmall DEF SmallLeak
<1>7. ASSUME NEW w \in Workers, InsertDocument(w) PROVE NoLeak
  <2>1. /\ work[w].step = "insert" /\ Finish(w) /\ documents' = documents \cup {Stored(work[w])}
        /\ UNCHANGED <<objects, faults>>
    BY <1>7 DEF InsertDocument, At
  <2>2. Leaked' \subseteq Leaked \cup work[w].images
    BY <1>0, <2>1, EndLeaks
  <2>3. Stored(work[w]).images = work[w].images
    BY <1>0, <2>1, JobTypes, StoredType DEF Writing
  <2>4. Leaked' \cap work[w].images = {}
    BY <2>1, <2>3, LeakedIsNext
  <2>5. QED BY <2>1, <2>2, <2>4 DEF NoLeak
<1>8. ASSUME NEW w \in Workers, InsertFails(w) PROVE SmallLeak
  <2>1. /\ Writing(w) /\ Continue(w, "cleanup") /\ faults' = faults + 1
        /\ documents \subseteq documents' /\ objects' \subseteq objects \cup {}
    BY <1>8 DEF InsertFails, At, Writing, Fault
  <2>2. Leaked' \subseteq Leaked \cup {}
    BY <1>0, <2>1, ContinueLeaks
  <2>3. Cardinality({}) <= MaxFiles
    BY FS_EmptySet, ConstantsAssumption DEF ConstantsAssumption
  <2>4. QED BY <2>1, <2>2, <2>3 DEF SmallLeak
<1>9. ASSUME NEW w \in Workers, CleanUpImage(w) PROVE NoLeak \/ SmallLeak
  <2>1. PICK i \in work[w].images :
          /\ work' = [work EXCEPT ![w].images = @ \ {i}]
          /\ \/ objects' = objects \ {i} /\ UNCHANGED faults
             \/ Fault /\ UNCHANGED objects
    BY <1>9 DEF CleanUpImage
  <2>2. work[w] \in WriteJob /\ work[w].step = "cleanup" /\ UNCHANGED documents
    BY <1>0, <1>9, JobTypes DEF CleanUpImage, At, Writing
  <2> DEFINE j == [work[w] EXCEPT !.images = @ \ {i}]
  <2>3. work'[w] = j /\ \A v \in Workers : v # w => work'[v] = work[v]
    BY <1>0, <2>1 DEF TypeOK
  <2>4. j.step = "cleanup" /\ j.images = work[w].images \ {i}
    BY <2>2 DEF WriteJob
  <2> HIDE DEF j
  <2>5. \A x \in Leaked' : x \in Leaked \cup {i}
    BY <1>0, <2>1, <2>2, <2>3, <2>4, LeakedIs, LeakedIsNext DEF Writing
  <2>6. CASE objects' = objects \ {i} /\ UNCHANGED faults
    <3>1. i \notin Leaked'
      BY <2>6, LeakedIsNext
    <3>2. QED BY <2>5, <2>6, <3>1 DEF NoLeak
  <2>7. CASE Fault
    <3>1. {i} \in SUBSET Images
      BY <2>2 DEF WriteJob
    <3>2. QED BY <2>5, <2>7, <3>1, OneIsSmall DEF SmallLeak, Fault
  <2>8. QED BY <2>1, <2>6, <2>7
<1>10. ASSUME NEW w \in Workers, EndCleanUp(w) \/ StreamImage(w) \/ BreakOff(w) PROVE NoLeak
  <2>1. Finish(w) /\ UNCHANGED <<objects, documents, faults>>
    BY <1>10 DEF EndCleanUp, StreamImage, BreakOff
  <2>2. (IF Writing(w) THEN work[w].images ELSE {}) = {}
    BY <1>10 DEF EndCleanUp, StreamImage, BreakOff, At, Writing
  <2>3. Leaked' \subseteq Leaked \cup {}
    BY <1>0, <2>1, <2>2, EndLeaks
  <2>4. QED BY <2>1, <2>3 DEF NoLeak
<1>11. ASSUME NEW w \in Workers, Crash(w) PROVE SmallLeak
  <2>1. Finish(w) /\ faults' = faults + 1 /\ UNCHANGED <<objects, documents>>
    BY <1>11 DEF Crash, Fault
  <2> DEFINE X == IF Writing(w) THEN work[w].images ELSE {}
  <2>2. Leaked' \subseteq Leaked \cup X
    BY <1>0, <2>1, EndLeaks
  <2>3. X \in SUBSET Images /\ Cardinality(X) <= MaxFiles
    <3>1. CASE Writing(w)
      <4>1. work[w].images \in SUBSET Own(w) /\ Own(w) \in SUBSET Images
        BY <1>0, <3>1, OwnType DEF Own
      <4>2. Cardinality(work[w].images) <= Cardinality(Own(w))
            /\ Cardinality(work[w].images) \in Nat /\ Cardinality(Own(w)) \in Nat
        BY <4>1, ImageSetsFinite
      <4>3. Cardinality(Own(w)) <= MaxFiles
        BY <3>1 DEF Small
      <4>4. QED BY <3>1, <4>1, <4>2, <4>3, ConstantsAssumption DEF ConstantsAssumption
    <3>2. CASE ~Writing(w)
      BY <3>2, FS_EmptySet, ConstantsAssumption DEF ConstantsAssumption
    <3>3. QED BY <3>1, <3>2
  <2> HIDE DEF X
  <2>4. QED BY <2>1, <2>2, <2>3 DEF SmallLeak
<1>12. QED
  BY <1>1, <1>2, <1>3, <1>4, <1>5, <1>6, <1>7, <1>8, <1>9, <1>10, <1>11
     DEF Next, Begin, Serve

\* Part of what a request owns is no larger than that.
LEMMA PartIsSmall ==
  ASSUME TypeOK, Small, NEW w \in Workers, Writing(w), NEW S \in SUBSET Own(w)
  PROVE  Cardinality(S) <= MaxFiles
<1>1. Own(w) \in SUBSET Images /\ Cardinality(Own(w)) <= MaxFiles
  BY OwnType DEF Small
<1>2. /\ Cardinality(S) <= Cardinality(Own(w))
      /\ Cardinality(S) \in Nat /\ Cardinality(Own(w)) \in Nat
  BY <1>1, ImageSetsFinite
<1>3. QED BY <1>1, <1>2, ConstantsAssumption DEF ConstantsAssumption

\* A step of one request keeps sizes small if it does so for it and its document.
LEMMA SmallKeeps ==
  ASSUME Small, NEW w \in Workers, \A v \in Workers : v # w => work'[v] = work[v],
         Writing(w)' => Cardinality(Own(w)') <= MaxFiles,
         \A d \in documents' : d \in documents \/ Cardinality(d.images) <= MaxFiles
  PROVE  Small'
  BY DEF Small, Writing, Own

\* No step exceeds the number of files a request may upload.
LEMMA SmallStep ==
  ASSUME TypeOK, Small, Next
  PROVE  Small'
<1>1. ASSUME NEW w \in Workers, NEW id \in DocumentIds, NEW kind \in Kinds,
             NEW files \in SUBSET Images, BeginCreate(w, id, kind, files)
      PROVE  Small'
  <2>1. /\ work'[w].images = {} /\ work'[w].pending = files /\ documents' = documents
        /\ \A v \in Workers : v # w => work'[v] = work[v]
    BY <1>1 DEF TypeOK, BeginCreate, Start
  <2>2. Cardinality(files) <= MaxFiles
    <3>1. Cardinality(files) \in Nat
      BY ImageSetsFinite
    <3>2. QED BY <1>1, <3>1, ConstantsAssumption DEF BeginCreate, FileLimit, ConstantsAssumption
  <2>3. Own(w)' = files
    BY <2>1 DEF Own
  <2>4. QED BY <2>1, <2>2, <2>3, SmallKeeps
<1>2. ASSUME NEW w \in Workers, NEW d \in documents, DeleteUpdate(w, d) PROVE Small'
  <2>1. /\ work'[w].images = d.images /\ work'[w].pending = {} /\ documents' \subseteq documents
        /\ \A v \in Workers : v # w => work'[v] = work[v]
    BY <1>2 DEF TypeOK, DeleteUpdate, Start, RemovalOf
  <2>2. Own(w)' = d.images
    BY <2>1 DEF Own
  <2>3. Cardinality(d.images) <= MaxFiles
    BY DEF Small
  <2>4. QED BY <2>1, <2>2, <2>3, SmallKeeps
<1>3. ASSUME NEW w \in Workers, NEW d \in documents, NEW i \in d.images, FindImage(w, d, i)
      PROVE  Small'
  <2>1. /\ ~Writing(w)' /\ documents' = documents
        /\ \A v \in Workers : v # w => work'[v] = work[v]
    BY <1>3 DEF TypeOK, FindImage, Start, Writing
  <2>2. QED BY <2>1, SmallKeeps
<1>4. ASSUME NEW w \in Workers, UploadImage(w) \/ CleanUpImage(w) PROVE Small'
  <2>1. Writing(w) /\ work[w] \in WriteJob /\ documents' = documents
    BY <1>4, JobTypes DEF UploadImage, CleanUpImage, At, Writing
  <2>2. PICK i \in Own(w) :
          \/ work' = [work EXCEPT ![w].pending = @ \ {i}, ![w].images = @ \cup {i}]
          \/ work' = [work EXCEPT ![w].images = @ \ {i}]
    BY <1>4 DEF UploadImage, CleanUpImage, Own
  <2> DEFINE j == [[work[w] EXCEPT !.pending = @ \ {i}] EXCEPT !.images = @ \cup {i}]
             k == [work[w] EXCEPT !.images = @ \ {i}]
  <2>3. work'[w] \in {j, k} /\ \A v \in Workers : v # w => work'[v] = work[v]
    BY <2>2 DEF TypeOK
  <2>4. /\ j.images = work[w].images \cup {i} /\ j.pending = work[w].pending \ {i}
        /\ k.images = work[w].images \ {i} /\ k.pending = work[w].pending
    BY <2>1 DEF WriteJob
  <2> HIDE DEF j, k
  <2>5. Own(w)' \in SUBSET Own(w)
    BY <2>2, <2>3, <2>4 DEF Own
  <2>6. Cardinality(Own(w)') <= MaxFiles
    BY <2>1, <2>5, PartIsSmall
  <2>7. QED BY <2>1, <2>3, <2>6, SmallKeeps
<1>5. ASSUME NEW w \in Workers,
             RejectImage(w) \/ UploadFails(w) \/ EndUploads(w) \/ RejectDocument(w) \/ InsertFails(w)
      PROVE  Small'
  <2>1. /\ Writing(w) /\ documents' \subseteq documents \cup {Stored(work[w])}
        /\ Continue(w, "cleanup") \/ Continue(w, "insert")
    BY <1>5 DEF RejectImage, UploadFails, EndUploads, RejectDocument, InsertFails, At, Writing
  <2>2. /\ Own(w)' = Own(w) /\ \A v \in Workers : v # w => work'[v] = work[v]
    BY <2>1, ContinueKeeps DEF Own
  <2>3. Stored(work[w]).images = work[w].images
    BY <2>1, JobTypes, StoredType
  <2>4. Cardinality(work[w].images) <= MaxFiles /\ Cardinality(Own(w)) <= MaxFiles
    BY <2>1, PartIsSmall DEF Own
  <2>5. QED BY <2>1, <2>2, <2>3, <2>4, SmallKeeps
<1>6. ASSUME NEW w \in Workers, InsertDocument(w) PROVE Small'
  <2>1. Writing(w) /\ documents' = documents \cup {Stored(work[w])} /\ Finish(w)
    BY <1>6 DEF InsertDocument, At, Writing
  <2>2. ~Writing(w)' /\ \A v \in Workers : v # w => work'[v] = work[v]
    BY <2>1 DEF TypeOK, Finish, NoJob, Writing
  <2>3. Stored(work[w]).images = work[w].images
    BY <2>1, JobTypes, StoredType
  <2>4. Cardinality(work[w].images) <= MaxFiles
    BY <2>1, PartIsSmall DEF Own
  <2>5. QED BY <2>1, <2>2, <2>3, <2>4, SmallKeeps
<1>7. ASSUME NEW w \in Workers, EndCleanUp(w) \/ StreamImage(w) \/ BreakOff(w) \/ Crash(w)
      PROVE  Small'
  <2>1. Finish(w) /\ documents' = documents
    BY <1>7 DEF EndCleanUp, StreamImage, BreakOff, Crash
  <2>2. ~Writing(w)' /\ \A v \in Workers : v # w => work'[v] = work[v]
    BY <2>1 DEF TypeOK, Finish, NoJob, Writing
  <2>3. QED BY <2>1, <2>2, SmallKeeps
<1>8. QED
  BY <1>1, <1>2, <1>3, <1>4, <1>5, <1>6, <1>7 DEF Next, Begin, Serve

(* The undo paths leave nothing behind: an object that no document points at *)
(* and no request still holds is owed to a fault, and one fault costs no more *)
(* objects than one request may upload.                                      *)
THEOREM OnlyFaultsLeak == Spec => []LeaksAreFaults
<1>1. Init => StoreInv /\ Small /\ LeaksAreFaults
  <2> SUFFICES ASSUME Init PROVE StoreInv /\ Small /\ LeaksAreFaults
    OBVIOUS
  <2>1. StoreInv
    BY StoreInit
  <2>2. Small
    BY DEF Init, Small, Writing, NoJob
  <2>3. Leaked = {} /\ faults = 0
    BY DEF Init, Leaked
  <2>4. LeaksAreFaults
    <3>1. 0 * MaxFiles = 0
      BY ConstantsAssumption DEF ConstantsAssumption
    <3>2. QED BY <2>3, <3>1, FS_EmptySet DEF LeaksAreFaults, Leaked
  <2>5. QED BY <2>1, <2>2, <2>4
<1>2. StoreInv /\ Small /\ LeaksAreFaults /\ [Next]_vars => (StoreInv /\ Small /\ LeaksAreFaults)'
  <2> SUFFICES ASSUME StoreInv, Small, LeaksAreFaults, [Next]_vars
               PROVE  (StoreInv /\ Small /\ LeaksAreFaults)'
    OBVIOUS
  <2>1. StoreInv' /\ TypeOK /\ TypeOK'
    BY StoreStep, TypeStep DEF StoreInv
  <2>2. CASE Next
    BY <2>1, <2>2, SmallStep, StepLeaks, LeaksCounted DEF LeakInv
  <2>3. CASE UNCHANGED vars
    BY <2>1, <2>3 DEF vars, Small, LeaksAreFaults, Writing, Own, Referenced, InFlight, Held
  <2>4. QED BY <2>2, <2>3
<1>3. QED BY <1>1, <1>2, PTL DEF Spec
=============================================================================
