------------------------------ MODULE ImageStore ------------------------------
(***************************************************************************)
(* Images kept in a Cloud Storage bucket for documents kept in MongoDB:    *)
(* suggestions with up to MaxFiles attachments and product updates with at *)
(* most one image (src/services/suggestion_images.py and the routes that   *)
(* call it).  No transaction spans the two stores: a request uploads, then *)
(* inserts, and undoes its uploads when something raises.                  *)
(*                                                                         *)
(* A worker is one HTTP request being served; every call to the bucket or  *)
(* to MongoDB is one step.  Decoding and validating an image either raises *)
(* or not.  Object names hold a fresh uuid and document ids are fresh: a   *)
(* request draws those it will need when it begins.                        *)
(***************************************************************************)
EXTENDS Naturals, FiniteSets

CONSTANTS
    Images,             \* object names that may be drawn
    DocumentIds,        \* ids that may be drawn for documents
    MaxFiles,           \* SuggestionImageSettings.max_files
    Workers,            \* requests in flight at the same time
    MaxFaults           \* bound: crashes and calls that fail or lose their answer

ASSUME ConstantsAssumption ==
    /\ IsFiniteSet(Images) /\ IsFiniteSet(DocumentIds)
    /\ MaxFiles \in Nat \ {0} /\ MaxFaults \in Nat

VARIABLES
    objects,            \* objects stored in the bucket
    documents,          \* stored suggestions and product updates
    drawn,              \* object names and document ids drawn so far
    deleted,            \* ids of deleted product updates
    unanswered,         \* ids whose insert was done but raised all the same
    work,               \* what each worker is doing
    faults              \* faults so far

vars == <<objects, documents, drawn, deleted, unanswered, work, faults>>

-----------------------------------------------------------------------------
Kinds == {"suggestion", "update"}
Document == [id : DocumentIds, kind : Kinds, images : SUBSET Images]

\* pending: images not uploaded yet; images: those uploaded, or still to be deleted.
WriteJob ==
    [step : {"upload", "insert", "cleanup"}, id : DocumentIds, kind : Kinds,
     pending : SUBSET Images, images : SUBSET Images]
ReadJob == [step : {"open"}, id : DocumentIds, image : Images]
NoJob == [step |-> "idle"]
Job == {NoJob} \cup WriteJob \cup ReadJob

Init ==
    /\ objects = {} /\ documents = {}
    /\ drawn = {} /\ deleted = {} /\ unanswered = {}
    /\ work = [w \in Workers |-> NoJob]
    /\ faults = 0

Start(w, job) == work[w] = NoJob /\ work' = [work EXCEPT ![w] = job]
At(w, step) == work[w].step = step
Continue(w, step) == work' = [work EXCEPT ![w].step = step]
Finish(w) == work' = [work EXCEPT ![w] = NoJob]
Fault == faults < MaxFaults /\ faults' = faults + 1

FileLimit(kind) == IF kind = "suggestion" THEN MaxFiles ELSE 1

(* POST /suggestions and POST /product-updates; more files are refused. *)
BeginCreate(w, id, kind, files) ==
    /\ Cardinality(files) <= FileLimit(kind)
    /\ drawn \cap (files \cup {id}) = {}
    /\ drawn' = drawn \cup files \cup {id}
    /\ Start(w, [step |-> "upload", id |-> id, kind |-> kind,
                 pending |-> files, images |-> {}])
    /\ UNCHANGED <<objects, documents, deleted, unanswered, faults>>

UploadImage(w) ==
    /\ At(w, "upload")
    /\ \E i \in work[w].pending :
          /\ objects' = objects \cup {i}
          /\ work' = [work EXCEPT ![w].pending = @ \ {i}, ![w].images = @ \cup {i}]
    /\ UNCHANGED <<documents, drawn, deleted, unanswered, faults>>

(* An image has the wrong type or size, or does not decode. *)
RejectImage(w) ==
    /\ At(w, "upload") /\ work[w].pending # {}
    /\ Continue(w, "cleanup")
    /\ UNCHANGED <<objects, documents, drawn, deleted, unanswered, faults>>

CountFailedUpload(w) == \* mutant: an upload that raises is skipped, not undone
    /\ At(w, "upload")
    /\ Fault
    /\ \E i \in work[w].pending :
          work' = [work EXCEPT ![w].pending = @ \ {i}, ![w].images = @ \cup {i}]
    /\ UNCHANGED <<objects, documents, drawn, deleted, unanswered>>

(* The upload raises, whether or not the object was stored: it is not yet *)
(* in the list that is cleaned up.                                        *)
UploadFails(w) ==
    /\ At(w, "upload")
    /\ Fault
    /\ \E i \in work[w].pending : objects' \in {objects, objects \cup {i}}
    /\ Continue(w, "cleanup")
    /\ UNCHANGED <<documents, drawn, deleted, unanswered>>

EndUploads(w) ==
    /\ At(w, "upload") /\ work[w].pending = {}
    /\ Continue(w, "insert")
    /\ UNCHANGED <<objects, documents, drawn, deleted, unanswered, faults>>

Stored(job) == [id |-> job.id, kind |-> job.kind, images |-> job.images]

InsertDocument(w) ==
    /\ At(w, "insert")
    /\ documents' = documents \cup {Stored(work[w])}
    /\ Finish(w)
    /\ UNCHANGED <<objects, drawn, deleted, unanswered, faults>>

(* A release date or highlights that do not parse: nothing is inserted. *)
RejectDocument(w) ==
    /\ At(w, "insert") /\ work[w].kind = "update"
    /\ Continue(w, "cleanup")
    /\ UNCHANGED <<objects, documents, drawn, deleted, unanswered, faults>>

(* The insert raises, whether or not the document was stored. *)
InsertFails(w) ==
    /\ At(w, "insert")
    /\ Fault
    /\ \/ UNCHANGED <<documents, unanswered>>
       \/ /\ documents' = documents \cup {Stored(work[w])}
          /\ unanswered' = unanswered \cup {work[w].id}
    /\ Continue(w, "cleanup")
    /\ UNCHANGED <<objects, drawn, deleted>>

(* delete_many goes on to the next image whether or not a delete raises. *)
CleanUpImage(w) ==
    /\ At(w, "cleanup")
    /\ \E i \in work[w].images :
          /\ work' = [work EXCEPT ![w].images = @ \ {i}]
          /\ \/ objects' = objects \ {i} /\ UNCHANGED faults
             \/ Fault /\ UNCHANGED objects
    /\ UNCHANGED <<documents, drawn, deleted, unanswered>>

LeaveUploads(w) == \* mutant: the images of a failed request are not deleted
    /\ At(w, "cleanup")
    /\ Finish(w)
    /\ UNCHANGED <<objects, documents, drawn, deleted, unanswered, faults>>

EndCleanUp(w) ==
    /\ At(w, "cleanup") /\ work[w].images = {}
    /\ Finish(w)
    /\ UNCHANGED <<objects, documents, drawn, deleted, unanswered, faults>>

RemovalOfAll(d) == \* mutant: delete_many is given the document, not its image
    [step |-> "cleanup", id |-> d.id, kind |-> d.kind, pending |-> {}, images |-> {d}]

RemovalOf(d) == [step |-> "cleanup", id |-> d.id, kind |-> d.kind,
                 pending |-> {}, images |-> d.images]

DeleteImageFirst(w, d) == \* mutant: the image goes and the document stays behind
    /\ d.kind = "update"
    /\ Start(w, RemovalOf(d))
    /\ UNCHANGED <<objects, documents, drawn, deleted, unanswered, faults>>

ForgetImage(w, d) == \* mutant: the document goes and its image stays behind
    /\ d.kind = "update"
    /\ documents' = documents \ {d}
    /\ deleted' = deleted \cup {d.id}
    /\ UNCHANGED <<objects, drawn, unanswered, work, faults>>

(* DELETE /product-updates/{id}: the document first, then its image. *)
DeleteUpdate(w, d) ==
    /\ d.kind = "update"
    /\ documents' = documents \ {d}
    /\ deleted' = deleted \cup {d.id}
    /\ Start(w, RemovalOf(d))
    /\ UNCHANGED <<objects, drawn, unanswered, faults>>

(* GET .../attachments/{id} and .../image: the document is read, the answer *)
(* starts, and only then is the object opened.                              *)
FindImage(w, d, i) ==
    /\ Start(w, [step |-> "open", id |-> d.id, image |-> i])
    /\ UNCHANGED <<objects, documents, drawn, deleted, unanswered, faults>>

StreamImage(w) ==
    /\ At(w, "open") /\ work[w].image \in objects
    /\ Finish(w)
    /\ UNCHANGED <<objects, documents, drawn, deleted, unanswered, faults>>

(* The object is not there any more: the answer, a 200 already, breaks off. *)
BreakOff(w) ==
    /\ At(w, "open") /\ work[w].image \notin objects
    /\ Finish(w)
    /\ UNCHANGED <<objects, documents, drawn, deleted, unanswered, faults>>

(* The process dies between two calls: what is written stays. *)
Crash(w) ==
    /\ work[w] # NoJob /\ Fault
    /\ Finish(w)
    /\ UNCHANGED <<objects, documents, drawn, deleted, unanswered>>

Begin(w) ==
    \/ \E id \in DocumentIds, kind \in Kinds, files \in SUBSET Images :
          BeginCreate(w, id, kind, files)
    \/ \E d \in documents : DeleteUpdate(w, d)
    \/ \E d \in documents : \E i \in d.images : FindImage(w, d, i)

Serve(w) ==
    \/ UploadImage(w) \/ RejectImage(w) \/ UploadFails(w) \/ EndUploads(w)
    \/ InsertDocument(w) \/ RejectDocument(w) \/ InsertFails(w)
    \/ CleanUpImage(w) \/ EndCleanUp(w)
    \/ StreamImage(w) \/ BreakOff(w)

Next == \E w \in Workers : Begin(w) \/ Serve(w) \/ Crash(w)

Spec == Init /\ [][Next]_vars

\* The event loop resumes every coroutine whose call has answered.
FairSpec == Spec /\ \A w \in Workers : WF_vars(Serve(w))

-----------------------------------------------------------------------------
(* Properties *)

(* Every variable keeps the shape the two stores and the routes give it. *)
TypeOK ==
    /\ objects \subseteq Images
    /\ documents \subseteq Document
    /\ drawn \subseteq Images \cup DocumentIds
    /\ deleted \subseteq DocumentIds /\ unanswered \subseteq DocumentIds
    /\ work \in [Workers -> Job]
    /\ faults \in 0..MaxFaults

Referenced == UNION {d.images : d \in documents}
Held(w) == IF work[w] \in WriteJob THEN work[w].images ELSE {}
InFlight == UNION {Held(w) : w \in Workers}

(* A stored document never points at an object that is gone, whatever is    *)
(* deleted or undone around it, except where its insert was done and raised *)
(* all the same: there the route deletes the images of a live document.     *)
ImagesAreThere ==
    \A d \in documents : d.images \subseteq objects \/ d.id \in unanswered

(* The undo paths of the routes leave nothing behind: an object that no      *)
(* document points at and no request still holds is owed to a fault, and one *)
(* fault costs no more objects than one request may upload.                  *)
LeaksAreFaults ==
    Cardinality(objects \ (Referenced \cup InFlight)) <= faults * MaxFiles

(* A download that was answered 200 can only break off on an image whose     *)
(* product update was deleted after it was read, or whose insert raised.     *)
BreakOffsExplained ==
    \A w \in Workers :
        (At(w, "open") /\ work[w].image \notin objects) =>
            work[w].id \in deleted \cup unanswered

(* With every request served to its end, an upload does not stay in limbo:  *)
(* the object comes to belong to a document or is deleted, unless a fault    *)
(* struck.                                                                   *)
UploadsSettle ==
    \A i \in Images :
        i \in objects ~> (i \in Referenced \/ i \notin objects \/ faults > 0)
=============================================================================
