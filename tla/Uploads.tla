------------------------------ MODULE Uploads -------------------------------
(***************************************************************************)
(* Files: the row in the database, the object a browser puts under a       *)
(* pending key, and its promotion to the public bucket, as written in      *)
(*   src/server/src/modules/files/files.service.ts                         *)
(*                                                                         *)
(* Every S3 call is an await; the server may die at any of them. A browser *)
(* that puts again within the life of its URL puts the same bytes: for     *)
(* other bytes the front end asks for another file. The conversion to WebP *)
(* is left out: no row that requestUpload makes takes that path.           *)
(***************************************************************************)
EXTENDS Requests

CONSTANT File, NoUploader

ASSUME UploadsAssumption == NoUploader \notin User

VARIABLES
  uploader,   \* files.uploaderUserId, NoUploader without a row
  upload,     \* files.upload_status, "none" before the insert
  public,     \* files.requestedBucket is public
  genuine,    \* the bytes are what the content type says
  pending,    \* objects under the key of requestUpload
  promoted,   \* objects under uploads/ in the public bucket
  put         \* history: files whose object was put

uploadVars == <<uploader, upload, public, genuine, pending, promoted, put>>

UploadCall ==
  [op : {"head", "get", "discard", "reject", "copy", "ready", "tidy"}, file : File]

UploadsTypeOK ==
  /\ uploader \in [File -> User \cup {NoUploader}]
  /\ upload \in [File -> {"none", "pending", "ready", "rejected"}]
  /\ public \in [File -> BOOLEAN]
  /\ genuine \in [File -> BOOLEAN]
  /\ pending \cup promoted \cup put \subseteq File

UploadsInit ==
  /\ uploader = [f \in File |-> NoUploader]
  /\ upload = [f \in File |-> "none"]
  /\ public \in [File -> BOOLEAN]
  /\ genuine \in [File -> BOOLEAN]
  /\ pending = {} /\ promoted = {} /\ put = {}

Known(f) == uploader[f] # NoUploader

RequestUpload(u, f) ==
  /\ upload[f] = "none"
  /\ Serve(u)
  /\ uploader' = [uploader EXCEPT ![f] = u]
  /\ upload' = [upload EXCEPT ![f] = "pending"]
  /\ UNCHANGED <<call, accountVars, public, genuine, pending, promoted, put>>

\* The presigned URL works for five minutes, for any number of puts.
PutObject(f) ==
  /\ Known(f)
  /\ f \notin pending
  /\ pending' = pending \cup {f}
  /\ put' = put \cup {f}
  /\ UNCHANGED <<call, calls, accountVars, uploader, upload, public, genuine, promoted>>

\* finalizeUpload reads the row; a ready file is returned as it is.
FinalizeUpload(c, f) ==
  /\ Known(f)
  /\ upload[f] # "ready"
  /\ Begin(c, uploader[f], [op |-> "head", file |-> f])
  /\ UNCHANGED <<accountVars, uploadVars>>

\* Withdrawal deletes the rows; the objects stay.
ForgetUploads(u) ==
  /\ uploader' = [f \in File |-> IF uploader[f] = u THEN NoUploader ELSE uploader[f]]
  /\ UNCHANGED <<upload, public, genuine, pending, promoted, put>>

At(c, stage) == call[c].op = stage
Goto(c, stage) == Continue(c, [call[c] EXCEPT !.op = stage])

\* Without an object the call ends: with the row if it is ready by now, else
\* with an error. The head shows a wrong type or size, the first bytes a
\* forged one.
HeadObject(c) ==
  /\ At(c, "head")
  /\ \/ call[c].file \notin pending /\ Return(c)
     \/ call[c].file \in pending /\ Goto(c, "get")
     \/ call[c].file \in pending /\ ~genuine[call[c].file] /\ Goto(c, "discard")
  /\ UNCHANGED <<accountVars, uploadVars>>

GetObject(c) ==
  /\ At(c, "get")
  /\ \/ call[c].file \notin pending /\ Return(c)
     \/ /\ call[c].file \in pending
        /\ Goto(c, IF ~genuine[call[c].file] THEN "discard"
                   ELSE IF public[call[c].file] THEN "copy" ELSE "ready")
  /\ UNCHANGED <<accountVars, uploadVars>>

\* An update by id: the row may have been deleted with its account.
SetUpload(f, status) ==
  upload' = IF Known(f) THEN [upload EXCEPT ![f] = status] ELSE upload

\* rejectUpload: the object, then the row.
DiscardObject(c) ==
  /\ At(c, "discard")
  /\ pending' = pending \ {call[c].file}
  /\ Goto(c, "reject")
  /\ UNCHANGED <<accountVars, uploader, upload, public, genuine, promoted, put>>

RejectRow(c) ==
  /\ At(c, "reject")
  /\ SetUpload(call[c].file, "rejected")
  /\ Return(c)
  /\ UNCHANGED <<accountVars, uploader, public, genuine, pending, promoted, put>>

CopyObject_Move(c) ==
  /\ At(c, "copy")
  /\ IF call[c].file \in pending
     THEN /\ promoted' = promoted \cup {call[c].file}
          /\ pending' = pending \ {call[c].file}
          /\ Goto(c, "ready")
     ELSE UNCHANGED <<promoted, pending>> /\ Return(c)
  /\ UNCHANGED <<accountVars, uploader, upload, public, genuine, put>>

CopyObject(c) ==
  /\ At(c, "copy")
  /\ IF call[c].file \in pending
     THEN promoted' = promoted \cup {call[c].file} /\ Goto(c, "ready")
     ELSE UNCHANGED promoted /\ Return(c)
  /\ UNCHANGED <<accountVars, uploader, upload, public, genuine, pending, put>>

\* The pending object goes only once the row names the promoted copy.
AfterReady(f) == IF public[f] THEN "tidy" ELSE "done"

MarkReady(c) ==
  /\ At(c, "ready")
  /\ SetUpload(call[c].file, "ready")
  /\ IF AfterReady(call[c].file) = "done" THEN Return(c) ELSE Goto(c, "tidy")
  /\ UNCHANGED <<accountVars, uploader, public, genuine, pending, promoted, put>>

\* A failed delete is logged and leaves an orphan.
TidyPending(c) ==
  /\ At(c, "tidy")
  /\ pending' \in {pending, pending \ {call[c].file}}
  /\ Return(c)
  /\ UNCHANGED <<accountVars, uploader, upload, public, genuine, promoted, put>>

\* The server dies, or S3 or the database fails: the call ends where it is.
FinalizeDies(c) ==
  /\ call[c] \in UploadCall
  /\ Return(c)
  /\ UNCHANGED <<accountVars, uploadVars>>

UploadsNext ==
  \/ \E f \in File : PutObject(f) \/ \E u \in User : RequestUpload(u, f)
  \/ \E c \in Slot :
       \/ HeadObject(c) \/ GetObject(c) \/ DiscardObject(c) \/ RejectRow(c)
       \/ CopyObject(c) \/ MarkReady(c) \/ TidyPending(c) \/ FinalizeDies(c)
       \/ \E f \in File : FinalizeUpload(c, f)

-----------------------------------------------------------------------------
\* "Deleting first would lose the file if the update failed": whatever died on
\* the way, a genuine file that was uploaded and is not ready yet can still be
\* finalized. And a ready file is genuine and there, at the public key or
\* under the key that a private file keeps: no call that ran beside its
\* promotion has rejected it or removed its object.
UploadSurvives ==
  \A f \in put : Known(f) =>
    /\ upload[f] = "pending" /\ genuine[f] => f \in pending
    /\ upload[f] = "ready" => genuine[f] /\ f \in IF public[f] THEN promoted ELSE pending
    /\ upload[f] = "rejected" => ~genuine[f]
=============================================================================
