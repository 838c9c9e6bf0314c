---------------------------- MODULE ObjectUpload ----------------------------
(***************************************************************************)
(* Uploads of the image service to object storage                          *)
(* (src/src/business-api/aliyun-oss-storage.ts, upload).  A sealed upload   *)
(* declares the digest of its bytes, creates its object only once, and     *)
(* takes an object that is already there for its own when its digest, size *)
(* and type agree.  The store is external: it works on a request whoever   *)
(* still waits for the answer.                                             *)
(***************************************************************************)
EXTENDS Integers, FiniteSets

CONSTANTS
  Uploader,  \* calls of upload
  ObjectKey, \* keys of the bucket
  SealedKey, \* keys under which only sealed uploads are made
  Bytes,     \* contents
  Shape,     \* size and type of each content
  NoObject

ASSUME UploadAssumption ==
  SealedKey \subseteq ObjectKey /\ DOMAIN Shape = Bytes /\ NoObject \notin Bytes

(* What the bucket holds under a key: contents and the digest stored with  *)
(* them, NoObject if there is none.                                        *)
StoredObject == [bytes : Bytes, digest : Bytes \union {NoObject}]

(* "digest" is what a sealed upload says of its bytes; NoObject for a plain *)
(* upload.  Sealed uploads keep to their own part of the bucket.           *)
UploadRequest ==
  [key : SealedKey, bytes : Bytes, digest : Bytes] \union
  [key : ObjectKey \ SealedKey, bytes : Bytes, digest : {NoObject}]

ASSUME NoObjectAssumption == NoObject \notin StoredObject /\ NoObject \notin UploadRequest

VARIABLES
  upload,  \* what each call was asked
  at,      \* where each call is: "idle", "putting", "heading", "signing", "over"
  put,     \* the store's side of its PUT: "none", "sent", "stored", "conflict"
  object,  \* the bucket: contents and the digest stored with them
  abort,   \* calls whose signal has fired
  uploadReply    \* what each call ended with

uploadVars == <<upload, at, put, object, abort, uploadReply>>

Sealed(u) == upload[u].digest # NoObject

(* The bucket may hold objects of other tools, which carry no digest.      *)
UploadInit ==
  /\ object \in [ObjectKey -> {NoObject} \union [bytes : Bytes, digest : {NoObject}]]
  /\ upload = [u \in Uploader |-> NoObject]
  /\ at = [u \in Uploader |-> "idle"]
  /\ put = [u \in Uploader |-> "none"]
  /\ abort = {} /\ uploadReply = [u \in Uploader |-> "none"]

Over(u, what) ==
  /\ at' = [at EXCEPT ![u] = "over"] /\ uploadReply' = [uploadReply EXCEPT ![u] = what]

Goes(u, where) == at' = [at EXCEPT ![u] = where] /\ UNCHANGED uploadReply

(* Bytes that are not what the caller declares are never sent.             *)
BrokenDeclared(r) == TRUE
Declared(r) == r.digest \in {NoObject, r.bytes}

BeginUpload(u, r) ==
  /\ at[u] = "idle"
  /\ upload' = [upload EXCEPT ![u] = r]
  /\ IF Declared(r)
     THEN put' = [put EXCEPT ![u] = "sent"] /\ Goes(u, "putting")
     ELSE Over(u, "refused") /\ UNCHANGED put
  /\ UNCHANGED <<object, abort>>

(* The store: a sealed PUT forbids overwriting and leaves its digest.      *)
BrokenOverwrites(u) == TRUE
Overwrites(u) == ~Sealed(u)

StorePuts(u) ==
  /\ put[u] = "sent"
  /\ LET k == upload[u].key IN
     IF object[k] = NoObject \/ Overwrites(u)
     THEN /\ object' = [object EXCEPT ![k] = [bytes |-> upload[u].bytes,
                                             digest |-> upload[u].digest]]
          /\ put' = [put EXCEPT ![u] = "stored"]
     ELSE put' = [put EXCEPT ![u] = "conflict"] /\ UNCHANGED object
  /\ UNCHANGED <<upload, at, abort, uploadReply>>

PutAnswered(u) ==
  /\ at[u] = "putting" /\ put[u] \in {"stored", "conflict"}
  /\ IF put[u] = "conflict" THEN Goes(u, "heading")
     ELSE IF u \in abort THEN Over(u, "aborted") ELSE Goes(u, "signing")
  /\ UNCHANGED <<upload, put, object, abort>>

(* Another status, a lost answer or the time limit, at any of the calls.   *)
StoreFails(u) ==
  /\ at[u] \in {"putting", "heading", "signing"}
  /\ Over(u, IF u \in abort THEN "aborted" ELSE "failed")
  /\ UNCHANGED <<upload, put, object, abort>>

BrokenSameObject(u) == Shape[object[upload[u].key].bytes] = Shape[upload[u].bytes]
SameObject(u) ==
  LET o == object[upload[u].key] IN
    o.digest = upload[u].digest /\ Shape[o.bytes] = Shape[upload[u].bytes]

HeadAnswered(u) ==
  /\ at[u] = "heading"
  /\ IF u \in abort THEN Over(u, "aborted")
     ELSE IF SameObject(u) THEN Goes(u, "signing") ELSE Over(u, "occupied")
  /\ UNCHANGED <<upload, put, object, abort>>

(* A signed URL, or the public one of the key.                             *)
UrlMade(u) ==
  /\ at[u] = "signing"
  /\ Over(u, IF u \in abort THEN "aborted" ELSE "url")
  /\ UNCHANGED <<upload, put, object, abort>>

UploadAborted(u) ==
  /\ at[u] \in {"putting", "heading", "signing"} /\ u \notin abort
  /\ abort' = abort \union {u}
  /\ UNCHANGED <<upload, at, put, object, uploadReply>>

UploadNext == \E u \in Uploader :
  \/ \E r \in UploadRequest : BeginUpload(u, r)
  \/ StorePuts(u) \/ PutAnswered(u) \/ StoreFails(u) \/ HeadAnswered(u)
  \/ UrlMade(u) \/ UploadAborted(u)

UploadSpec == UploadInit /\ [][UploadNext]_uploadVars

-----------------------------------------------------------------------------
(* Properties.                                                             *)

UploadTypeOK ==
  /\ upload \in [Uploader -> UploadRequest \union {NoObject}]
  /\ at \in [Uploader -> {"idle", "putting", "heading", "signing", "over"}]
  /\ put \in [Uploader -> {"none", "sent", "stored", "conflict"}]
  /\ object \in [ObjectKey -> {NoObject} \union StoredObject]
  /\ abort \subseteq Uploader
  /\ uploadReply \in [Uploader -> {"none", "url", "refused", "failed", "aborted", "occupied"}]

(* The URL of a sealed upload leads to exactly the bytes it was given, for *)
(* ever, whatever was in the bucket before, whichever uploads of the same  *)
(* key raced, and whichever answers were lost; and an earlier copy of the  *)
(* same upload is never in the way of a later one.                         *)
SealedUrlsKeepTheirBytes ==
  \A u \in Uploader :
    upload[u] # NoObject /\ Sealed(u) =>
      /\ uploadReply[u] = "url" => object[upload[u].key].bytes = upload[u].bytes
      /\ uploadReply[u] = "occupied" =>
           object[upload[u].key] # [bytes |-> upload[u].bytes, digest |-> upload[u].bytes]
=============================================================================
