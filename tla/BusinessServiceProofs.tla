------------------------ MODULE BusinessServiceProofs ------------------------
(***************************************************************************)
(* The business Processes and the services they pay: uploads, the composed *)
(* task, the emoji plan, the image service, the template production and the *)
(* emoji picture, each for any number of actors, keys and budgets.         *)
(***************************************************************************)
EXTENDS MCBusinessServices, FiniteSetTheorems, SequenceTheorems, TLAPS

-----------------------------------------------------------------------------
(* Counting the entries of a kind in a sequence.                            *)

Places(l, T) == {i \in DOMAIN l : l[i] \in T}

LEMMA PlaceCount ==
  ASSUME NEW S, NEW T, NEW l \in Seq(S), NEW e \in S
  PROVE  /\ Append(l, e) \in Seq(S) /\ Len(Append(l, e)) = Len(l) + 1
         /\ Cardinality(Places(l, T)) \in Nat
         /\ Cardinality(Places(Append(l, e), T))
              = Cardinality(Places(l, T)) + (IF e \in T THEN 1 ELSE 0)
<1> DEFINE n == Len(l) + 1  m == Append(l, e)
<1>1. /\ m \in Seq(S) /\ Len(m) = n /\ m[n] = e /\ DOMAIN m = 1..n /\ DOMAIN l = 1..Len(l)
      /\ \A i \in 1..Len(l) : m[i] = l[i]
      /\ Len(l) \in Nat
  BY AppendProperties, LenProperties
<1> HIDE DEF m
<1>2. IsFiniteSet(Places(l, T)) /\ n \notin Places(l, T)
  <2>1. Places(l, T) \subseteq 1..Len(l) /\ n \notin 1..Len(l)
    BY <1>1 DEF Places
  <2>2. IsFiniteSet(1..Len(l))
    BY <1>1, FS_Interval
  <2> QED
    BY <2>1, <2>2, FS_Subset
<1>3. Places(m, T) = Places(l, T) \cup (IF e \in T THEN {n} ELSE {})
  BY <1>1 DEF Places
<1>4. /\ Cardinality(Places(l, T)) \in Nat
      /\ Cardinality(Places(l, T) \cup {n}) = Cardinality(Places(l, T)) + 1
  BY <1>2, FS_AddElement, FS_CardinalityType
<1>5. CASE e \in T
  <2>1. Places(m, T) = Places(l, T) \cup {n}
    BY <1>3, <1>5
  <2> QED
    BY <2>1, <1>5, <1>4, <1>1 DEF m
<1>6. CASE e \notin T
  <2>1. Places(m, T) = Places(l, T)
    BY <1>3, <1>6
  <2> QED
    BY <2>1, <1>6, <1>4, <1>1 DEF m
<1> QED
  BY <1>5, <1>6

LEMMA PlacesFinite ==
  ASSUME NEW S, NEW T, NEW l \in Seq(S)
  PROVE  Cardinality(Places(l, T)) \in Nat
<1>1. Len(l) \in Nat /\ DOMAIN l = 1..Len(l)
  BY LenProperties
<1>2. IsFiniteSet(1..Len(l))
  BY <1>1, FS_Interval
<1>3. Places(l, T) \subseteq 1..Len(l)
  BY <1>1 DEF Places
<1> QED
  BY <1>2, <1>3, FS_Subset, FS_CardinalityType

LEMMA PlacesEmpty == ASSUME NEW T PROVE Cardinality(Places(<<>>, T)) = 0
<1>1. Places(<<>>, T) = {}
  BY DEF Places
<1> QED
  BY <1>1, FS_EmptySet

-----------------------------------------------------------------------------
(***************************************************************************)
(* Sealed uploads keep their bytes, for any uploads, keys and contents and *)
(* whatever the bucket held before.                                        *)
(***************************************************************************)

\* An object with a digest is what a sealed upload made of its own bytes.
DigestsTell ==
  \A k \in ObjectKey :
    object[k] # NoObject /\ object[k].digest # NoObject => object[k].bytes = object[k].digest

\* A sealed upload that has sent its bytes declared them, to a sealed key.
SentIsDeclared(u) ==
  put[u] # "none" => upload[u] # NoObject /\ upload[u].digest \in {NoObject, upload[u].bytes}

\* What the key of a sealed upload holds once the store has answered.
AnswerIsKept(u) ==
  upload[u] # NoObject /\ Sealed(u) =>
    /\ at[u] \in {"putting", "heading", "signing"} => put[u] # "none"
    /\ at[u] = "heading" => put[u] = "conflict"
    /\ put[u] = "stored" => object[upload[u].key] = [bytes |-> upload[u].bytes,
                                                     digest |-> upload[u].digest]
    /\ put[u] = "conflict" => object[upload[u].key] # NoObject
    /\ at[u] = "signing" \/ uploadReply[u] = "url" =>
         /\ object[upload[u].key] # NoObject
         /\ object[upload[u].key].bytes = upload[u].bytes
    /\ uploadReply[u] = "occupied" =>
         /\ object[upload[u].key] # NoObject
         /\ object[upload[u].key] # [bytes |-> upload[u].bytes, digest |-> upload[u].bytes]

\* A call that has not begun has nothing on the way.
IdleIsBlank(u) ==
  at[u] = "idle" => put[u] = "none" /\ upload[u] = NoObject /\ uploadReply[u] = "none"

UploadInv ==
  /\ UploadTypeOK /\ DigestsTell
  /\ \A u \in Uploader : IdleIsBlank(u) /\ SentIsDeclared(u) /\ AnswerIsKept(u)

USE DEF Over, Goes

-----------------------------------------------------------------------------
(* Types *)

LEMMA UploadTypeStep == UploadInv /\ [UploadNext]_uploadVars => UploadTypeOK'
<1> SUFFICES ASSUME UploadInv, [UploadNext]_uploadVars PROVE UploadTypeOK'
  OBVIOUS
<1> USE DEF UploadTypeOK
<1>0. UploadTypeOK
  BY DEF UploadInv
<1>1. ASSUME NEW u \in Uploader, NEW r \in UploadRequest, BeginUpload(u, r)
      PROVE  UploadTypeOK'
  BY <1>0, <1>1 DEF BeginUpload
<1>2. ASSUME NEW u \in Uploader, StorePuts(u)
      PROVE  UploadTypeOK'
  <2>1. upload[u] \in UploadRequest
    BY <1>0, <1>2 DEF StorePuts, UploadInv, SentIsDeclared
  <2>2. upload[u].key \in ObjectKey /\ upload[u].bytes \in Bytes
        /\ upload[u].digest \in Bytes \union {NoObject}
    BY <2>1, UploadAssumption DEF UploadRequest
  <2> QED
    BY <1>0, <1>2, <2>2 DEF StorePuts, StoredObject
<1>3. ASSUME NEW u \in Uploader,
             PutAnswered(u) \/ StoreFails(u) \/ HeadAnswered(u) \/ UrlMade(u) \/ UploadAborted(u)
      PROVE  UploadTypeOK'
  BY <1>0, <1>3 DEF PutAnswered, StoreFails, HeadAnswered, UrlMade, UploadAborted
<1>4. CASE UNCHANGED uploadVars
  BY <1>0, <1>4 DEF uploadVars
<1> QED
  BY <1>1, <1>2, <1>3, <1>4 DEF UploadNext

-----------------------------------------------------------------------------
(* What the bucket holds *)

LEMMA UploadInvInit == UploadInit => UploadInv
<1> SUFFICES ASSUME UploadInit PROVE UploadInv
  OBVIOUS
<1>1. UploadTypeOK
  BY DEF UploadInit, UploadTypeOK, StoredObject
<1>2. DigestsTell
  BY DEF UploadInit, DigestsTell
<1> QED
  BY <1>1, <1>2 DEF UploadInit, UploadInv, IdleIsBlank, SentIsDeclared, AnswerIsKept

\* Nothing under a sealed key is ever replaced.
LEMMA SealedKeysAreWrittenOnce ==
  ASSUME UploadInv, [UploadNext]_uploadVars, NEW k \in SealedKey, object[k] # NoObject
  PROVE  object'[k] = object[k]
<1>1. ASSUME NEW u \in Uploader, StorePuts(u) PROVE object'[k] = object[k]
  <2>1. upload[u] \in UploadRequest
    BY <1>1 DEF StorePuts, UploadInv, SentIsDeclared, UploadTypeOK
  <2>2. CASE upload[u].key = k
    <3>1. Sealed(u)
      BY <2>1, <2>2, UploadAssumption DEF UploadRequest, Sealed
    <3> QED
      BY <1>1, <2>2, <3>1 DEF StorePuts, Overwrites
  <2>3. CASE upload[u].key # k
    BY <1>1, <2>3, UploadAssumption DEF StorePuts, UploadInv, UploadTypeOK
  <2> QED
    BY <2>2, <2>3
<1>2. CASE UNCHANGED object
  BY <1>2
<1> QED
  BY <1>1, <1>2 DEF UploadNext, uploadVars, BeginUpload, PutAnswered, StoreFails, HeadAnswered,
                    UrlMade, UploadAborted

LEMMA DigestsStep == UploadInv /\ [UploadNext]_uploadVars => DigestsTell'
<1> SUFFICES ASSUME UploadInv, [UploadNext]_uploadVars PROVE DigestsTell'
  OBVIOUS
<1>1. ASSUME NEW u \in Uploader, StorePuts(u) PROVE DigestsTell'
  <2>1. upload[u].digest \in {NoObject, upload[u].bytes}
    BY <1>1 DEF StorePuts, UploadInv, SentIsDeclared
  <2>2. CASE UNCHANGED object
    BY <2>2 DEF UploadInv, DigestsTell
  <2>3. CASE object' = [object EXCEPT ![upload[u].key] = [bytes |-> upload[u].bytes,
                                                         digest |-> upload[u].digest]]
    BY <2>1, <2>3 DEF UploadInv, DigestsTell, UploadTypeOK
  <2> QED
    BY <1>1, <2>2, <2>3 DEF StorePuts
<1>2. CASE UNCHANGED object
  BY <1>2 DEF UploadInv, DigestsTell
<1> QED
  BY <1>1, <1>2 DEF UploadNext, uploadVars, BeginUpload, PutAnswered, StoreFails, HeadAnswered,
                    UrlMade, UploadAborted

\* What a sealed upload finds under its key stays there.
LEMMA SealedObjectStays ==
  ASSUME UploadInv, [UploadNext]_uploadVars, NEW u \in Uploader,
         upload[u] # NoObject, Sealed(u), object[upload[u].key] # NoObject
  PROVE  object'[upload[u].key] = object[upload[u].key]
<1>1. upload[u] \in UploadRequest
  BY DEF UploadInv, UploadTypeOK
<1>2. upload[u].key \in SealedKey
  BY <1>1 DEF UploadRequest, Sealed
<1> QED
  BY <1>2, SealedKeysAreWrittenOnce

\* A stored upload has an object.
LEMMA StoredIsThere ==
  ASSUME UploadInv, NEW u \in Uploader, upload[u] # NoObject, Sealed(u), put[u] = "stored"
  PROVE  object[upload[u].key] # NoObject
<1>1. upload[u] \in UploadRequest
  BY DEF UploadInv, UploadTypeOK
<1>2. [bytes |-> upload[u].bytes, digest |-> upload[u].digest] \in StoredObject
  BY <1>1 DEF UploadRequest, StoredObject
<1> QED
  BY <1>2, NoObjectAssumption DEF UploadInv, AnswerIsKept

\* What a call relies on, in one name.
CallInv(u) == IdleIsBlank(u) /\ SentIsDeclared(u) /\ AnswerIsKept(u)

\* A call that takes no step keeps what it knows of its object.
LEMMA OtherCalls ==
  ASSUME UploadInv, [UploadNext]_uploadVars, NEW u \in Uploader,
         UNCHANGED <<upload[u], at[u], put[u], uploadReply[u]>>
  PROVE  CallInv(u)'
<1>1. IdleIsBlank(u)' /\ SentIsDeclared(u)'
  BY DEF UploadInv, IdleIsBlank, SentIsDeclared
<1>2. AnswerIsKept(u)'
  BY SealedObjectStays, StoredIsThere DEF UploadInv, AnswerIsKept, Sealed
<1> QED
  BY <1>1, <1>2 DEF CallInv

-----------------------------------------------------------------------------
(* The call that takes the step *)

LEMMA UploadBeginStep ==
  ASSUME UploadInv, NEW u \in Uploader, NEW r \in UploadRequest, BeginUpload(u, r)
  PROVE  CallInv(u)'
<1>1. UploadTypeOK /\ IdleIsBlank(u)
  BY DEF UploadInv
<1>2. put[u] = "none" /\ uploadReply[u] = "none" /\ upload'[u] = r /\ r # NoObject
  BY <1>1, NoObjectAssumption DEF BeginUpload, IdleIsBlank, UploadTypeOK
<1>3. CASE Declared(r)
  <2>1. put'[u] = "sent" /\ at'[u] = "putting" /\ uploadReply'[u] = "none"
    BY <1>1, <1>2, <1>3 DEF BeginUpload, UploadTypeOK
  <2> QED
    BY <1>2, <1>3, <2>1 DEF CallInv, IdleIsBlank, SentIsDeclared, AnswerIsKept, Sealed, Declared
<1>4. CASE ~Declared(r)
  <2>1. put'[u] = "none" /\ at'[u] = "over" /\ uploadReply'[u] = "refused"
    BY <1>1, <1>2, <1>4 DEF BeginUpload, UploadTypeOK
  <2> QED
    BY <1>2, <2>1 DEF CallInv, IdleIsBlank, SentIsDeclared, AnswerIsKept
<1> QED
  BY <1>3, <1>4

LEMMA StoreStep ==
  ASSUME UploadInv, NEW u \in Uploader, StorePuts(u)
  PROVE  CallInv(u)'
<1>1. UploadTypeOK /\ CallInv(u)
  BY DEF UploadInv, CallInv
<1>2. upload[u] # NoObject /\ upload[u] \in UploadRequest /\ at[u] # "idle"
  BY <1>1 DEF StorePuts, CallInv, SentIsDeclared, IdleIsBlank, UploadTypeOK
<1>3. upload[u].key \in ObjectKey
  BY <1>2, UploadAssumption DEF UploadRequest
<1>4. put'[u] \in {"stored", "conflict"}
      /\ UNCHANGED <<upload[u], at[u], uploadReply[u]>>
  BY <1>1 DEF StorePuts, UploadTypeOK
<1>5. IdleIsBlank(u)' /\ SentIsDeclared(u)'
  BY <1>1, <1>2, <1>4 DEF StorePuts, CallInv, IdleIsBlank, SentIsDeclared
<1>6. AnswerIsKept(u)'
  <2> SUFFICES ASSUME Sealed(u) PROVE AnswerIsKept(u)'
    BY <1>4 DEF AnswerIsKept, Sealed
  <2>1. at[u] # "heading"
    BY <1>1, <1>2 DEF StorePuts, CallInv, AnswerIsKept
  <2>2. [UploadNext]_uploadVars
    BY DEF UploadNext
  <2>3. CASE object[upload[u].key] = NoObject
    <3>1. put'[u] = "stored"
          /\ object'[upload[u].key] = [bytes |-> upload[u].bytes, digest |-> upload[u].digest]
      BY <1>1, <1>3, <2>3 DEF StorePuts, UploadTypeOK
    <3>2. ~(at[u] = "signing" \/ uploadReply[u] = "url") /\ uploadReply[u] # "occupied"
      BY <1>1, <1>2, <2>3 DEF CallInv, AnswerIsKept
    <3> QED
      BY <1>4, <2>1, <3>1, <3>2 DEF AnswerIsKept, Sealed
  <2>4. CASE object[upload[u].key] # NoObject
    <3>1. put'[u] = "conflict" /\ object'[upload[u].key] = object[upload[u].key]
      BY <1>1, <1>2, <2>4 DEF StorePuts, Overwrites, UploadTypeOK
    <3> QED
      BY <1>1, <1>2, <1>4, <2>1, <2>4, <3>1 DEF CallInv, AnswerIsKept, Sealed
  <2> QED
    BY <2>3, <2>4
<1> QED
  BY <1>5, <1>6 DEF CallInv

LEMMA AnswerStep ==
  ASSUME UploadInv, NEW u \in Uploader, PutAnswered(u)
  PROVE  CallInv(u)'
<1>1. UploadTypeOK /\ CallInv(u)
  BY DEF UploadInv, CallInv
<1>2. UNCHANGED <<upload, put, object>> /\ at'[u] \in {"heading", "signing", "over"}
      /\ uploadReply'[u] \in {uploadReply[u], "aborted"}
      /\ (at'[u] = "heading" => put[u] = "conflict") /\ (at'[u] = "signing" => put[u] = "stored")
  BY <1>1 DEF PutAnswered, UploadTypeOK
<1>3. IdleIsBlank(u)' /\ SentIsDeclared(u)'
  BY <1>1, <1>2 DEF CallInv, IdleIsBlank, SentIsDeclared
<1>4. AnswerIsKept(u)'
  BY <1>1, <1>2, StoredIsThere DEF PutAnswered, CallInv, AnswerIsKept, Sealed
<1> QED
  BY <1>3, <1>4 DEF CallInv

LEMMA HeadStep ==
  ASSUME UploadInv, NEW u \in Uploader, HeadAnswered(u)
  PROVE  CallInv(u)'
<1>1. UploadTypeOK /\ CallInv(u) /\ DigestsTell
  BY DEF UploadInv, CallInv
<1>2. UNCHANGED <<upload, put, object>> /\ at'[u] \in {"signing", "over"}
      /\ uploadReply'[u] \in {uploadReply[u], "aborted", "occupied"}
      /\ (at'[u] = "signing" => SameObject(u))
      /\ (uploadReply'[u] = "occupied" /\ uploadReply[u] # "occupied" => ~SameObject(u))
  BY <1>1 DEF HeadAnswered, UploadTypeOK
<1>3. IdleIsBlank(u)' /\ SentIsDeclared(u)'
  BY <1>1, <1>2 DEF CallInv, IdleIsBlank, SentIsDeclared
<1>4. AnswerIsKept(u)'
  <2> SUFFICES ASSUME upload[u] # NoObject, Sealed(u) PROVE AnswerIsKept(u)'
    BY <1>2 DEF AnswerIsKept, Sealed
  <2>1. put[u] = "conflict" /\ object[upload[u].key] # NoObject
    BY <1>1 DEF HeadAnswered, CallInv, AnswerIsKept
  <2>2. upload[u].digest = upload[u].bytes
    BY <1>1, <2>1 DEF CallInv, SentIsDeclared, Sealed
  <2>3. upload[u].key \in ObjectKey
    BY <1>1, UploadAssumption DEF UploadTypeOK, UploadRequest
  <2>4. SameObject(u) => object[upload[u].key].bytes = upload[u].bytes
    BY <1>1, <2>1, <2>2, <2>3 DEF SameObject, DigestsTell, Sealed
  <2>5. ~SameObject(u) =>
          object[upload[u].key] # [bytes |-> upload[u].bytes, digest |-> upload[u].bytes]
    BY <2>2 DEF SameObject
  <2> QED
    BY <1>1, <1>2, <2>1, <2>4, <2>5 DEF CallInv, AnswerIsKept, Sealed
<1> QED
  BY <1>3, <1>4 DEF CallInv

LEMMA LastSteps ==
  ASSUME UploadInv, NEW u \in Uploader, StoreFails(u) \/ UrlMade(u) \/ UploadAborted(u)
  PROVE  CallInv(u)'
<1>1. UploadTypeOK /\ CallInv(u)
  BY DEF UploadInv, CallInv
<1>2. UNCHANGED <<upload, put, object>> /\ at'[u] \in {at[u], "over"}
      /\ uploadReply'[u] \in {uploadReply[u], "aborted", "failed", "url"}
      /\ (uploadReply'[u] = "url" => at[u] = "signing" \/ uploadReply[u] = "url")
  BY <1>1 DEF StoreFails, UrlMade, UploadAborted, UploadTypeOK
<1>3. at[u] # "idle"
  BY DEF StoreFails, UrlMade, UploadAborted
<1>4. IdleIsBlank(u)' /\ SentIsDeclared(u)'
  BY <1>1, <1>2, <1>3 DEF CallInv, IdleIsBlank, SentIsDeclared
<1>5. AnswerIsKept(u)'
  BY <1>1, <1>2 DEF CallInv, AnswerIsKept, Sealed
<1> QED
  BY <1>4, <1>5 DEF CallInv

-----------------------------------------------------------------------------
(* The invariant and the theorem *)

LEMMA UploadInvStep == UploadInv /\ [UploadNext]_uploadVars => UploadInv'
<1> SUFFICES ASSUME UploadInv, [UploadNext]_uploadVars PROVE UploadInv'
  OBVIOUS
<1>1. ASSUME NEW u \in Uploader,
             \/ \E r \in UploadRequest : BeginUpload(u, r)
             \/ StorePuts(u) \/ PutAnswered(u) \/ StoreFails(u) \/ HeadAnswered(u)
             \/ UrlMade(u) \/ UploadAborted(u),
             NEW v \in Uploader
      PROVE  CallInv(v)'
  <2>1. CASE v = u
    BY <1>1, <2>1, UploadBeginStep, StoreStep, AnswerStep, HeadStep, LastSteps
  <2>2. CASE v # u
    <3>1. UNCHANGED <<upload[v], at[v], put[v], uploadReply[v]>>
      BY <1>1, <2>2 DEF BeginUpload, StorePuts, PutAnswered, StoreFails, HeadAnswered, UrlMade,
                        UploadAborted, UploadInv, UploadTypeOK
    <3> QED
      BY <3>1, OtherCalls
  <2> QED
    BY <2>1, <2>2
<1>2. ASSUME UNCHANGED uploadVars, NEW v \in Uploader PROVE CallInv(v)'
  BY <1>2, OtherCalls DEF uploadVars
<1>3. \A v \in Uploader : CallInv(v)'
  BY <1>1, <1>2 DEF UploadNext
<1> QED
  BY <1>3, UploadTypeStep, DigestsStep DEF UploadInv, CallInv

\* Whatever was in the bucket and however calls race, fail and are aborted,
\* the URL that upload returns for a sealed object leads to the bytes it was
\* given, and the object of an earlier equal upload is never taken for
\* another's (aliyun-oss-storage.ts, upload).
THEOREM SealedUploadsKeepTheirBytes == UploadSpec => []SealedUrlsKeepTheirBytes
<1>1. UploadInv => SealedUrlsKeepTheirBytes
  BY DEF UploadInv, AnswerIsKept, SealedUrlsKeepTheirBytes
<1> QED
  BY <1>1, UploadInvInit, UploadInvStep, PTL DEF UploadSpec
-----------------------------------------------------------------------------
(***************************************************************************)
(* A composed task, whatever its Members, its budgets and its planner.     *)
(***************************************************************************)

\* A step under way is a call of a tool.
StepIsReal ==
  /\ step # NoStep => step.tool \in Tool /\ step.attempt >= 1 /\ step.phase # "none"
  /\ step.phase = "backoff" => step.attempt < MaxStepAttempts

\* An attempt whose signal fired has its result; one that has a result and was
\* not aborted has no planner and no step left.
EndIsReal ==
  /\ aborted => result \in {"PROCESS_TIMEOUT", "INTERNAL_ERROR"}
  /\ planner = "closed" => result # Nil
  /\ result # Nil /\ ~aborted => planner = "closed" /\ step = NoStep

\* A request of this attempt belongs to a step that ended, or to the one under
\* way, which has sent one only.
Awaits(i) ==
  /\ requests[i].key.number = Len(ledger) + 1
  /\ step.phase \in {"requested", "served"} /\ step.tool \in Priced

RequestsTold ==
  \A i \in DOMAIN requests :
    /\ requests[i].life <= life
    /\ requests[i].life = life => requests[i].key.number <= Len(ledger) \/ Awaits(i)

TaskInv ==
  /\ ComposedTypeOK /\ BudgetsKept /\ ResultMatchesLedger /\ PricedKeysUnique
  /\ StepIsReal /\ EndIsReal /\ RequestsTold

StepRecord == [tool : Tool \cup {Nil}, attempt : 0..MaxStepAttempts,
               phase : {"none", "running", "requested", "served", "backoff"}]

PaidEntry == {e \in Entry : e.tool \in Priced /\ e.code = "succeeded"}

LEMMA PricedIsPaid ==
  ASSUME ledger \in Seq(Entry)
  PROVE  PricedSucceeded = Cardinality(Places(ledger, PaidEntry))
<1>1. \A i \in DOMAIN ledger : ledger[i] \in Entry
  BY LenProperties, ElementOfSeq
<1>2. Places(ledger, PaidEntry)
        = {i \in DOMAIN ledger : ledger[i].tool \in Priced /\ ledger[i].code = "succeeded"}
  BY <1>1 DEF Places, PaidEntry
<1> QED
  BY <1>2 DEF PricedSucceeded

\* The same of the next state.
LEMMA PricedAfter ==
  ASSUME ledger' \in Seq(Entry)
  PROVE  PricedSucceeded' = Cardinality(Places(ledger', PaidEntry))
<1>1. \A i \in DOMAIN ledger' : ledger'[i] \in Entry
  BY LenProperties, ElementOfSeq
<1>2. Places(ledger', PaidEntry)
        = {i \in DOMAIN ledger' : ledger'[i].tool \in Priced /\ ledger'[i].code = "succeeded"}
  BY <1>1 DEF Places, PaidEntry
<1> QED
  BY <1>2 DEF PricedSucceeded

-----------------------------------------------------------------------------
(* Steps of the session.                                                    *)

LEMMA TaskInit == ComposedInit => TaskInv
<1> SUFFICES ASSUME ComposedInit PROVE TaskInv
  OBVIOUS
<1> USE ComposedAssumption DEF ComposedInit
<1>1. ledger = <<>> /\ requests = <<>> /\ Len(ledger) = 0
      /\ DOMAIN ledger = {} /\ DOMAIN requests = {}
      /\ ledger \in Seq(Entry) /\ requests \in Seq([life : 1..MaxLives, key : Key])
  BY EmptySeq
<1>2. PricedSucceeded = 0
  BY <1>1, PlacesEmpty, PricedIsPaid
<1>3. result = Nil /\ Nil \notin RunCode /\ Nil \notin Tool
  OBVIOUS
<1>4. ComposedTypeOK
  <2>1. life \in 1..MaxLives /\ toolCalls \in 0..(MaxSteps + ToolCallSlack)
    OBVIOUS
  <2>2. step \in StepRecord
    BY DEF StepRecord, NoStep
  <2> QED
    BY <1>1, <2>1, <2>2 DEF ComposedTypeOK, StepRecord
<1>5. BudgetsKept
  BY <1>1, <1>2, <1>3 DEF BudgetsKept, NoStep
<1>6. ResultMatchesLedger /\ PricedKeysUnique
  BY <1>1, <1>3 DEF ResultMatchesLedger, PricedKeysUnique, RunCode
<1>7. StepIsReal /\ EndIsReal /\ RequestsTold
  BY <1>1 DEF StepIsReal, EndIsReal, RequestsTold, NoStep
<1> QED
  BY <1>4, <1>5, <1>6, <1>7 DEF TaskInv

\* What a step under way says of the state: there is room for it.
LEMMA StepFacts ==
  ASSUME TaskInv, step.phase # "none"
  PROVE  /\ step # NoStep /\ step.tool \in Tool /\ step.attempt >= 1
         /\ Len(ledger) \in Nat /\ Len(ledger) + 1 <= MaxSteps /\ StepKey \in Key
         /\ PricedSucceeded \in Nat /\ (step.tool \in Priced => PricedSucceeded < MaxPricedSteps)
         /\ (result # Nil => aborted)
<1>1. step # NoStep
  BY DEF NoStep
<1>2. Len(ledger) \in Nat /\ ledger \in Seq(Entry)
  BY LenProperties DEF TaskInv, ComposedTypeOK
<1>3. PricedSucceeded \in Nat
  BY <1>2, PricedIsPaid, PlacesFinite
<1>4. Len(ledger) + 1 <= MaxSteps
  BY <1>1, <1>2 DEF TaskInv, BudgetsKept
<1>5. StepKey \in Key
  BY <1>2, <1>4, ComposedAssumption DEF StepKey, Key
<1> QED
  BY <1>1, <1>2, <1>3, <1>4, <1>5 DEF TaskInv, BudgetsKept, StepIsReal, EndIsReal

\* The ledger grows by one entry.
LEMMA LedgerGrows ==
  ASSUME TaskInv, NEW t \in Tool, NEW code \in StepCode \cup {"succeeded"},
         Len(ledger) + 1 <= MaxSteps,
         ledger' = Append(ledger, [tool |-> t, code |-> code, key |-> StepKey])
  PROVE  /\ ledger' \in Seq(Entry) /\ Len(ledger) \in Nat /\ Len(ledger') = Len(ledger) + 1
         /\ PricedSucceeded \in Nat
         /\ PricedSucceeded' = PricedSucceeded
                                + (IF t \in Priced /\ code = "succeeded" THEN 1 ELSE 0)
<1> DEFINE e == [tool |-> t, code |-> code, key |-> StepKey]
<1>1. Len(ledger) \in Nat /\ ledger \in Seq(Entry)
  BY LenProperties DEF TaskInv, ComposedTypeOK
<1>2. StepKey \in Key
  BY <1>1, ComposedAssumption DEF StepKey, Key
<1>3. e \in Entry /\ (e \in PaidEntry <=> t \in Priced /\ code = "succeeded")
  BY <1>2 DEF Entry, PaidEntry
<1>4. ledger' = Append(ledger, e)
  OBVIOUS
<1> HIDE DEF e
<1>5. PricedSucceeded = Cardinality(Places(ledger, PaidEntry))
  BY <1>1, PricedIsPaid
<1>6. /\ ledger' \in Seq(Entry) /\ Len(ledger') = Len(ledger) + 1
      /\ Cardinality(Places(ledger, PaidEntry)) \in Nat
      /\ Cardinality(Places(ledger', PaidEntry))
           = Cardinality(Places(ledger, PaidEntry)) + (IF e \in PaidEntry THEN 1 ELSE 0)
  BY <1>1, <1>3, <1>4, PlaceCount
<1>7. PricedSucceeded' = Cardinality(Places(ledger', PaidEntry))
  BY <1>6, PricedAfter
<1> QED
  BY <1>1, <1>3, <1>5, <1>6, <1>7

\* The step under way ends in the ledger.
LEMMA RecordKeeps ==
  ASSUME TaskInv, step.phase # "none", NEW code \in StepCode \cup {"succeeded"}, Record(code),
         UNCHANGED <<life, toolCalls, aborted, planner, result, requests>>
  PROVE  TaskInv'
<1> USE ComposedAssumption
<1>1. /\ step # NoStep /\ step.tool \in Tool
      /\ Len(ledger) + 1 <= MaxSteps
      /\ (step.tool \in Priced => PricedSucceeded < MaxPricedSteps)
      /\ (result # Nil => aborted)
  BY StepFacts
<1>2. step' = NoStep
      /\ ledger' = Append(ledger, [tool |-> step.tool, code |-> code, key |-> StepKey])
  BY DEF Record
<1>3. /\ ledger' \in Seq(Entry) /\ Len(ledger) \in Nat /\ Len(ledger') = Len(ledger) + 1
      /\ PricedSucceeded \in Nat
      /\ PricedSucceeded' = PricedSucceeded
                             + (IF step.tool \in Priced /\ code = "succeeded" THEN 1 ELSE 0)
  BY <1>1, <1>2, LedgerGrows
<1>4. ComposedTypeOK'
  BY <1>2, <1>3 DEF TaskInv, ComposedTypeOK, NoStep
<1>5. BudgetsKept'
  <2>1. PricedSucceeded' <= MaxPricedSteps
    BY <1>1, <1>3 DEF TaskInv, BudgetsKept
  <2> QED
    BY <2>1, <1>1, <1>2, <1>3 DEF BudgetsKept, NoStep
<1>6. ResultMatchesLedger'
  <2>1. result' \in {Nil, "PROCESS_TIMEOUT", "INTERNAL_ERROR"}
    BY <1>1 DEF TaskInv, EndIsReal
  <2> QED
    BY <2>1 DEF ResultMatchesLedger, RunCode
<1>7. PricedKeysUnique'
  BY DEF TaskInv, PricedKeysUnique
<1>8. StepIsReal' /\ EndIsReal'
  BY <1>1, <1>2 DEF TaskInv, StepIsReal, EndIsReal, NoStep
<1>9. RequestsTold'
  <2> SUFFICES ASSUME NEW i \in DOMAIN requests
               PROVE  /\ requests[i].life <= life
                      /\ requests[i].life = life => requests[i].key.number <= Len(ledger')
    BY DEF RequestsTold
  <2>1. requests \in Seq([life : 1..MaxLives, key : Key])
    BY DEF TaskInv, ComposedTypeOK
  <2>2. i \in 1..Len(requests)
    BY <2>1, LenProperties
  <2>3. requests[i] \in [life : 1..MaxLives, key : Key]
    BY <2>1, <2>2, ElementOfSeq
  <2> QED
    BY <2>3, <1>3 DEF TaskInv, RequestsTold, Awaits, Key
<1> QED
  BY <1>4, <1>5, <1>6, <1>7, <1>8, <1>9 DEF TaskInv

\* The step changes its phase, without a request.
LEMMA StepMoves ==
  ASSUME TaskInv, step.phase # "none", step' \in StepRecord,
         step'.tool = step.tool, step'.attempt >= 1, step'.phase # "none",
         step'.phase = "backoff" => step'.attempt < MaxStepAttempts,
         step'.phase \in {"requested", "served"} \/ step.phase \notin {"requested", "served"}
           \/ step.tool \notin Priced,
         UNCHANGED <<life, toolCalls, ledger, aborted, planner, result, requests>>
  PROVE  TaskInv'
<1>1. /\ step # NoStep /\ step.tool \in Tool
      /\ Len(ledger) \in Nat /\ Len(ledger) + 1 <= MaxSteps
      /\ (result # Nil => aborted)
  BY StepFacts
<1>2. step' # NoStep
  BY DEF NoStep
<1>3. PricedSucceeded' = PricedSucceeded
  BY DEF PricedSucceeded
<1>4. ComposedTypeOK'
  BY DEF TaskInv, ComposedTypeOK, StepRecord
<1>5. BudgetsKept'
  BY <1>1, <1>2, <1>3 DEF TaskInv, BudgetsKept
<1>6. ResultMatchesLedger'
  <2>1. result' \in {Nil, "PROCESS_TIMEOUT", "INTERNAL_ERROR"}
    BY <1>1 DEF TaskInv, EndIsReal
  <2> QED
    BY <2>1, ComposedAssumption DEF ResultMatchesLedger, RunCode
<1>7. PricedKeysUnique' /\ StepIsReal' /\ EndIsReal'
  BY <1>1 DEF TaskInv, PricedKeysUnique, StepIsReal, EndIsReal
<1>8. RequestsTold'
  BY <1>1 DEF TaskInv, RequestsTold, Awaits
<1> QED
  BY <1>4, <1>5, <1>6, <1>7, <1>8 DEF TaskInv

\* An attempt of a step ends: in the ledger, or to be tried again.
LEMMA AttemptEnds ==
  ASSUME TaskInv, step.phase # "none", NEW code \in StepCode, EndAttempt(code)
  PROVE  TaskInv'
<1>1. UNCHANGED <<life, toolCalls, aborted, planner, result, requests>>
  BY DEF EndAttempt
<1>2. CASE Retryable(code)
  <2>1. step' = [step EXCEPT !.phase = "backoff"] /\ ledger' = ledger
    BY <1>2 DEF EndAttempt
  <2>2. step \in StepRecord /\ step.tool \notin Priced /\ step.attempt >= 1
    BY <1>2, StepFacts, ComposedAssumption DEF Retryable, TaskInv, ComposedTypeOK, StepRecord
  <2>3. step' \in StepRecord /\ step'.tool = step.tool /\ step'.attempt = step.attempt
        /\ step'.phase = "backoff" /\ step'.attempt < MaxStepAttempts
    BY <1>2, <2>1, <2>2 DEF StepRecord, Retryable
  <2> QED
    BY <1>1, <2>1, <2>2, <2>3, StepMoves
<1>3. CASE ~Retryable(code)
  <2>1. Record(code)
    BY <1>3 DEF EndAttempt
  <2> QED
    BY <1>1, <2>1, RecordKeeps
<1> QED
  BY <1>2, <1>3

\* A call of the planner: one more is counted.
LEMMA CallCounted ==
  ASSUME TaskInv, CountCall
  PROVE  /\ planner = "open" /\ step = NoStep /\ (result # Nil => aborted)
         /\ toolCalls' \in 0..(MaxSteps + ToolCallSlack)
         /\ Len(ledger) \in Nat /\ PricedSucceeded \in Nat
<1>1. PricedSucceeded \in Nat /\ Len(ledger) \in Nat
  BY PricedIsPaid, PlacesFinite, LenProperties DEF TaskInv, ComposedTypeOK
<1> QED
  BY <1>1, ComposedAssumption DEF TaskInv, ComposedTypeOK, EndIsReal, CountCall, PlannerIsFree

LEMMA CallRefusedStep ==
  ASSUME TaskInv, NEW t \in Tool, CallRefused(t)
  PROVE  TaskInv'
<1>1. toolCalls' \in 0..(MaxSteps + ToolCallSlack)
      /\ UNCHANGED <<life, step, ledger, aborted, planner, result, requests>>
  BY CallCounted DEF CallRefused
<1>2. ComposedTypeOK'
  BY <1>1 DEF TaskInv, ComposedTypeOK
<1>3. BudgetsKept' /\ ResultMatchesLedger' /\ PricedKeysUnique'
  BY <1>1 DEF TaskInv, BudgetsKept, ResultMatchesLedger, PricedKeysUnique, PricedSucceeded,
              PricedCommitted, Succeeded
<1>4. StepIsReal' /\ EndIsReal' /\ RequestsTold'
  BY <1>1 DEF TaskInv, StepIsReal, EndIsReal, RequestsTold, Awaits
<1> QED
  BY <1>2, <1>3, <1>4 DEF TaskInv

LEMMA CallInvalidStep ==
  ASSUME TaskInv, NEW t \in Tool, CallInvalid(t)
  PROVE  TaskInv'
<1> USE ComposedAssumption
<1>1. PICK code \in {"INVALID_INPUT", "INTERNAL_ERROR"} :
        /\ ledger' = Append(ledger, [tool |-> t, code |-> code, key |-> StepKey])
        /\ UNCHANGED <<life, step, aborted, planner, result, requests>>
        /\ ~Refused(t) /\ CountCall
  BY DEF CallInvalid
<1>2. /\ planner = "open" /\ step = NoStep /\ (result # Nil => aborted)
      /\ toolCalls' \in 0..(MaxSteps + ToolCallSlack) /\ Len(ledger) \in Nat
  BY <1>1, CallCounted
<1>3. Len(ledger) + 1 <= MaxSteps
  BY <1>1, <1>2 DEF Refused, StepBudgetExhausted
<1>4. /\ ledger' \in Seq(Entry) /\ Len(ledger') = Len(ledger) + 1
      /\ PricedSucceeded \in Nat /\ PricedSucceeded' = PricedSucceeded
  <2>1. code \in StepCode \cup {"succeeded"} /\ code # "succeeded"
    BY DEF StepCode
  <2> QED
    BY <1>1, <2>1, <1>3, LedgerGrows
<1>5. ComposedTypeOK'
  BY <1>1, <1>2, <1>4 DEF TaskInv, ComposedTypeOK
<1>6. BudgetsKept'
  BY <1>1, <1>2, <1>3, <1>4 DEF TaskInv, BudgetsKept, NoStep
<1>7. ResultMatchesLedger'
  <2>1. result' \in {Nil, "PROCESS_TIMEOUT", "INTERNAL_ERROR"}
    BY <1>1, <1>2 DEF TaskInv, EndIsReal
  <2> QED
    BY <2>1 DEF ResultMatchesLedger, RunCode
<1>8. PricedKeysUnique' /\ StepIsReal' /\ EndIsReal'
  BY <1>1 DEF TaskInv, PricedKeysUnique, StepIsReal, EndIsReal
<1>9. RequestsTold'
  <2> SUFFICES ASSUME NEW i \in DOMAIN requests
               PROVE  /\ requests[i].life <= life
                      /\ requests[i].life = life => requests[i].key.number <= Len(ledger')
    BY <1>1 DEF RequestsTold
  <2>1. requests \in Seq([life : 1..MaxLives, key : Key])
    BY DEF TaskInv, ComposedTypeOK
  <2>2. i \in 1..Len(requests)
    BY <2>1, LenProperties
  <2>3. requests[i] \in [life : 1..MaxLives, key : Key]
    BY <2>1, <2>2, ElementOfSeq
  <2> QED
    BY <2>3, <1>2, <1>4 DEF TaskInv, RequestsTold, Awaits, Key, NoStep
<1> QED
  BY <1>5, <1>6, <1>7, <1>8, <1>9 DEF TaskInv

LEMMA CallToolStep ==
  ASSUME TaskInv, NEW t \in Tool, CallTool(t)
  PROVE  TaskInv'
<1> USE ComposedAssumption
<1>1. /\ step' = [tool |-> t, attempt |-> 1, phase |-> "running"]
      /\ UNCHANGED <<life, ledger, aborted, planner, result, requests>>
      /\ ~Refused(t) /\ CountCall
  BY DEF CallTool
<1>2. /\ planner = "open" /\ step = NoStep /\ (result # Nil => aborted)
      /\ toolCalls' \in 0..(MaxSteps + ToolCallSlack) /\ Len(ledger) \in Nat
      /\ PricedSucceeded \in Nat
  BY <1>1, CallCounted
<1>3. Len(ledger) + 1 <= MaxSteps /\ (t \in Priced => PricedSucceeded < MaxPricedSteps)
  BY <1>1, <1>2 DEF Refused, StepBudgetExhausted, PricedBudgetExhausted
<1>4. PricedSucceeded' = PricedSucceeded
  BY <1>1 DEF PricedSucceeded
<1>5. step' \in StepRecord /\ step'.tool = t /\ step'.attempt = 1 /\ step'.phase = "running"
  BY <1>1 DEF StepRecord
<1>6. ComposedTypeOK'
  BY <1>1, <1>2, <1>5 DEF TaskInv, ComposedTypeOK, StepRecord
<1>7. BudgetsKept'
  BY <1>1, <1>2, <1>3, <1>4, <1>5 DEF TaskInv, BudgetsKept
<1>8. ResultMatchesLedger'
  <2>1. result' \in {Nil, "PROCESS_TIMEOUT", "INTERNAL_ERROR"}
    BY <1>1, <1>2 DEF TaskInv, EndIsReal
  <2> QED
    BY <2>1 DEF ResultMatchesLedger, RunCode
<1>9. PricedKeysUnique' /\ StepIsReal' /\ EndIsReal'
  BY <1>1, <1>2, <1>5 DEF TaskInv, PricedKeysUnique, StepIsReal, EndIsReal
<1>10. RequestsTold'
  BY <1>1, <1>2 DEF TaskInv, RequestsTold, Awaits, NoStep
<1> QED
  BY <1>6, <1>7, <1>8, <1>9, <1>10 DEF TaskInv

-----------------------------------------------------------------------------
(* A request leaves.                                                        *)

LEMMA SendStep ==
  ASSUME TaskInv, SendRequest
  PROVE  TaskInv'
<1> USE ComposedAssumption
<1>1. /\ step.phase = "running" /\ ~aborted /\ step' = [step EXCEPT !.phase = "requested"]
      /\ UNCHANGED <<life, toolCalls, ledger, aborted, planner, result>>
      /\ requests' = IF step.tool \in Priced
                     THEN Append(requests, [life |-> life, key |-> StepKey]) ELSE requests
  BY DEF SendRequest
<1>2. /\ step # NoStep /\ step.tool \in Tool /\ step.attempt >= 1
      /\ Len(ledger) \in Nat /\ StepKey \in Key
  BY <1>1, StepFacts
<1>3. step \in StepRecord /\ requests \in Seq([life : 1..MaxLives, key : Key]) /\ life \in 1..MaxLives
  BY DEF TaskInv, ComposedTypeOK, StepRecord
<1>4. step' \in StepRecord /\ step'.tool = step.tool /\ step'.attempt = step.attempt
      /\ step'.phase = "requested"
  BY <1>1, <1>3 DEF StepRecord
<1>5. CASE step.tool \notin Priced
  BY <1>1, <1>2, <1>4, <1>5, StepMoves
<1>6. CASE step.tool \in Priced
  <2> DEFINE r == [life |-> life, key |-> StepKey]  n == Len(requests) + 1
  <2>1. r \in [life : 1..MaxLives, key : Key] /\ r.life = life /\ r.key.number = Len(ledger) + 1
    BY <1>2, <1>3 DEF StepKey
  <2>2. requests' = Append(requests, r)
    BY <1>1, <1>6
  <2> HIDE DEF r
  <2>3. /\ requests' \in Seq([life : 1..MaxLives, key : Key])
        /\ requests'[n] = r /\ DOMAIN requests' = 1..n /\ DOMAIN requests = 1..Len(requests)
        /\ \A i \in 1..Len(requests) : requests'[i] = requests[i]
        /\ Len(requests) \in Nat
    BY <2>1, <2>2, <1>3, AppendProperties, LenProperties
  <2>4. ASSUME NEW i \in 1..Len(requests)
        PROVE  /\ requests[i].life \in 1..MaxLives /\ requests[i].key.number \in 1..MaxSteps
               /\ requests[i].life <= life
               /\ requests[i].life = life => requests[i].key.number <= Len(ledger)
    <3>1. requests[i] \in [life : 1..MaxLives, key : Key]
      BY <1>3, ElementOfSeq
    <3>2. ~Awaits(i)
      BY <1>1 DEF Awaits
    <3> QED
      BY <3>1, <3>2, <2>3 DEF TaskInv, RequestsTold, Key
  <2>5. ComposedTypeOK'
    BY <1>1, <1>4, <2>3 DEF TaskInv, ComposedTypeOK, StepRecord
  <2>6. BudgetsKept'
    BY <1>1, <1>2, <1>4 DEF TaskInv, BudgetsKept, PricedSucceeded, NoStep
  <2>7. ResultMatchesLedger'
    <3>1. result' \in {Nil, "PROCESS_TIMEOUT", "INTERNAL_ERROR"}
      BY <1>1, <1>2 DEF TaskInv, EndIsReal
    <3> QED
      BY <3>1 DEF ResultMatchesLedger, RunCode
  <2>8. PricedKeysUnique'
    <3> SUFFICES ASSUME NEW i \in 1..n, NEW j \in 1..n, i < j,
                        requests'[i].life = requests'[j].life
                 PROVE  requests'[i].key.number < requests'[j].key.number
      BY <2>3 DEF PricedKeysUnique
    <3>1. i \in 1..Len(requests)
      BY <2>3
    <3>2. CASE j = n
      <4>1. requests'[j] = r /\ requests'[i] = requests[i]
        BY <3>1, <3>2, <2>3
      <4>2. requests[i].key.number \in 1..MaxSteps /\ requests[i].key.number <= Len(ledger)
        BY <3>1, <4>1, <2>1, <2>4
      <4> QED
        BY <4>1, <4>2, <2>1, <1>2
    <3>3. CASE j # n
      <4>1. j \in 1..Len(requests)
        <5>1. Len(requests) \in Nat
          BY <2>3
        <5> QED
          BY <3>3, <5>1
      <4>2. requests'[i] = requests[i] /\ requests'[j] = requests[j]
        BY <3>1, <4>1, <2>3
      <4> QED
        BY <3>1, <4>1, <4>2, <2>3 DEF TaskInv, PricedKeysUnique
    <3> QED
      BY <3>2, <3>3
  <2>9. StepIsReal' /\ EndIsReal'
    BY <1>1, <1>2, <1>4 DEF TaskInv, StepIsReal, EndIsReal
  <2>10. RequestsTold'
    <3> SUFFICES ASSUME NEW i \in 1..n
                 PROVE  /\ requests'[i].life <= life
                        /\ requests'[i].life = life =>
                             \/ requests'[i].key.number <= Len(ledger)
                             \/ requests'[i].key.number = Len(ledger) + 1
      BY <1>1, <1>4, <1>6, <2>3 DEF RequestsTold, Awaits
    <3>1. CASE i = n
      BY <3>1, <2>1, <2>3, <1>3
    <3>2. CASE i # n
      <4>1. i \in 1..Len(requests)
        BY <3>2, <2>3
      <4> QED
        BY <4>1, <2>3, <2>4
    <3> QED
      BY <3>1, <3>2
  <2> QED
    BY <2>5, <2>6, <2>7, <2>8, <2>9, <2>10 DEF TaskInv
<1> QED
  BY <1>5, <1>6

-----------------------------------------------------------------------------
(* The end of the attempt.                                                  *)

\* A step of the planner's or of the signal's: ledger and requests stay, and a
\* result that was there stays.
LEMMA EndKeepsTask ==
  ASSUME TaskInv,
         UNCHANGED <<life, toolCalls, step, ledger, requests>>,
         aborted' \in BOOLEAN, planner' \in {"open", "closed"}, result' \in RunCode \cup {Nil},
         ResultMatchesLedger', EndIsReal'
  PROVE  TaskInv'
<1>1. ComposedTypeOK'
  BY DEF TaskInv, ComposedTypeOK
<1>2. BudgetsKept' /\ PricedKeysUnique'
  BY DEF TaskInv, BudgetsKept, PricedKeysUnique, PricedSucceeded
<1>3. StepIsReal' /\ RequestsTold'
  BY DEF TaskInv, StepIsReal, RequestsTold, Awaits
<1> QED
  BY <1>1, <1>2, <1>3 DEF TaskInv

\* The planner ends with a code: it becomes the result unless there is one.
LEMMA PlannerEnds ==
  ASSUME TaskInv, planner = "open", step = NoStep \/ aborted,
         NEW code \in RunCode,
         code = "DEPENDENCY_FAILURE_AFTER_COMMIT" => PricedCommitted,
         code \in {"AGENT_FAILURE", "DEPENDENCY_FAILURE"} => ~PricedCommitted,
         code = "DEPENDENCY_FAILURE" =>
           ledger # <<>> /\ \A i \in DOMAIN ledger : ledger[i].code = "DEPENDENCY_FAILURE",
         code \in {"succeeded", "INVALID_OUTPUT"} => Succeeded # {} /\ step = NoStep,
         planner' = "closed", SettleTask(code),
         UNCHANGED <<life, toolCalls, step, ledger, aborted, requests>>
  PROVE  TaskInv'
<1> USE ComposedAssumption
<1>1. UNCHANGED <<PricedCommitted, Succeeded>>
  BY DEF PricedCommitted, PricedSucceeded, Succeeded
<1>2. CASE result = Nil
  <2>1. result' = code /\ ~aborted /\ step = NoStep /\ code # Nil
    <3>1. ~aborted
      BY <1>2 DEF TaskInv, EndIsReal, RunCode
    <3> QED
      BY <1>2, <3>1 DEF SettleTask
  <2>2. ResultMatchesLedger' /\ EndIsReal'
    BY <2>1, <1>1 DEF ResultMatchesLedger, EndIsReal
  <2> QED
    BY <2>1, <2>2, EndKeepsTask DEF TaskInv, ComposedTypeOK
<1>3. CASE result # Nil
  <2>1. result' = result
    BY <1>3 DEF SettleTask
  <2>2. ResultMatchesLedger' /\ EndIsReal'
    BY <2>1, <1>1, <1>3 DEF TaskInv, ResultMatchesLedger, EndIsReal
  <2> QED
    BY <2>1, <2>2, EndKeepsTask DEF TaskInv, ComposedTypeOK
<1> QED
  BY <1>2, <1>3

LEMMA PlannerFailsStep == ASSUME TaskInv, PlannerFails PROVE TaskInv'
<1>1. ledger \in Seq(Entry)
  BY DEF TaskInv, ComposedTypeOK
<1>2. Len(ledger) > 0 => ledger # <<>>
  BY EmptySeq
<1>3. /\ PlannerFailure \in {"DEPENDENCY_FAILURE_AFTER_COMMIT", "DEPENDENCY_FAILURE", "AGENT_FAILURE"}
      /\ PlannerFailure = "DEPENDENCY_FAILURE_AFTER_COMMIT" => PricedCommitted
      /\ PlannerFailure \in {"AGENT_FAILURE", "DEPENDENCY_FAILURE"} => ~PricedCommitted
      /\ PlannerFailure = "DEPENDENCY_FAILURE" =>
           ledger # <<>> /\ \A i \in DOMAIN ledger : ledger[i].code = "DEPENDENCY_FAILURE"
  BY <1>2 DEF PlannerFailure
<1>4. planner = "open" /\ (step = NoStep \/ aborted) /\ planner' = "closed"
      /\ SettleTask(PlannerFailure)
      /\ UNCHANGED <<life, toolCalls, step, ledger, aborted, requests>>
  BY DEF PlannerFails
<1>5. PlannerFailure \in RunCode /\ PlannerFailure \notin {"succeeded", "INVALID_OUTPUT"}
  BY <1>3 DEF RunCode
<1> QED
  BY <1>3, <1>4, <1>5, PlannerEnds

LEMMA PlannerAnswersStep == ASSUME TaskInv, PlannerAnswers PROVE TaskInv'
<1>2. PICK code \in {"succeeded", "INVALID_OUTPUT"} :
        /\ planner = "open" /\ step = NoStep /\ Succeeded # {} /\ planner' = "closed"
        /\ SettleTask(code)
        /\ UNCHANGED <<life, toolCalls, step, ledger, aborted, requests>>
  BY DEF PlannerAnswers, PlannerIsFree
<1>1. code \in RunCode
        /\ code \notin {"DEPENDENCY_FAILURE_AFTER_COMMIT", "AGENT_FAILURE", "DEPENDENCY_FAILURE"}
  BY DEF RunCode
<1> QED
  BY <1>1, <1>2, PlannerEnds

LEMMA PlannerInventsStep == ASSUME TaskInv, PlannerInvents PROVE TaskInv'
<1> DEFINE code == IF PricedCommitted THEN "DEPENDENCY_FAILURE_AFTER_COMMIT" ELSE "AGENT_FAILURE"
<1>1. /\ code \in RunCode /\ code \notin {"succeeded", "INVALID_OUTPUT", "DEPENDENCY_FAILURE"}
      /\ code = "DEPENDENCY_FAILURE_AFTER_COMMIT" => PricedCommitted
      /\ code = "AGENT_FAILURE" => ~PricedCommitted
  BY DEF RunCode
<1>2. planner = "open" /\ step = NoStep /\ planner' = "closed" /\ SettleTask(code)
      /\ UNCHANGED <<life, toolCalls, step, ledger, aborted, requests>>
  BY DEF PlannerInvents, PlannerIsFree
<1> HIDE DEF code
<1> QED
  BY <1>1, <1>2, PlannerEnds

LEMMA AbortStep ==
  ASSUME TaskInv, NEW code \in {"PROCESS_TIMEOUT", "INTERNAL_ERROR"}, Abort(code)
  PROVE  TaskInv'
<1> USE ComposedAssumption
<1>1. /\ result = Nil /\ aborted' = TRUE /\ result' = code
      /\ UNCHANGED <<life, toolCalls, step, ledger, planner, requests>>
  BY DEF Abort, SettleTask
<1>2. ResultMatchesLedger' /\ EndIsReal'
  BY <1>1 DEF ResultMatchesLedger, EndIsReal, RunCode
<1>3. result' \in RunCode
  BY <1>1 DEF RunCode
<1> QED
  BY <1>1, <1>2, <1>3, EndKeepsTask DEF TaskInv, ComposedTypeOK

LEMMA TaskWorkerDiesStep == ASSUME TaskInv, TaskWorkerDies PROVE TaskInv'
<1> USE ComposedAssumption
<1>1. /\ result = Nil /\ life < MaxLives /\ life' = life + 1 /\ toolCalls' = 0 /\ step' = NoStep
      /\ ledger' = <<>> /\ planner' = "open" /\ UNCHANGED <<aborted, result, requests>>
  BY DEF TaskWorkerDies
<1>2. ledger' \in Seq(Entry) /\ Len(ledger') = 0 /\ life \in 1..MaxLives
  BY <1>1, EmptySeq DEF TaskInv, ComposedTypeOK
<1>3. PricedSucceeded' = 0
  BY <1>1, <1>2, PlacesEmpty, PricedAfter
<1>4. step' \in StepRecord /\ step'.tool = Nil
  BY <1>1 DEF NoStep, StepRecord
<1>5. ComposedTypeOK'
  BY <1>1, <1>2, <1>4 DEF TaskInv, ComposedTypeOK, StepRecord
<1>6. BudgetsKept'
  BY <1>1, <1>2, <1>3, <1>4 DEF BudgetsKept
<1>7. ResultMatchesLedger' /\ PricedKeysUnique' /\ StepIsReal' /\ EndIsReal'
  BY <1>1 DEF TaskInv, ResultMatchesLedger, PricedKeysUnique, StepIsReal, EndIsReal, RunCode, NoStep
<1>8. RequestsTold'
  <2> SUFFICES ASSUME NEW i \in DOMAIN requests
               PROVE  requests[i].life <= life + 1 /\ requests[i].life # life + 1
    BY <1>1 DEF RequestsTold
  <2>1. requests \in Seq([life : 1..MaxLives, key : Key])
    BY DEF TaskInv, ComposedTypeOK
  <2>2. i \in 1..Len(requests)
    BY <2>1, LenProperties
  <2>3. requests[i] \in [life : 1..MaxLives, key : Key]
    BY <2>1, <2>2, ElementOfSeq
  <2>4. requests[i].life <= life
    BY DEF TaskInv, RequestsTold
  <2> QED
    BY <2>3, <2>4, <1>2
<1> QED
  BY <1>5, <1>6, <1>7, <1>8 DEF TaskInv

-----------------------------------------------------------------------------
(* Every step.                                                              *)

LEMMA RetryStepKeeps == ASSUME TaskInv, RetryStep PROVE TaskInv'
<1>1. step.phase = "backoff" /\ step' = [step EXCEPT !.phase = "running", !.attempt = @ + 1]
      /\ UNCHANGED <<life, toolCalls, ledger, aborted, planner, result, requests>>
  BY DEF RetryStep
<1>2. step \in StepRecord /\ step.attempt >= 1 /\ step.attempt < MaxStepAttempts
  BY <1>1, StepFacts DEF TaskInv, ComposedTypeOK, StepRecord, StepIsReal
<1>3. step' \in StepRecord /\ step'.tool = step.tool /\ step'.attempt = step.attempt + 1
      /\ step'.phase = "running"
  <2>1. step.attempt + 1 \in 0..MaxStepAttempts
    BY <1>2, ComposedAssumption DEF StepRecord
  <2>2. step' = [tool |-> step.tool, attempt |-> step.attempt + 1, phase |-> "running"]
    BY <1>1, <1>2 DEF StepRecord
  <2> QED
    BY <1>2, <2>1, <2>2 DEF StepRecord
<1>4. step'.attempt >= 1
  BY <1>2, <1>3, ComposedAssumption DEF StepRecord
<1> QED
  BY <1>1, <1>2, <1>3, <1>4, StepMoves

LEMMA ServeStep == ASSUME TaskInv, Serve PROVE TaskInv'
<1>1. step.phase = "requested" /\ step' = [step EXCEPT !.phase = "served"]
      /\ UNCHANGED <<life, toolCalls, ledger, aborted, planner, result, requests>>
  BY DEF Serve
<1>2. step \in StepRecord /\ step.attempt >= 1
  BY <1>1, StepFacts DEF TaskInv, ComposedTypeOK, StepRecord
<1>3. step' \in StepRecord /\ step'.tool = step.tool /\ step'.attempt = step.attempt
      /\ step'.phase = "served"
  BY <1>1, <1>2 DEF StepRecord
<1> QED
  BY <1>1, <1>2, <1>3, StepMoves

\* Every way an attempt of a step ends.
LEMMA StepEnds ==
  ASSUME TaskInv,
         \/ StepAgentFails \/ RejectKey \/ RequestFails \/ StepOutputInvalid
         \/ StepTimesOut \/ StepCancelled \/ StepThrows
  PROVE  TaskInv'
<1>1. step.phase # "none" /\ \E code \in StepCode : EndAttempt(code)
  BY DEF StepAgentFails, RejectKey, RequestFails, RequestFailures, StepOutputInvalid, StepTimesOut,
         StepCancelled, StepThrows, InAttempt, StepCode
<1> QED
  BY <1>1, AttemptEnds

LEMMA StepSucceedsKeeps == ASSUME TaskInv, StepSucceeds PROVE TaskInv'
<1> DEFINE code == "succeeded"
<1>1. code \in StepCode \cup {"succeeded"}
  OBVIOUS
<1>2. step.phase # "none" /\ Record(code)
      /\ UNCHANGED <<life, toolCalls, aborted, planner, result, requests>>
  BY DEF StepSucceeds
<1> HIDE DEF code
<1> QED
  BY <1>1, <1>2, RecordKeeps

LEMMA TaskStep == TaskInv /\ [ComposedNext]_composedVars => TaskInv'
<1> SUFFICES ASSUME TaskInv, [ComposedNext]_composedVars PROVE TaskInv'
  OBVIOUS
<1>1. ASSUME NEW t \in Tool, CallRefused(t) PROVE TaskInv'
  BY <1>1, CallRefusedStep
<1>2. ASSUME NEW t \in Tool, CallInvalid(t) PROVE TaskInv'
  BY <1>2, CallInvalidStep
<1>3. ASSUME NEW t \in Tool, CallTool(t) PROVE TaskInv'
  BY <1>3, CallToolStep
<1>4. CASE RetryStep
  BY <1>4, RetryStepKeeps
<1>5. CASE SendRequest
  BY <1>5, SendStep
<1>6. CASE Serve
  BY <1>6, ServeStep
<1>7. CASE \/ StepAgentFails \/ RejectKey \/ RequestFails \/ StepOutputInvalid
           \/ StepTimesOut \/ StepCancelled \/ StepThrows
  BY <1>7, StepEnds
<1>8. CASE StepSucceeds
  BY <1>8, StepSucceedsKeeps
<1>9. CASE PlannerFails
  BY <1>9, PlannerFailsStep
<1>10. CASE PlannerAnswers
  BY <1>10, PlannerAnswersStep
<1>11. CASE PlannerInvents
  BY <1>11, PlannerInventsStep
<1>12. CASE TaskTimesOut \/ Cancel
  <2>1. \E code \in {"PROCESS_TIMEOUT", "INTERNAL_ERROR"} : Abort(code)
    BY <1>12 DEF TaskTimesOut, Cancel
  <2> QED
    BY <2>1, AbortStep
<1>13. CASE TaskWorkerDies
  BY <1>13, TaskWorkerDiesStep
<1>14. CASE UNCHANGED composedVars
  <2>1. UNCHANGED <<life, toolCalls, step, ledger, aborted, planner, result, requests>>
    BY <1>14 DEF composedVars
  <2>2. ResultMatchesLedger' /\ EndIsReal'
    BY <2>1 DEF TaskInv, ResultMatchesLedger, EndIsReal, PricedCommitted, PricedSucceeded, Succeeded
  <2> QED
    BY <2>1, <2>2, EndKeepsTask DEF TaskInv, ComposedTypeOK
<1> QED
  BY <1>1, <1>2, <1>3, <1>4, <1>5, <1>6, <1>7, <1>8, <1>9, <1>10, <1>11, <1>12, <1>13, <1>14
     DEF ComposedNext

\* Whatever the planner asks for and whenever the worker dies, an attempt of a
\* composed task keeps its budgets and sends no paid request twice under one key,
\* and the codes its registration chooses agree with its ledger
\* (src/src/processes/composed/).
THEOREM TaskStaysConsistent == ComposedSpec => []TaskConsistent
<1>1. TaskInv => TaskConsistent
  BY DEF TaskInv, TaskConsistent
<1> QED
  BY <1>1, TaskInit, TaskStep, PTL DEF ComposedSpec

\* The step of ResultIsFinal.
ResultKept ==
  result # Nil => result' = result /\ requests' = requests

LEMMA ResultKeptStep == TaskInv /\ [ComposedNext]_composedVars => [ResultKept]_composedVars
<1> SUFFICES ASSUME TaskInv, ComposedNext, result # Nil
             PROVE  result' = result /\ requests' = requests
  BY DEF ResultKept
<1>1. ~aborted => planner = "closed" /\ step = NoStep
  BY DEF TaskInv, EndIsReal
<1>2. ~SendRequest
  BY <1>1 DEF SendRequest, NoStep
<1>3. \A code \in StepCode : EndAttempt(code) => result' = result /\ requests' = requests
  BY DEF EndAttempt
<1> QED
  BY <1>2, <1>3
     DEF ComposedNext, CallRefused, CallInvalid, CallTool, RetryStep, StepAgentFails, RejectKey,
         Serve, RequestFails, RequestFailures, StepOutputInvalid, StepSucceeds, StepTimesOut,
         StepCancelled, StepThrows,
         PlannerFails, PlannerAnswers, PlannerInvents, TaskTimesOut, Cancel, Abort,
         TaskWorkerDies, SettleTask, StepCode

\* Once the run has a result, nothing of it changes and no paid request leaves.
THEOREM ResultsStay == ComposedSpec => ResultIsFinal
BY ResultKeptStep, TaskInit, TaskStep, PTL DEF ComposedSpec, ResultIsFinal, ResultKept
-----------------------------------------------------------------------------
(***************************************************************************)
(* An emoji's planning session, whatever the request and the model.        *)
(***************************************************************************)

-----------------------------------------------------------------------------
(* The invariant. *)

\* What has been found of the candidate that was accepted.
AcceptedIsGood ==
  /\ answer.json /\ answer.faults = {} /\ MatchesCast(answer)
  /\ answer.sources \subseteq offered
  /\ (\E r \in research : r.status = "failed") => answer.sources = {}
  /\ brief.noText => ~answer.marks /\ (brief.mode = "single" => answer.caption = "")
  /\ brief.mode = "single" /\ Setting \notin {Nothing, "auto", "none"} => answer.caption = Setting
  /\ correction.kind \in {"schema", "caption"} =>
       \A f \in Fields : answer[f] # correction.of[f] => f \in correction.paths

\* The counters of the session, by where it is.
SessionCounts ==
  /\ stage # "ended" => modelCalls <= MaxModelCalls
  /\ completedSearches + (IF stage = "searching" THEN 1 ELSE 0) <= MaxSearchCalls
  /\ completedSearches + (IF stage = "searching" THEN 1 ELSE 0) <= calls
  /\ ~failed => calls <= MaxSearchCalls
  /\ stage = "searching" => pending > 0

\* What each stage has behind it.
StageInv ==
  /\ stage \in {"calling", "searching"} => SearchAllowed /\ ~repairing
  /\ ~repairing => correction = NoCorrection
  /\ stage \in {"thinking", "answered"} => offered = MaterialIds
  /\ planOutcome = "accepted" => stage \in {"compiling", "planned", "rendering", "ended"}
  /\ stage \in {"compiling", "planned", "rendering"} => planOutcome = "accepted"
  /\ planOutcome = "accepted" => AcceptedIsGood
  /\ stage # "ended" => emojiAttempt = Nothing
  /\ stage \notin {"rendering", "ended"} => paidImage = "idle"
  /\ paidImage # "idle" => planOutcome = "accepted"
  /\ emojiAttempt \in {"DEPENDENCY_FAILURE", "AGENT_FAILURE"} => paidImage \in {"idle", "refused"}

\* The observations: one for each search that ended.
SearchEntry == [stage : {"search"}, outcome : {"failed", "usable", "unverifiable", "insufficient"}]
Observation ==
  SearchEntry \cup {SkippedRecord} \cup
  [stage : {"planning"}, outcome : {"succeeded", "failed"}, modelCalls : Nat, repairs : BOOLEAN,
   source : {"original", "local", "research", "mixed", Nothing}]

RecordsInv ==
  /\ records \in Seq(Observation)
  /\ Cardinality(Places(records, SearchEntry)) = completedSearches

PlanInv ==
  /\ EmojiTypeOK /\ SessionCounts /\ StageInv /\ RecordsInv

-----------------------------------------------------------------------------
(* Observations and the checks' verdict on a session. *)

\* The searches among the observations, as the budget counts them.
LEMMA SearchesCounted ==
  ASSUME records \in Seq(Observation)
  PROVE  Cardinality({i \in DOMAIN records :
                        records[i].stage = "search" /\ records[i].outcome # "skipped"})
           = Cardinality(Places(records, SearchEntry))
<1>1. \A i \in DOMAIN records : records[i] \in Observation
  BY LenProperties, ElementOfSeq
<1>2. \A e \in Observation : e \in SearchEntry <=> e.stage = "search" /\ e.outcome # "skipped"
  BY DEF Observation, SearchEntry, SkippedRecord
<1>3. Places(records, SearchEntry)
        = {i \in DOMAIN records : records[i].stage = "search" /\ records[i].outcome # "skipped"}
  BY <1>1, <1>2 DEF Places
<1> QED
  BY <1>3

LEMMA PlanImplies == PlanInv => PlanConsistent
<1> SUFFICES ASSUME PlanInv PROVE PlanConsistent
  OBVIOUS
<1>1. PlanIsSound /\ CorrectionKeepsTheRest
  BY DEF PlanInv, StageInv, AcceptedIsGood, PlanIsSound, CorrectionKeepsTheRest
<1>2. SessionWithinBudget
  <2>1. Cardinality({i \in DOMAIN records :
                       records[i].stage = "search" /\ records[i].outcome # "skipped"})
          = completedSearches
    BY SearchesCounted DEF PlanInv, RecordsInv
  <2>2. completedSearches <= MaxSearchCalls
    BY EmojiAssumption DEF PlanInv, EmojiTypeOK
  <2>3. stage \in {"thinking", "calling", "searching", "answered", "compiling"}
          => modelCalls <= MaxModelCalls
    BY DEF PlanInv, SessionCounts
  <2>4. stage = "searching" => SearchAllowed /\ ~repairing /\ correction = NoCorrection
    BY DEF PlanInv, StageInv
  <2> QED
    BY <2>1, <2>2, <2>3, <2>4 DEF SessionWithinBudget
<1>3. ChargeIsReported
  BY DEF PlanInv, StageInv, ChargeIsReported
<1> QED
  BY <1>1, <1>2, <1>3 DEF PlanInv, PlanConsistent

LEMMA PlanInit == EmojiInit => PlanInv
<1> SUFFICES ASSUME EmojiInit PROVE PlanInv
  OBVIOUS
<1> USE EmojiAssumption DEF EmojiInit
<1>1. EmojiTypeOK
  <2>1. 0 \in 0..CallsPerAnswer /\ 0 \in 0..(MaxModelCalls + 1) /\ 0 \in 0..(MaxSearchCalls + 1)
        /\ 0 \in 0..MaxSearchCalls
    OBVIOUS
  <2>2. research \subseteq AnyResearch
    OBVIOUS
  <2> QED
    BY <2>1, <2>2 DEF EmojiTypeOK
<1>2. SessionCounts
  BY DEF SessionCounts
<1>3. StageInv
  BY DEF StageInv
<1>4. RecordsInv
  BY PlacesEmpty, EmptySeq DEF RecordsInv
<1> QED
  BY <1>1, <1>2, <1>3, <1>4 DEF PlanInv

-----------------------------------------------------------------------------
(* The verdict.                                                             *)

LEMMA AcceptedCandidate ==
  ASSUME NEW c, Verdict(c) = "accepted", offered = MaterialIds
  PROVE  /\ c.json /\ c.faults = {} /\ MatchesCast(c) /\ c.sources \subseteq offered
         /\ (\E r \in research : r.status = "failed") => c.sources = {}
         /\ brief.noText => ~c.marks /\ (brief.mode = "single" => c.caption = "")
         /\ brief.mode = "single" /\ Setting \notin {Nothing, "auto", "none"} => c.caption = Setting
         /\ correction.kind \in {"schema", "caption"} => Unchanged(c)
<1> USE EmojiAssumption
<1>1. c.json /\ SourcesBound(c) /\ c.faults = {} /\ BusinessIssue(c) = Nothing
      /\ (correction.kind = "schema" => Unchanged(c))
      /\ (correction.kind = "caption" => Unchanged(c))
  BY DEF Verdict
<1>2. MatchesCast(c)
  BY <1>1 DEF BusinessIssue
<1>3. c.sources \subseteq offered
  BY <1>1 DEF SourcesBound
<1>4. (\E r \in research : r.status = "failed") => c.sources = {}
  BY <1>1 DEF SourcesBound, MaterialIds
<1>5. CASE brief.mode = "comic"
  <2>1. ComicIssue(c) = Nothing
    BY <1>1, <1>2, <1>5 DEF BusinessIssue
  <2>2. brief.noText => ~c.marks
    BY <2>1 DEF ComicIssue, TextForbidden
  <2> QED
    BY <1>1, <1>2, <1>3, <1>4, <1>5, <2>2
<1>6. CASE brief.mode # "comic"
  <2>1. SingleIssue(c) = Nothing
    BY <1>1, <1>2, <1>6 DEF BusinessIssue
  <2>2. brief.noText => ~c.marks /\ c.caption = ""
    BY <2>1 DEF SingleIssue
  <2>3. brief.noText => Setting = "none"
    BY DEF Setting
  <2>4. Setting \notin {Nothing, "auto", "none"} => c.caption = Setting
    BY <2>1, <2>3 DEF SingleIssue, CaptionAsSet
  <2> QED
    BY <1>1, <1>2, <1>3, <1>4, <2>2, <2>4
<1> QED
  BY <1>5, <1>6

-----------------------------------------------------------------------------
(* The session goes on.                                                     *)

SessionStage == {"opening", "asking", "thinking", "calling", "searching", "answered"}

LEMMA SameMaterial == UNCHANGED <<brief, research>> => MaterialIds' = MaterialIds
BY DEF MaterialIds, LocalIds

LEMMA SameRecords ==
  ASSUME RecordsInv, UNCHANGED <<records, completedSearches>> PROVE RecordsInv'
BY DEF RecordsInv

LEMMA SessionKeeps ==
  ASSUME PlanInv, stage \in SessionStage, stage' \in SessionStage,
         UNCHANGED <<brief, planOutcome, paidImage, emojiAttempt>>,
         EmojiTypeOK', SessionCounts', RecordsInv',
         stage' \in {"calling", "searching"} => SearchAllowed /\ ~repairing',
         ~repairing' => correction' = NoCorrection,
         stage' \in {"thinking", "answered"} => offered' = MaterialIds'
  PROVE  PlanInv'
<1>1. planOutcome # "accepted" /\ emojiAttempt = Nothing /\ paidImage = "idle"
  BY DEF PlanInv, StageInv, SessionStage
<1>2. SearchAllowed' <=> SearchAllowed
  BY DEF SearchAllowed
<1>3. StageInv'
  BY <1>1, <1>2, EmojiAssumption DEF StageInv, SessionStage
<1> QED
  BY <1>3 DEF PlanInv

\* Steps that count nothing and observe nothing.
LEMMA SessionMoves ==
  ASSUME PlanInv, stage \in SessionStage, stage' \in SessionStage \ {"searching"},
         UNCHANGED <<brief, signal, planVars, correction, planOutcome, records, paidImage,
                     emojiAttempt>>,
         stage # "searching", pending' \in 0..CallsPerAnswer,
         stage' = "calling" => SearchAllowed /\ ~repairing,
         stage' \in {"thinking", "answered"} => offered' = MaterialIds
  PROVE  PlanInv'
<1>1. UNCHANGED <<modelCalls, calls, completedSearches, failed, repairing, research>>
  BY DEF planVars
<1>2. EmojiTypeOK'
  BY <1>1 DEF PlanInv, EmojiTypeOK, SessionStage
<1>3. SessionCounts'
  BY <1>1 DEF PlanInv, SessionCounts, SessionStage
<1>4. RecordsInv'
  BY <1>1, SameRecords DEF PlanInv
<1>5. MaterialIds' = MaterialIds
  BY <1>1, SameMaterial
<1>6. ~repairing' => correction' = NoCorrection
  BY <1>1 DEF PlanInv, StageInv
<1> QED
  BY <1>1, <1>2, <1>3, <1>4, <1>5, <1>6, SessionKeeps

LEMMA ModelToolsStep ==
  ASSUME PlanInv, NEW n \in 1..CallsPerAnswer, ModelCallsTool(n) PROVE PlanInv'
<1>1. n \in 0..CallsPerAnswer
  BY EmojiAssumption
<1> QED
  BY <1>1, SessionMoves DEF ModelCallsTool, ToolsOffered, SessionStage

LEMMA UnknownToolStep == ASSUME PlanInv, ModelCallsUnknownTool PROVE PlanInv'
BY SessionMoves DEF ModelCallsUnknownTool, SessionStage, PlanInv, EmojiTypeOK

LEMMA ModelOffersStep == ASSUME PlanInv, NEW c \in Candidate, ModelOffers(c) PROVE PlanInv'
BY SessionMoves DEF ModelOffers, SessionStage, PlanInv, StageInv, EmojiTypeOK

LEMMA ToolsDoneStep == ASSUME PlanInv, ToolsDone PROVE PlanInv'
BY SessionMoves DEF ToolsDone, SessionStage, PlanInv, EmojiTypeOK

LEMMA AskModelStep == ASSUME PlanInv, AskModel PROVE PlanInv'
<1> USE EmojiAssumption
<1>1. /\ stage = "asking" /\ stage' = "thinking" /\ modelCalls < MaxModelCalls
      /\ modelCalls' = modelCalls + 1 /\ offered' = MaterialIds
      /\ UNCHANGED <<brief, signal, pending, calls, completedSearches, failed, repairing, research,
                     answer, correction, planOutcome, records, paidImage, emojiAttempt>>
  BY DEF AskModel, MayAsk
<1>2. EmojiTypeOK'
  BY <1>1 DEF PlanInv, EmojiTypeOK
<1>3. SessionCounts'
  BY <1>1, <1>2 DEF PlanInv, SessionCounts, EmojiTypeOK
<1>4. RecordsInv' /\ MaterialIds' = MaterialIds
  BY <1>1, SameRecords, SameMaterial DEF PlanInv
<1>5. ~repairing' => correction' = NoCorrection
  BY <1>1 DEF PlanInv, StageInv
<1> QED
  BY <1>1, <1>2, <1>3, <1>4, <1>5, SessionKeeps DEF SessionStage

LEMMA RefuseSearchStep == ASSUME PlanInv, RefuseSearch PROVE PlanInv'
<1> USE EmojiAssumption
<1>1. /\ stage = "calling" /\ stage' = "calling" /\ pending > 0 /\ pending' = pending - 1
      /\ failed \/ repairing \/ calls = MaxSearchCalls
      /\ calls' = IF failed \/ repairing THEN calls ELSE calls + 1
      /\ failed' = TRUE
      /\ UNCHANGED <<brief, signal, modelCalls, completedSearches, repairing, research,
                     offered, answer, correction, planOutcome, records, paidImage, emojiAttempt>>
  BY DEF RefuseSearch
<1>2. calls' \in 0..(MaxSearchCalls + 1) /\ calls' >= calls
  BY <1>1 DEF PlanInv, EmojiTypeOK
<1>3. EmojiTypeOK'
  BY <1>1, <1>2 DEF PlanInv, EmojiTypeOK
<1>4. SessionCounts'
  BY <1>1, <1>2, <1>3 DEF PlanInv, SessionCounts, EmojiTypeOK
<1>5. RecordsInv'
  BY <1>1, SameRecords DEF PlanInv
<1>6. (~repairing' => correction' = NoCorrection) /\ SearchAllowed /\ ~repairing'
  BY <1>1 DEF PlanInv, StageInv
<1> QED
  BY <1>1, <1>3, <1>4, <1>5, <1>6, SessionKeeps DEF SessionStage

LEMMA StartSearchStep == ASSUME PlanInv, StartSearch PROVE PlanInv'
<1> USE EmojiAssumption
<1>1. /\ stage = "calling" /\ stage' = "searching" /\ pending > 0 /\ ~failed /\ ~repairing
      /\ calls < MaxSearchCalls /\ calls' = calls + 1
      /\ UNCHANGED <<brief, signal, pending, modelCalls, completedSearches, failed, repairing,
                     research, offered, answer, correction, planOutcome, records, paidImage,
                     emojiAttempt>>
  BY DEF StartSearch
<1>2. EmojiTypeOK'
  BY <1>1 DEF PlanInv, EmojiTypeOK
<1>3. SessionCounts'
  BY <1>1, <1>2 DEF PlanInv, SessionCounts, EmojiTypeOK
<1>4. RecordsInv'
  BY <1>1, SameRecords DEF PlanInv
<1>5. (~repairing' => correction' = NoCorrection) /\ SearchAllowed /\ ~repairing'
  BY <1>1 DEF PlanInv, StageInv
<1> QED
  BY <1>1, <1>2, <1>3, <1>4, <1>5, SessionKeeps DEF SessionStage

LEMMA SearchEndsStep ==
  ASSUME PlanInv, NEW r \in AnyResearch, SearchEnds(r) PROVE PlanInv'
<1> USE EmojiAssumption
<1>1. /\ stage = "searching" /\ stage' = "calling" /\ pending' = pending - 1
      /\ completedSearches' = completedSearches + 1 /\ research' = research \union {r}
      /\ records' = Append(records, [stage |-> "search", outcome |-> r.status])
      /\ UNCHANGED <<brief, signal, modelCalls, calls, failed, repairing, offered, answer,
                     correction, planOutcome, paidImage, emojiAttempt>>
  BY DEF SearchEnds
<1>2. r.status \in {"failed", "usable", "unverifiable", "insufficient"}
  BY DEF AnyResearch, Research, FailedResearch
<1>3. pending > 0 /\ completedSearches + 1 <= MaxSearchCalls /\ completedSearches + 1 <= calls
  BY <1>1 DEF PlanInv, SessionCounts
<1>4. EmojiTypeOK'
  BY <1>1, <1>3 DEF PlanInv, EmojiTypeOK
<1>5. SessionCounts'
  BY <1>1, <1>3, <1>4 DEF PlanInv, SessionCounts, EmojiTypeOK
<1>6. RecordsInv'
  <2> DEFINE e == [stage |-> "search", outcome |-> r.status]
  <2>1. e \in SearchEntry /\ e \in Observation
    BY <1>2 DEF SearchEntry, Observation
  <2>2. records' = Append(records, e)
    BY <1>1
  <2> HIDE DEF e
  <2> QED
    <3>1. records \in Seq(Observation) /\ Cardinality(Places(records, SearchEntry)) = completedSearches
      BY DEF PlanInv, RecordsInv
    <3>2. /\ Append(records, e) \in Seq(Observation)
          /\ Cardinality(Places(Append(records, e), SearchEntry))
               = Cardinality(Places(records, SearchEntry)) + 1
      BY <2>1, <3>1, PlaceCount
    <3> QED
      BY <2>2, <3>1, <3>2, <1>1 DEF RecordsInv
<1>7. (~repairing' => correction' = NoCorrection) /\ SearchAllowed /\ ~repairing'
  BY <1>1 DEF PlanInv, StageInv
<1> QED
  BY <1>1, <1>4, <1>5, <1>6, <1>7, SessionKeeps DEF SessionStage

LEMMA SearchAbortedStep == ASSUME PlanInv, SearchAborted PROVE PlanInv'
<1> USE EmojiAssumption
<1>1. /\ stage = "searching" /\ stage' = "calling" /\ pending' = pending - 1 /\ failed' = TRUE
      /\ UNCHANGED <<brief, signal, modelCalls, calls, completedSearches, repairing, research,
                     offered, answer, correction, planOutcome, records, paidImage, emojiAttempt>>
  BY DEF SearchAborted
<1>2. pending > 0 /\ completedSearches + 1 <= MaxSearchCalls /\ completedSearches + 1 <= calls
  BY <1>1 DEF PlanInv, SessionCounts
<1>3. EmojiTypeOK'
  BY <1>1, <1>2 DEF PlanInv, EmojiTypeOK
<1>4. SessionCounts'
  BY <1>1, <1>2, <1>3 DEF PlanInv, SessionCounts, EmojiTypeOK
<1>5. RecordsInv'
  BY <1>1, SameRecords DEF PlanInv
<1>6. (~repairing' => correction' = NoCorrection) /\ SearchAllowed /\ ~repairing'
  BY <1>1 DEF PlanInv, StageInv
<1> QED
  BY <1>1, <1>3, <1>4, <1>5, <1>6, SessionKeeps DEF SessionStage

LEMMA RepairStep == ASSUME PlanInv, Repair PROVE PlanInv'
<1>1. /\ stage = "answered" /\ stage' = "asking" /\ repairing' = TRUE
      /\ UNCHANGED <<brief, signal, pending, modelCalls, calls, completedSearches, failed,
                     research, offered, answer, planOutcome, records, paidImage, emojiAttempt>>
  BY DEF Repair
<1>2. EmojiTypeOK'
  BY <1>1 DEF PlanInv, EmojiTypeOK
<1>3. SessionCounts'
  BY <1>1 DEF PlanInv, SessionCounts
<1>4. RecordsInv'
  BY <1>1, SameRecords DEF PlanInv
<1> QED
  BY <1>1, <1>2, <1>3, <1>4, SessionKeeps DEF SessionStage

-----------------------------------------------------------------------------
(* The session ends.                                                        *)

LEMMA OneMoreObservation ==
  ASSUME RecordsInv, NEW e \in Observation \ SearchEntry
  PROVE  /\ Append(records, e) \in Seq(Observation)
         /\ Cardinality(Places(Append(records, e), SearchEntry)) = completedSearches
<1>1. records \in Seq(Observation) /\ Cardinality(Places(records, SearchEntry)) = completedSearches
  BY DEF RecordsInv
<1>2. /\ Append(records, e) \in Seq(Observation)
      /\ Cardinality(Places(records, SearchEntry)) \in Nat
      /\ Cardinality(Places(Append(records, e), SearchEntry))
           = Cardinality(Places(records, SearchEntry)) + 0
  BY <1>1, PlaceCount
<1> QED
  BY <1>1, <1>2

LEMMA PlanningObserved ==
  ASSUME NEW code, modelCalls' \in Nat, repairing' \in BOOLEAN
  PROVE  PlanningRecord(code) \in Observation \ SearchEntry
<1>1. SourceClass(answer) \in {"original", "local", "research", "mixed"}
  BY DEF SourceClass
<1>2. PlanningRecord(code) \in
        [stage : {"planning"}, outcome : {"succeeded", "failed"}, modelCalls : Nat,
         repairs : BOOLEAN, source : {"original", "local", "research", "mixed", Nothing}]
  BY <1>1 DEF PlanningRecord
<1>3. PlanningRecord(code).stage = "planning"
  BY DEF PlanningRecord
<1> QED
  BY <1>2, <1>3 DEF Observation, SearchEntry

LEMMA FailPlanningKeeps ==
  ASSUME PlanInv, stage \in SessionStage \ {"searching"}, NEW code, code # "accepted",
         FailPlanning(code), modelCalls' \in 0..(MaxModelCalls + 1), failed' \in BOOLEAN,
         failed => failed',
         UNCHANGED <<calls, completedSearches, repairing, research>>
  PROVE  PlanInv'
<1> USE EmojiAssumption
<1>1. /\ planOutcome' = code /\ stage' = "ended" /\ emojiAttempt' = "AGENT_FAILURE"
      /\ records' = Append(records, PlanningRecord(code))
      /\ UNCHANGED <<brief, signal, pending, offered, answer, correction, paidImage>>
  BY DEF FailPlanning
<1>2. EmojiTypeOK'
  BY <1>1 DEF PlanInv, EmojiTypeOK
<1>3. SessionCounts'
  BY <1>1 DEF PlanInv, SessionCounts, SessionStage
<1>4. RecordsInv'
  <2>1. PlanningRecord(code) \in Observation \ SearchEntry
    BY PlanningObserved DEF PlanInv, EmojiTypeOK
  <2> QED
    BY <2>1, <1>1, OneMoreObservation DEF PlanInv, RecordsInv
<1>5. paidImage = "idle"
  BY DEF PlanInv, StageInv, SessionStage
<1>6. StageInv'
  BY <1>1, <1>5 DEF PlanInv, StageInv
<1> QED
  BY <1>2, <1>3, <1>4, <1>6 DEF PlanInv

\* Every failure of the session.
LEMMA FailuresStep ==
  ASSUME PlanInv, RefuseRequest \/ ModelFails \/ SessionAborted \/ RejectIncomplete \/ Reject
  PROVE  PlanInv'
<1> USE EmojiAssumption
<1>1. CASE RefuseRequest
  <2>1. PICK code \in {"model_error", "execution"} : FailPlanning(code)
    BY <1>1 DEF RefuseRequest
  <2>2. /\ stage = "asking" /\ ~MayAsk /\ failed' = TRUE
        /\ modelCalls' = IF failed THEN modelCalls ELSE modelCalls + 1
        /\ UNCHANGED <<calls, completedSearches, repairing, research>>
    BY <1>1 DEF RefuseRequest
  <2>3. modelCalls' \in 0..(MaxModelCalls + 1)
    BY <2>2 DEF PlanInv, EmojiTypeOK, SessionCounts
  <2> QED
    BY <2>1, <2>2, <2>3, FailPlanningKeeps DEF SessionStage
<1>2. CASE ModelFails \/ SessionAborted \/ RejectIncomplete \/ Reject
  <2>1. UNCHANGED <<modelCalls, calls, completedSearches, failed, repairing, research>>
    BY <1>2 DEF ModelFails, SessionAborted, RejectIncomplete, Reject, planVars
  <2>2. stage \in SessionStage \ {"searching"}
    BY <1>2 DEF ModelFails, SessionAborted, RejectIncomplete, Reject, SessionStage
  <2>3. PICK code : code # "accepted" /\ FailPlanning(code)
    BY <1>2 DEF ModelFails, SessionAborted, RejectIncomplete, Reject, CancellationCode, PlainCode
  <2> QED
    BY <2>1, <2>2, <2>3, FailPlanningKeeps DEF PlanInv, EmojiTypeOK
<1> QED
  BY <1>1, <1>2

LEMMA OpenSessionStep == ASSUME PlanInv, OpenSession PROVE PlanInv'
<1> USE EmojiAssumption
<1>1. /\ stage = "opening"
      /\ UNCHANGED <<brief, signal, pending, planVars, offered, answer, correction, records, paidImage>>
  BY DEF OpenSession
<1>2. CASE stage' = "asking" /\ UNCHANGED <<planOutcome, emojiAttempt>>
  BY <1>1, <1>2, SessionMoves DEF SessionStage, PlanInv, EmojiTypeOK
<1>3. CASE stage' = "ended" /\ planOutcome' = PlainCode /\ emojiAttempt' = "AGENT_FAILURE"
  <2>1. UNCHANGED <<modelCalls, calls, completedSearches, failed, repairing, research>>
    BY <1>1 DEF planVars
  <2>2. planOutcome' # "accepted" /\ paidImage = "idle"
    BY <1>1, <1>3 DEF PlainCode, PlanInv, StageInv
  <2>3. EmojiTypeOK'
    BY <1>1, <1>3, <2>1 DEF PlanInv, EmojiTypeOK
  <2>4. SessionCounts'
    BY <1>1, <1>3, <2>1 DEF PlanInv, SessionCounts
  <2>5. RecordsInv'
    BY <1>1, <2>1, SameRecords DEF PlanInv
  <2>6. StageInv'
    BY <1>1, <1>3, <2>1, <2>2 DEF PlanInv, StageInv
  <2> QED
    BY <2>3, <2>4, <2>5, <2>6 DEF PlanInv
<1> QED
  BY <1>2, <1>3 DEF OpenSession

\* What was found of the accepted candidate holds as long as it is the answer.
LEMMA GoodStays ==
  ASSUME AcceptedIsGood, UNCHANGED <<brief, research, offered, answer, correction>>
  PROVE  AcceptedIsGood'
<1>1. MatchesCast(answer)' <=> MatchesCast(answer)
  BY DEF MatchesCast, ActorIds, CastIds, CastId
<1>2. Setting' = Setting
  BY DEF Setting
<1> QED
  BY <1>1, <1>2 DEF AcceptedIsGood

LEMMA AcceptStep == ASSUME PlanInv, Accept PROVE PlanInv'
<1> USE EmojiAssumption
<1>1. /\ stage = "answered" /\ Verdict(answer) = "accepted"
      /\ planOutcome' = "accepted" /\ stage' = "compiling"
      /\ UNCHANGED <<brief, signal, pending, offered, answer, correction, paidImage, emojiAttempt>>
      /\ UNCHANGED <<modelCalls, calls, completedSearches, failed, repairing, research>>
      /\ records' = records \o (IF calls = 0 THEN <<SkippedRecord>> ELSE <<>>)
                            \o <<PlanningRecord("accepted")>>
  BY DEF Accept, planVars
<1>2. EmojiTypeOK'
  BY <1>1 DEF PlanInv, EmojiTypeOK
<1>3. SessionCounts'
  BY <1>1 DEF PlanInv, SessionCounts
<1>4. RecordsInv'
  <2> DEFINE skip == SkippedRecord  told == PlanningRecord("accepted")
  <2>1. skip \in Observation \ SearchEntry
    BY DEF SkippedRecord, Observation, SearchEntry
  <2>2. told \in Observation \ SearchEntry
    BY <1>1, PlanningObserved DEF PlanInv, EmojiTypeOK
  <2>3. records \in Seq(Observation)
    BY DEF PlanInv, RecordsInv
  <2>4. records' = records \o (IF calls = 0 THEN <<skip>> ELSE <<>>) \o <<told>>
    BY <1>1
  <2> HIDE DEF skip, told
  <2>5. CASE calls = 0
    <3> DEFINE seq == Append(records, skip)
    <3>1. seq = records \o <<skip>>
      BY <2>1, <2>3, AppendIsConcat
    <3>2. seq \in Seq(Observation) /\ Cardinality(Places(seq, SearchEntry)) = completedSearches
      BY <2>1, OneMoreObservation DEF PlanInv
    <3>3. records' = seq \o <<told>>
      BY <2>4, <2>5, <3>1
    <3> HIDE DEF seq
    <3>4. records' = Append(seq, told)
      BY <2>2, <3>2, <3>3, AppendIsConcat
    <3>5. /\ Append(seq, told) \in Seq(Observation)
          /\ Cardinality(Places(seq, SearchEntry)) \in Nat
          /\ Cardinality(Places(Append(seq, told), SearchEntry))
               = Cardinality(Places(seq, SearchEntry)) + 0
      BY <2>2, <3>2, PlaceCount
    <3> QED
      BY <3>2, <3>4, <3>5, <1>1 DEF RecordsInv
  <2>6. CASE calls # 0
    <3>1. records \o <<>> = records
      BY <2>3, ConcatEmptySeq
    <3>2. records' = records \o <<told>>
      BY <2>4, <2>6, <3>1
    <3>3. records' = Append(records, told)
      BY <2>2, <2>3, <3>2, AppendIsConcat
    <3>4. /\ Append(records, told) \in Seq(Observation)
          /\ Cardinality(Places(Append(records, told), SearchEntry)) = completedSearches
      BY <2>2, OneMoreObservation DEF PlanInv
    <3> QED
      BY <3>3, <3>4, <1>1 DEF RecordsInv
  <2> QED
    BY <2>5, <2>6
<1>5. AcceptedIsGood'
  <2>1. offered = MaterialIds
    BY <1>1 DEF PlanInv, StageInv
  <2>2. correction.kind \in {"schema", "caption"} =>
          \A f \in Fields : answer[f] # correction.of[f] => f \in correction.paths
    BY <1>1, <2>1, AcceptedCandidate DEF Unchanged
  <2>3. AcceptedIsGood
    BY <1>1, <2>1, <2>2, AcceptedCandidate DEF AcceptedIsGood
  <2> QED
    BY <1>1, <2>3, GoodStays
<1>6. StageInv'
  BY <1>1, <1>5 DEF PlanInv, StageInv
<1> QED
  BY <1>2, <1>3, <1>4, <1>6 DEF PlanInv

-----------------------------------------------------------------------------
(* The image, and the signal.                                               *)

\* Once the plan is accepted only the stage, the image and the result change.
LEMMA ImageKeepsPlan ==
  ASSUME PlanInv, stage \in {"compiling", "planned", "rendering"},
         stage' \in {"planned", "rendering", "ended"},
         UNCHANGED <<brief, signal, pending, planVars, offered, answer, correction, planOutcome,
                     records>>,
         paidImage' \in {"idle", "asked", "charged", "refused"},
         stage' # "ended" => emojiAttempt' = Nothing,
         stage' = "planned" => paidImage' = "idle",
         emojiAttempt' \in {"DEPENDENCY_FAILURE", "AGENT_FAILURE"} => paidImage' \in {"idle", "refused"}
  PROVE  PlanInv'
<1> USE EmojiAssumption
<1>1. UNCHANGED <<modelCalls, calls, completedSearches, failed, repairing, research>>
  BY DEF planVars
<1>2. planOutcome = "accepted" /\ AcceptedIsGood
  BY DEF PlanInv, StageInv
<1>3. AcceptedIsGood'
  BY <1>1, <1>2, GoodStays
<1>4. EmojiTypeOK'
  BY <1>1 DEF PlanInv, EmojiTypeOK
<1>5. SessionCounts'
  BY <1>1 DEF PlanInv, SessionCounts
<1>6. RecordsInv'
  BY <1>1, SameRecords DEF PlanInv
<1>7. StageInv'
  BY <1>1, <1>2, <1>3 DEF PlanInv, StageInv
<1> QED
  BY <1>4, <1>5, <1>6, <1>7 DEF PlanInv

LEMMA ImageSteps ==
  ASSUME PlanInv,
         CompilePrompt \/ GiveUp \/ RequestImage \/ ServeImage \/ ImageArrives \/ ImageFails
  PROVE  PlanInv'
<1> USE EmojiAssumption
<1>1. paidImage \in {"idle", "asked", "charged", "refused"}
      /\ (stage # "ended" => emojiAttempt = Nothing)
      /\ (stage \notin {"rendering", "ended"} => paidImage = "idle")
  BY DEF PlanInv, EmojiTypeOK, StageInv
<1>2. CASE CompilePrompt
  BY <1>1, <1>2, ImageKeepsPlan DEF CompilePrompt
<1>3. CASE GiveUp
  BY <1>1, <1>3, ImageKeepsPlan DEF GiveUp, End
<1>4. CASE RequestImage
  BY <1>1, <1>4, ImageKeepsPlan DEF RequestImage
<1>5. CASE ServeImage
  BY <1>1, <1>5, ImageKeepsPlan DEF ServeImage
<1>6. CASE ImageArrives
  BY <1>1, <1>6, ImageKeepsPlan DEF ImageArrives, End
<1>7. CASE ImageFails
  <2>1. PICK answered \in {"refusal", "lost", "unreadable"} :
          /\ answered = "refusal" => paidImage = "refused"
          /\ End(IF ImageCommitted(answered) THEN "DEPENDENCY_FAILURE_AFTER_COMMIT"
                                             ELSE "DEPENDENCY_FAILURE")
    BY <1>7 DEF ImageFails
  <2>2. stage = "rendering" /\ stage' = "ended" /\ paidImage' = paidImage
        /\ emojiAttempt' \in {"DEPENDENCY_FAILURE_AFTER_COMMIT", "DEPENDENCY_FAILURE"}
        /\ (emojiAttempt' = "DEPENDENCY_FAILURE" => paidImage = "refused")
        /\ UNCHANGED <<brief, signal, pending, planVars, offered, answer, correction, planOutcome,
                       records>>
    BY <1>7, <2>1 DEF ImageFails, End, ImageCommitted
  <2> QED
    BY <1>1, <2>2, ImageKeepsPlan
<1> QED
  BY <1>2, <1>3, <1>4, <1>5, <1>6, <1>7

LEMMA SignalStep ==
  ASSUME PlanInv, SignalFires \/ UNCHANGED emojiVars PROVE PlanInv'
<1>1. UNCHANGED <<brief, stage, pending, planVars, offered, answer, correction, planOutcome,
                  records, paidImage, emojiAttempt>>
      /\ (signal' \in {"deadline", "caller"} \/ signal' = signal)
  BY DEF SignalFires, emojiVars
<1>2. UNCHANGED <<modelCalls, calls, completedSearches, failed, repairing, research>>
  BY <1>1 DEF planVars
<1>3. EmojiTypeOK'
  BY <1>1, <1>2 DEF PlanInv, EmojiTypeOK
<1>4. SessionCounts'
  BY <1>1, <1>2 DEF PlanInv, SessionCounts
<1>5. RecordsInv' /\ MaterialIds' = MaterialIds
  BY <1>1, <1>2, SameRecords, SameMaterial DEF PlanInv
<1>6. (SearchAllowed' <=> SearchAllowed) /\ (AcceptedIsGood => AcceptedIsGood')
  BY <1>1, <1>2, GoodStays DEF SearchAllowed
<1>7. StageInv'
  BY <1>1, <1>2, <1>5, <1>6 DEF PlanInv, StageInv
<1> QED
  BY <1>3, <1>4, <1>5, <1>7 DEF PlanInv

LEMMA PlanStep == PlanInv /\ [EmojiNext]_emojiVars => PlanInv'
<1> SUFFICES ASSUME PlanInv, [EmojiNext]_emojiVars PROVE PlanInv'
  OBVIOUS
<1>1. CASE SignalFires \/ UNCHANGED emojiVars
  BY <1>1, SignalStep
<1>2. CASE OpenSession
  BY <1>2, OpenSessionStep
<1>3. CASE AskModel
  BY <1>3, AskModelStep
<1>4. CASE RefuseRequest \/ ModelFails \/ SessionAborted \/ RejectIncomplete \/ Reject
  BY <1>4, FailuresStep
<1>5. CASE ModelCallsUnknownTool
  BY <1>5, UnknownToolStep
<1>6. CASE ToolsDone
  BY <1>6, ToolsDoneStep
<1>7. CASE RefuseSearch
  BY <1>7, RefuseSearchStep
<1>8. CASE StartSearch
  BY <1>8, StartSearchStep
<1>9. CASE SearchTimesOut
  <2>1. FailedResearch \in AnyResearch
    BY DEF AnyResearch
  <2> QED
    BY <1>9, <2>1, SearchEndsStep DEF SearchTimesOut
<1>10. CASE SearchAborted
  BY <1>10, SearchAbortedStep
<1>11. CASE Repair
  BY <1>11, RepairStep
<1>12. CASE Accept
  BY <1>12, AcceptStep
<1>13. CASE CompilePrompt \/ GiveUp \/ RequestImage \/ ServeImage \/ ImageArrives \/ ImageFails
  BY <1>13, ImageSteps
<1>14. ASSUME NEW n \in 1..CallsPerAnswer, ModelCallsTool(n) PROVE PlanInv'
  BY <1>14, ModelToolsStep
<1>15. ASSUME NEW c \in Candidate, ModelOffers(c) PROVE PlanInv'
  BY <1>15, ModelOffersStep
<1>16. ASSUME NEW r \in Reply, SearchAnswers(r) PROVE PlanInv'
  <2>1. Research(r) \in AnyResearch
    BY DEF AnyResearch
  <2> QED
    BY <1>16, <2>1, SearchEndsStep DEF SearchAnswers
<1> QED
  BY <1>1, <1>2, <1>3, <1>4, <1>5, <1>6, <1>7, <1>8, <1>9, <1>10, <1>11, <1>12, <1>13, <1>14,
     <1>15, <1>16 DEF EmojiNext

\* Whatever the model offers and whenever the signal fires, the plan that
\* reaches the image service is one the request allows, a correction changes
\* what it was about, the session keeps its budget and a charge is reported
\* (src/src/processes/character-emoji/).
THEOREM PlanStaysConsistent == EmojiSpec => []PlanConsistent
BY PlanInit, PlanStep, PlanImplies, PTL DEF EmojiSpec
-----------------------------------------------------------------------------
(***************************************************************************)
(* One paid call for a key and one answer, for any requests, any number of *)
(* attempts of the run and any crashes of the server.                      *)
(***************************************************************************)

\* A handler that created the record, or works for the one that did.
Writing == {"creating", "claimed", "rendering", "delivering", "delivered", "recorded"}

Returned == \E b \in Attempt : call[b] \in {"returned", "delivered"}

\* Where a handler is tells what its client, its call, the record and the
\* promise are.
HandlerInv(a) ==
  /\ client[a].phase = "idle" => handler[a] = "none"
  /\ handler[a] # "none" => client[a].digest \in Digest
  /\ reply[a].kind # "none" => handler[a] = "gone"
  /\ handler[a] = "joined" => promise.state # "none" /\ promise.digest = Asked(a)
  /\ handler[a] \in {"none", "sent", "joined", "claiming", "reading", "creating", "claimed"}
       => call[a] = "none"
  /\ handler[a] = "reading" => record # NoRecord
  /\ handler[a] = "creating" => record = EmptyRecord
  /\ handler[a] \in {"claimed", "rendering", "delivering", "delivered"}
       => record = Pending(Asked(a))
  /\ handler[a] = "recorded" => record.state = "complete" /\ record.digest = Asked(a)
  /\ handler[a] \in {"creating", "claimed"} =>
       promise.state = "none" /\ \A b \in Attempt : call[b] = "none"
  /\ handler[a] \in {"rendering", "delivering", "delivered"} /\ SharesPromise =>
       promise.state # "none" /\ promise.digest = Asked(a)
  /\ handler[a] = "rendering" => call[a] # "returned"
  /\ handler[a] = "delivering" => call[a] = "returned"
  /\ handler[a] = "delivered" => call[a] = "delivered"

OneWriter ==
  \A a, b \in Attempt : handler[a] \in Writing /\ handler[b] \in Writing => a = b

\* The record is one of the four that its states stand for, and a promise that
\* was kept shows what the record shows.
RecordInv ==
  /\ \/ record = NoRecord
     \/ record = EmptyRecord
     \/ \E d \in Digest : record = Pending(d)
     \/ \E p \in Picture : record = Complete(p.digest, p) /\ call[p.by] = "delivered"
  /\ record = NoRecord => /\ promise.state = "none"
                          /\ \A a \in Attempt : handler[a] \notin Writing /\ call[a] = "none"
  /\ promise.state # "none" => SharesPromise
  /\ promise.state = "kept" =>
       record.state = "complete" /\ promise.picture = record.picture /\ promise.digest = record.digest
  /\ promise.state = "committed" => Returned

\* Answers are true when they are given and stay true.
AnswerInv(a) ==
  /\ reply[a].kind = "ok" => record.state = "complete" /\ reply[a].picture = record.picture
                             /\ record.digest = Asked(a)
  /\ reply[a].kind = "error" /\ process \in {"photo", "emoji"} /\ reply[a].error = "REJECTED"
       => call[a] = "none"
  /\ reply[a].kind = "error" /\ process = "crt" /\ reply[a].error = "UNAVAILABLE"
       => call[a] # "returned"
  /\ reply[a].kind = "error" /\ process = "crt" /\ reply[a].error = "INCOMPLETE" => Returned
  /\ process \in {"photo", "emoji"} /\ client[a].result = "DEPENDENCY_FAILURE"
       => call[a] = "none" /\ handler[a] = "gone"
  /\ process = "crt" /\ client[a].result = "DEPENDENCY_FAILURE_AFTER_COMMIT" => Returned

ImageInv ==
  /\ ImageTypeOK /\ OneCall /\ OneWriter /\ RecordInv
  /\ \A a \in Attempt : HandlerInv(a) /\ AnswerInv(a)

ClientRecord == [phase  : {"idle", "waiting", "done", "dead"},
                 digest : Digest \cup {None},
                 result : Result \cup {None}]
HandlerPhase == {"none", "sent", "joined", "claiming", "creating", "claimed", "reading",
                 "rendering", "delivering", "delivered", "recorded", "gone"}
CallState == {"none", "sent", "charged", "refused", "returned", "delivered"}
ReplyRecord == [kind    : {"none", "error", "ok"},
                error   : ErrorCode \cup {None},
                picture : Picture \cup {None}]

-----------------------------------------------------------------------------
(* What the routes make of a failure. *)

LEMMA Failures ==
  ASSUME ImageTypeOK, NEW f \in Failure
  PROVE  /\ Fail(f) \in ReplyRecord /\ Fail(f).kind = "error"
         /\ process \in {"photo", "emoji"} /\ Fail(f).error = "REJECTED" => f \in {"unreadable", "refused"}
         /\ process = "crt" /\ Fail(f).error = "INCOMPLETE" => f = "committed"
         /\ process = "crt" /\ Fail(f).error = "UNAVAILABLE" => f # "committed"
<1>1. process \in {"crt", "news", "photo", "emoji"}
  BY ServiceAssumption DEF ImageTypeOK, ImageProcess
<1>2. ErrorOf(f) \in ErrorCode
  BY <1>1 DEF ErrorOf, CrtError, NewsError, PhotoError, EmojiError, ErrorCode, Failure
<1>3. process \in {"photo", "emoji"} /\ ErrorOf(f) = "REJECTED" => f \in {"unreadable", "refused"}
  BY DEF ErrorOf, PhotoError, EmojiError
<1>4. process = "crt" /\ ErrorOf(f) = "INCOMPLETE" => f = "committed"
  BY DEF ErrorOf, CrtError
<1>5. process = "crt" /\ ErrorOf(f) = "UNAVAILABLE" => f # "committed"
  BY DEF ErrorOf, CrtError
<1> QED
  BY <1>2, <1>3, <1>4, <1>5 DEF Fail, ReplyRecord

LEMMA Reports ==
  ASSUME ImageTypeOK, NEW e
  PROVE  /\ FailureResult(e) \in Result
         /\ process \in {"photo", "emoji"} /\ FailureResult(e) = "DEPENDENCY_FAILURE" => e = "REJECTED"
         /\ process = "crt" /\ FailureResult(e) = "DEPENDENCY_FAILURE_AFTER_COMMIT" => e = "INCOMPLETE"
BY DEF FailureResult, Committed, CrtCommitted, PhotoCommitted, EmojiCommitted, Result

LEMMA Pictures ==
  ASSUME NEW p \in Picture
  PROVE  /\ Ok(p) \in ReplyRecord /\ Ok(p).kind = "ok" /\ Ok(p).picture = p
         /\ p.digest \in Digest /\ p.by \in Attempt
BY DEF Ok, ReplyRecord, Picture

\* What the shape of the record says of its fields.
LEMMA RecordShape ==
  ASSUME RecordInv
  PROVE  /\ record.state \in {"absent", "empty", "pending", "complete"}
         /\ record.state = "absent" => record = NoRecord
         /\ record.state = "empty" => record.digest = None
         /\ record.state = "pending" => record.digest \in Digest
         /\ record.state = "complete" =>
              /\ record.picture \in Picture /\ record.picture.digest = record.digest
              /\ record = Complete(record.digest, record.picture)
              /\ record.digest \in Digest
              /\ call[record.picture.by] = "delivered"
  <1>1. CASE record = NoRecord
    BY <1>1 DEF NoRecord
  <1>2. CASE record = EmptyRecord
    BY <1>2 DEF EmptyRecord
  <1>3. CASE \E d \in Digest : record = Pending(d)
    BY <1>3 DEF Pending
  <1>4. CASE \E p \in Picture : record = Complete(p.digest, p) /\ call[p.by] = "delivered"
    BY <1>4, Pictures DEF Complete
  <1> QED
    BY <1>1, <1>2, <1>3, <1>4 DEF RecordInv

LEMMA ImageInvInit == ImageInit => ImageInv
<1> SUFFICES ASSUME ImageInit PROVE ImageInv
  OBVIOUS
<1>1. ImageTypeOK
  BY ServiceAssumption DEF ImageInit, ImageTypeOK, NoRecord, NoPromise, NoReply
<1>2. OneCall /\ OneWriter /\ RecordInv
  BY DEF ImageInit, OneCall, OneWriter, RecordInv, Writing, NoPromise
<1>3. ASSUME NEW a \in Attempt PROVE HandlerInv(a) /\ AnswerInv(a)
  BY ServiceAssumption DEF ImageInit, HandlerInv, AnswerInv, NoReply, Result
<1> QED
  BY <1>1, <1>2, <1>3 DEF ImageInv

LEMMA HandlerSet ==
  ASSUME ImageTypeOK, NEW a \in Attempt, NEW to \in HandlerPhase,
         handler' = [handler EXCEPT ![a] = to]
  PROVE  /\ handler' \in [Attempt -> HandlerPhase] /\ handler'[a] = to
         /\ \A b \in Attempt : b # a => handler'[b] = handler[b]
BY DEF ImageTypeOK, HandlerPhase

LEMMA CallSet ==
  ASSUME ImageTypeOK, NEW a \in Attempt, NEW to \in CallState,
         call' = [call EXCEPT ![a] = to]
  PROVE  /\ call' \in [Attempt -> CallState] /\ call'[a] = to
         /\ \A b \in Attempt : b # a => call'[b] = call[b]
BY DEF ImageTypeOK, CallState

LEMMA AnswerSet ==
  ASSUME ImageTypeOK, NEW a \in Attempt, NEW r \in ReplyRecord, Answer(a, r)
  PROVE  /\ handler' \in [Attempt -> HandlerPhase] /\ handler'[a] = "gone"
         /\ \A b \in Attempt : b # a => handler'[b] = handler[b]
         /\ reply' \in [Attempt -> ReplyRecord] /\ reply'[a] = r
         /\ \A b \in Attempt : b # a => reply'[b] = reply[b]
BY DEF ImageTypeOK, HandlerPhase, ReplyRecord, Answer

-----------------------------------------------------------------------------
(* A handler looks around. *)

LEMMA LookSteps ==
  ASSUME ImageInv, NEW a \in Attempt, Join(a) \/ Arrive(a) \/ FindRecord(a)
  PROVE  ImageInv'
<1> USE DEF ImageInv
<1>1. /\ UNCHANGED <<process, client, outcome, call, record, promise, reply, crashes>>
      /\ \E from, to \in HandlerPhase :
           /\ handler[a] = from /\ handler' = [handler EXCEPT ![a] = to]
           /\ \/ from = "sent" /\ to = "joined" /\ promise.state # "none" /\ promise.digest = Asked(a)
              \/ from = "sent" /\ to = "claiming"
              \/ from = "claiming" /\ to = "reading" /\ record # NoRecord
  BY DEF Join, Arrive, FindRecord, Goto, HasPromise, HandlerPhase, NoRecord
<1>2. PICK to \in HandlerPhase :
        /\ handler' = [handler EXCEPT ![a] = to]
        /\ \/ handler[a] = "sent" /\ to = "joined" /\ promise.state # "none" /\ promise.digest = Asked(a)
           \/ handler[a] = "sent" /\ to = "claiming"
           \/ handler[a] = "claiming" /\ to = "reading" /\ record # NoRecord
  BY <1>1
<1>3. /\ handler' \in [Attempt -> HandlerPhase] /\ handler'[a] = to
      /\ \A b \in Attempt : b # a => handler'[b] = handler[b]
  BY <1>2, HandlerSet
<1>4. ImageTypeOK'
  BY <1>1, <1>3 DEF ImageTypeOK, HandlerPhase, Picture
<1>5. OneCall' /\ OneWriter' /\ RecordInv'
  BY <1>1, <1>2, <1>3 DEF OneCall, OneWriter, RecordInv, Writing, Returned, SharesPromise
<1>6. ASSUME NEW b \in Attempt PROVE HandlerInv(b)' /\ AnswerInv(b)'
  <2>1. HandlerInv(b) /\ AnswerInv(b)
    OBVIOUS
  <2>2. CASE b = a
    <3>1. HandlerInv(b)'
      BY <2>1, <2>2, <1>1, <1>2, <1>3 DEF HandlerInv, Asked, SharesPromise
    <3>2. AnswerInv(b)'
      BY <2>1, <2>2, <1>1, <1>2, <1>3 DEF AnswerInv, Asked, Returned, HandlerInv
    <3> QED
      BY <3>1, <3>2
  <2>3. CASE b # a
    BY <2>1, <2>3, <1>1, <1>3 DEF HandlerInv, AnswerInv, Asked, SharesPromise, Returned
  <2> QED
    BY <2>2, <2>3
<1> QED
  BY <1>4, <1>5, <1>6

-----------------------------------------------------------------------------
(* A handler answers. *)

\* An answer is sound if what it says is so; giving it disturbs nothing else.
LEMMA AnswerKeeps ==
  ASSUME ImageInv, NEW a \in Attempt, NEW r \in ReplyRecord, Answer(a, r), handler[a] # "none",
         handler[a] # "gone",
         UNCHANGED <<process, client, outcome, call, record, promise, crashes>>,
         r.kind = "ok" => record.state = "complete" /\ r.picture = record.picture
                          /\ record.digest = Asked(a),
         r.kind = "error" /\ process \in {"photo", "emoji"} /\ r.error = "REJECTED" => call[a] = "none",
         r.kind = "error" /\ process = "crt" /\ r.error = "UNAVAILABLE" => call[a] # "returned",
         r.kind = "error" /\ process = "crt" /\ r.error = "INCOMPLETE" => Returned
  PROVE  ImageInv'
<1> USE DEF ImageInv
<1>1. /\ handler' \in [Attempt -> HandlerPhase] /\ handler'[a] = "gone"
      /\ \A b \in Attempt : b # a => handler'[b] = handler[b]
      /\ reply' \in [Attempt -> ReplyRecord] /\ reply'[a] = r
      /\ \A b \in Attempt : b # a => reply'[b] = reply[b]
  BY AnswerSet
<1>2. ImageTypeOK'
  BY <1>1 DEF ImageTypeOK, HandlerPhase, ReplyRecord, Picture
<1>3. OneCall' /\ OneWriter' /\ RecordInv'
  BY <1>1 DEF OneCall, OneWriter, RecordInv, Writing, Returned, SharesPromise
<1>4. ASSUME NEW b \in Attempt PROVE HandlerInv(b)' /\ AnswerInv(b)'
  <2>1. HandlerInv(b) /\ AnswerInv(b)
    OBVIOUS
  <2>2. CASE b = a
    <3>1. HandlerInv(b)'
      BY <2>1, <2>2, <1>1 DEF HandlerInv
    <3>2. AnswerInv(b)'
      BY <2>1, <2>2, <1>1 DEF AnswerInv, Asked, Returned
    <3> QED
      BY <3>1, <3>2
  <2>3. CASE b # a
    BY <2>1, <2>3, <1>1 DEF HandlerInv, AnswerInv, Asked, SharesPromise, Returned
  <2> QED
    BY <2>2, <2>3
<1> QED
  BY <1>2, <1>3, <1>4

LEMMA AnswerSteps ==
  ASSUME ImageInv, NEW a \in Attempt,
         RejectDigest(a) \/ AnswerJoined(a) \/ ClaimFails(a) \/ ReadRecord(a) \/ RefuseAborted(a)
         \/ AnswerRecorded(a)
  PROVE  ImageInv'
<1>0. ImageTypeOK /\ RecordInv /\ HandlerInv(a)
  BY DEF ImageInv
<1>1. UNCHANGED <<process, client, outcome, call, record, promise, crashes>>
  BY DEF RejectDigest, AnswerJoined, ClaimFails, ReadRecord, RefuseAborted, AnswerRecorded
<1>2. ASSUME NEW f \in Failure, Answer(a, Fail(f)), handler[a] \notin {"none", "gone"},
             call[a] = "none",
             f = "committed" => Returned
      PROVE  ImageInv'
  BY <1>0, <1>1, <1>2, Failures, AnswerKeeps
<1>3. ASSUME Answer(a, Ok(record.picture)), handler[a] \notin {"none", "gone"},
             record.state = "complete", record.digest = Asked(a)
      PROVE  ImageInv'
  <2>1. record.picture \in Picture
    BY <1>0, <1>3, RecordShape
  <2> QED
    BY <1>0, <1>1, <1>3, <2>1, Pictures, AnswerKeeps
<1>4. CASE RejectDigest(a)
  BY <1>0, <1>2, <1>4 DEF RejectDigest, Failure, HandlerInv
<1>5. CASE AnswerJoined(a)
  <2>1. handler[a] = "joined" /\ call[a] = "none" /\ promise.state \in {"kept", "failed", "committed"}
        /\ promise.digest = Asked(a)
        /\ Answer(a, IF promise.state = "kept" THEN Ok(promise.picture) ELSE Fail(promise.state))
    BY <1>5, <1>0 DEF AnswerJoined, HandlerInv
  <2>2. CASE promise.state = "kept"
    BY <2>1, <2>2, <1>0, <1>3 DEF RecordInv
  <2>3. CASE promise.state # "kept"
    <3>1. promise.state \in Failure /\ Answer(a, Fail(promise.state))
      BY <2>1, <2>3 DEF Failure
    <3>2. promise.state = "committed" => Returned
      BY <1>0 DEF RecordInv
    <3> QED
      BY <2>1, <3>1, <3>2, <1>2
  <2> QED
    BY <2>2, <2>3
<1>6. CASE ClaimFails(a)
  BY <1>0, <1>2, <1>6 DEF ClaimFails, Failure, HandlerInv
<1>7. CASE ReadRecord(a)
  <2>1. handler[a] = "reading" /\ call[a] = "none" /\ Answer(a, Reading(Asked(a)))
        /\ record.state \in {"empty", "pending", "complete"}
    <3>1. handler[a] = "reading" /\ Answer(a, Reading(Asked(a)))
      BY <1>7 DEF ReadRecord
    <3>2. record.state # "absent"
      BY <3>1, <1>0, RecordShape DEF NoRecord, HandlerInv
    <3> QED
      BY <3>1, <3>2, <1>0, RecordShape DEF HandlerInv
  <2>2. CASE record.state = "empty"
    BY <2>1, <2>2, <1>2 DEF Reading, Failure
  <2>3. CASE record.state # "empty" /\ record.digest # Asked(a)
    BY <2>1, <2>3, <1>2 DEF Reading, Failure
  <2>4. CASE record.state = "pending" /\ record.digest = Asked(a)
    BY <2>1, <2>4, <1>2 DEF Reading, Failure
  <2>5. CASE record.state = "complete" /\ record.digest = Asked(a)
    BY <2>1, <2>5, <1>3 DEF Reading
  <2> QED
    BY <2>1, <2>2, <2>3, <2>4, <2>5
<1>8. CASE RefuseAborted(a)
  BY <1>0, <1>2, <1>8 DEF RefuseAborted, Failure, HandlerInv
<1>9. CASE AnswerRecorded(a)
  BY <1>0, <1>3, <1>9 DEF AnswerRecorded, HandlerInv
<1> QED
  BY <1>4, <1>5, <1>6, <1>7, <1>8, <1>9

-----------------------------------------------------------------------------
(* The handler that claimed the key. *)

PromiseRecord == [state   : {"none", "open", "kept", "failed", "committed"},
                  digest  : Digest \cup {None},
                  picture : Picture \cup {None}]

LEMMA SettleSet ==
  ASSUME ImageTypeOK, NEW a \in Attempt, Asked(a) \in Digest,
         NEW state \in {"open", "kept", "failed", "committed"}, NEW pic \in Picture \cup {None},
         Settle(a, state, pic)
  PROVE  /\ promise' \in PromiseRecord
         /\ SharesPromise => /\ promise'.state = state /\ promise'.digest = Asked(a)
                             /\ promise'.picture = pic
         /\ ~SharesPromise => promise' = promise
BY DEF Settle, PromiseRecord, ImageTypeOK

\* A handler that fails settles the promise and answers.
LEMMA SettledAnswerKeeps ==
  ASSUME ImageInv, NEW a \in Attempt, NEW f \in {"failed", "committed"},
         handler[a] \in {"claimed", "rendering", "delivering", "delivered"},
         f = "committed" => call[a] \in {"returned", "delivered"},
         f = "failed" /\ process = "crt" => call[a] # "returned",
         Answer(a, Fail(f)), Settle(a, f, None),
         UNCHANGED <<process, client, outcome, call, record, crashes>>
  PROVE  ImageInv'
<1> USE DEF ImageInv
<1>0. HandlerInv(a) /\ Asked(a) \in Digest /\ f \in Failure /\ SharesPromise' = SharesPromise
      /\ (f = "committed" => Returned)
  BY DEF HandlerInv, Asked, Failure, SharesPromise, Returned
<1>1. /\ promise' \in PromiseRecord
      /\ SharesPromise => promise'.state = f /\ promise'.digest = Asked(a)
      /\ ~SharesPromise => promise' = promise
  BY <1>0, SettleSet
<1>2. /\ Fail(f) \in ReplyRecord /\ Fail(f).kind = "error"
      /\ ~(process \in {"photo", "emoji"} /\ Fail(f).error = "REJECTED")
      /\ process = "crt" /\ Fail(f).error = "INCOMPLETE" => f = "committed"
      /\ process = "crt" /\ Fail(f).error = "UNAVAILABLE" => f = "failed"
  BY <1>0, Failures
<1>3. /\ handler' \in [Attempt -> HandlerPhase] /\ handler'[a] = "gone"
      /\ \A b \in Attempt : b # a => handler'[b] = handler[b]
      /\ reply' \in [Attempt -> ReplyRecord] /\ reply'[a] = Fail(f)
      /\ \A b \in Attempt : b # a => reply'[b] = reply[b]
  BY <1>2, AnswerSet
<1>4. ImageTypeOK'
  BY <1>1, <1>3 DEF ImageTypeOK, HandlerPhase, ReplyRecord, PromiseRecord, Picture
<1>5. record = Pending(Asked(a)) /\ record # NoRecord /\ record.state = "pending"
  BY <1>0 DEF HandlerInv, Pending, NoRecord
<1>6. OneCall' /\ OneWriter'
  BY <1>3 DEF OneCall, OneWriter, Writing
<1>7. RecordInv'
  BY <1>0, <1>1, <1>5 DEF RecordInv, Returned, SharesPromise
<1>8. \A b \in Attempt : handler[b] \in Writing => b = a
  BY DEF OneWriter, Writing
<1>9. ASSUME NEW b \in Attempt PROVE HandlerInv(b)' /\ AnswerInv(b)'
  <2>1. HandlerInv(b) /\ AnswerInv(b)
    OBVIOUS
  <2>2. CASE b = a
    <3>1. HandlerInv(b)'
      BY <2>1, <2>2, <1>3 DEF HandlerInv
    <3>2. AnswerInv(b)'
      BY <2>1, <2>2, <1>0, <1>2, <1>3 DEF AnswerInv, Asked, Returned
    <3> QED
      BY <3>1, <3>2
  <2>3. CASE b # a
    <3>1. handler[b] \notin Writing
      BY <1>8, <2>3
    <3>2. handler[b] = "joined" => promise'.state # "none" /\ promise'.digest = Asked(b)
      <4>1. SUFFICES ASSUME handler[b] = "joined" PROVE promise'.state # "none" /\ promise'.digest = Asked(b)
        OBVIOUS
      <4>2. promise.state # "none" /\ promise.digest = Asked(b) /\ SharesPromise
        BY <2>1, <4>1 DEF HandlerInv, RecordInv
      <4>3. handler[a] # "claimed"
        BY <1>0, <4>2 DEF HandlerInv
      <4> QED
        BY <1>0, <1>1, <4>2, <4>3 DEF HandlerInv
    <3>3. HandlerInv(b)'
      BY <2>1, <2>3, <1>3, <3>1, <3>2 DEF HandlerInv, Asked, Writing
    <3>4. AnswerInv(b)'
      BY <2>1, <2>3, <1>3 DEF AnswerInv, Asked, Returned
    <3> QED
      BY <3>3, <3>4
  <2> QED
    BY <2>2, <2>3
<1> QED
  BY <1>4, <1>6, <1>7, <1>9

LEMMA FailSteps ==
  ASSUME ImageInv, NEW a \in Attempt, EditFails(a) \/ DeliveryFails(a) \/ RecordFails(a)
  PROVE  ImageInv'
<1>0. HandlerInv(a) /\ ImageTypeOK
  BY DEF ImageInv
<1>1. CASE EditFails(a)
  BY <1>0, <1>1, SettledAnswerKeeps DEF EditFails, HandlerInv
<1>2. CASE DeliveryFails(a)
  <2>1. PICK f \in {"failed", "committed"} :
          Answer(a, Fail(f)) /\ Settle(a, f, None) /\ (process = "crt" => f = "committed")
    BY <1>2 DEF DeliveryFails
  <2> QED
    BY <1>0, <1>2, <2>1, SettledAnswerKeeps DEF DeliveryFails, HandlerInv
<1>3. CASE RecordFails(a)
  <2>1. PICK f \in {"failed", "committed"} : Answer(a, Fail(f)) /\ Settle(a, f, None)
    BY <1>3 DEF RecordFails
  <2> QED
    BY <1>0, <1>3, <2>1, SettledAnswerKeeps DEF RecordFails, HandlerInv
<1> QED
  BY <1>1, <1>2, <1>3

LEMMA ClaimSteps ==
  ASSUME ImageInv, NEW a \in Attempt, CreateRecord(a) \/ WriteRecord(a)
  PROVE  ImageInv'
<1> USE DEF ImageInv
<1>0. HandlerInv(a) /\ RecordInv
  OBVIOUS
<1>1. UNCHANGED <<process, client, outcome, call, promise, reply, crashes>>
  BY DEF CreateRecord, WriteRecord
<1>2. /\ promise.state = "none" /\ \A b \in Attempt : call[b] = "none"
      /\ \A b \in Attempt : b # a => handler[b] \notin Writing
      /\ record.state \in {"absent", "empty"} /\ handler[a] \in {"claiming", "creating"}
  <2>1. CASE CreateRecord(a)
    <3>1. record.state = "absent" /\ handler[a] = "claiming"
      BY <2>1 DEF CreateRecord, Goto
    <3>2. record = NoRecord
      BY <3>1, <1>0, RecordShape
    <3> QED
      BY <3>1, <3>2, <1>0 DEF RecordInv
  <2>2. CASE WriteRecord(a)
    <3>1. handler[a] = "creating"
      BY <2>2 DEF WriteRecord, Goto
    <3>2. record.state = "empty"
      BY <3>1, <1>0 DEF HandlerInv, EmptyRecord
    <3> QED
      BY <3>1, <3>2, <1>0 DEF HandlerInv, OneWriter, Writing
  <2> QED
    BY <2>1, <2>2
<1>3. \/ record' = EmptyRecord /\ handler' = [handler EXCEPT ![a] = "creating"]
      \/ record' = Pending(Asked(a)) /\ handler' = [handler EXCEPT ![a] = "claimed"]
  BY DEF CreateRecord, WriteRecord, Goto
<1>4. Asked(a) \in Digest
  BY <1>0, <1>2 DEF HandlerInv, Asked
<1>5. /\ handler' \in [Attempt -> HandlerPhase]
      /\ \/ record' = EmptyRecord /\ handler'[a] = "creating"
         \/ record' = Pending(Asked(a)) /\ handler'[a] = "claimed"
      /\ \A b \in Attempt : b # a => handler'[b] = handler[b]
  BY <1>3, HandlerSet DEF HandlerPhase
<1>6. record' # NoRecord /\ record'.state \in {"empty", "pending"}
      /\ record' \in [state : {"absent", "empty", "pending", "complete"},
                      digest : Digest \cup {None}, picture : Picture \cup {None}]
  BY <1>4, <1>5 DEF EmptyRecord, Pending, NoRecord
<1>7. ImageTypeOK'
  BY <1>1, <1>5, <1>6 DEF ImageTypeOK, HandlerPhase, Picture
<1>8. OneCall' /\ OneWriter'
  BY <1>1, <1>2, <1>5 DEF OneCall, OneWriter
<1>9. RecordInv'
  BY <1>1, <1>2, <1>4, <1>5, <1>6 DEF RecordInv
<1>10. ASSUME NEW b \in Attempt PROVE HandlerInv(b)' /\ AnswerInv(b)'
  <2>1. HandlerInv(b) /\ AnswerInv(b)
    OBVIOUS
  <2>2. reply[b].kind # "ok"
    BY <2>1, <1>2 DEF AnswerInv
  <2>3. AnswerInv(b)'
    <3>1. handler[b] = "gone" => handler'[b] = "gone"
      BY <1>2, <1>5
    <3> QED
      BY <2>1, <2>2, <3>1, <1>1 DEF AnswerInv, Returned
  <2>4. HandlerInv(b)'
    <3>1. CASE b = a
      BY <2>1, <3>1, <1>1, <1>2, <1>5, <1>6 DEF HandlerInv, Asked
    <3>2. CASE b # a
      <4>1. handler[b] \notin Writing
        BY <3>2, <1>2
      <4> QED
        BY <2>1, <3>2, <4>1, <1>1, <1>5, <1>6 DEF HandlerInv, Asked, Writing
    <3> QED
      BY <3>1, <3>2
  <2> QED
    BY <2>3, <2>4
<1> QED
  BY <1>7, <1>8, <1>9, <1>10

LEMMA DispatchStep ==
  ASSUME ImageInv, NEW a \in Attempt, Dispatch(a)
  PROVE  ImageInv'
<1> USE DEF ImageInv
<1>1. /\ handler[a] = "claimed" /\ handler' = [handler EXCEPT ![a] = "rendering"]
      /\ call' = [call EXCEPT ![a] = "sent"] /\ Settle(a, "open", None)
      /\ UNCHANGED <<process, client, outcome, record, reply, crashes>>
  BY DEF Dispatch, Goto
<1>2. /\ promise.state = "none" /\ \A b \in Attempt : call[b] = "none"
      /\ \A b \in Attempt : b # a => handler[b] \notin Writing
      /\ record = Pending(Asked(a)) /\ Asked(a) \in Digest /\ reply[a].kind = "none"
      /\ record.state = "pending" /\ record # NoRecord
  BY <1>1 DEF HandlerInv, OneWriter, Writing, Asked, Pending, NoRecord, ImageTypeOK
<1>3. /\ handler' \in [Attempt -> HandlerPhase] /\ handler'[a] = "rendering"
      /\ \A b \in Attempt : b # a => handler'[b] = handler[b]
      /\ call' \in [Attempt -> CallState] /\ call'[a] = "sent"
      /\ \A b \in Attempt : b # a => call'[b] = call[b]
  BY <1>1, HandlerSet, CallSet DEF HandlerPhase, CallState
<1>4. /\ promise' \in PromiseRecord
      /\ SharesPromise => promise'.state = "open" /\ promise'.digest = Asked(a)
      /\ ~SharesPromise => promise' = promise
  BY <1>1, <1>2, SettleSet
<1>5. ImageTypeOK'
  BY <1>1, <1>3, <1>4 DEF ImageTypeOK, HandlerPhase, CallState, PromiseRecord, Picture
<1>6. OneCall' /\ OneWriter'
  BY <1>2, <1>3 DEF OneCall, OneWriter
<1>7. RecordInv'
  BY <1>1, <1>2, <1>4 DEF RecordInv, SharesPromise
<1>8. ASSUME NEW b \in Attempt PROVE HandlerInv(b)' /\ AnswerInv(b)'
  <2>1. HandlerInv(b) /\ AnswerInv(b) /\ ~Returned
    BY <1>2 DEF Returned
  <2>2. AnswerInv(b)'
    BY <2>1, <1>1, <1>2, <1>3 DEF AnswerInv, Asked
  <2>3. HandlerInv(b)'
    <3>1. CASE b = a
      BY <2>1, <3>1, <1>1, <1>2, <1>3, <1>4 DEF HandlerInv, Asked, SharesPromise
    <3>2. CASE b # a
      <4>1. handler[b] \notin Writing /\ handler[b] # "joined"
        BY <2>1, <3>2, <1>2 DEF HandlerInv
      <4> QED
        BY <2>1, <3>2, <4>1, <1>1, <1>3 DEF HandlerInv, Asked, Writing
    <3> QED
      BY <3>1, <3>2
  <2> QED
    BY <2>2, <2>3
<1> QED
  BY <1>5, <1>6, <1>7, <1>8

\* The provider's side of a call, and its answer.
LEMMA CallSteps ==
  ASSUME ImageInv, NEW a \in Attempt,
         EditReturns(a) \/ Deliver(a) \/ ProviderCharges(a) \/ ProviderRefuses(a)
  PROVE  ImageInv'
<1> USE DEF ImageInv
<1>1. /\ UNCHANGED <<process, client, outcome, record, promise, reply, crashes>>
      /\ \/ /\ handler[a] = "rendering" /\ handler' = [handler EXCEPT ![a] = "delivering"]
            /\ call[a] = "charged" /\ call' = [call EXCEPT ![a] = "returned"]
         \/ /\ handler[a] = "delivering" /\ handler' = [handler EXCEPT ![a] = "delivered"]
            /\ call' = [call EXCEPT ![a] = "delivered"]
         \/ /\ UNCHANGED handler /\ call[a] = "sent"
            /\ \E to \in {"charged", "refused"} : call' = [call EXCEPT ![a] = to]
  BY DEF EditReturns, Deliver, ProviderCharges, ProviderRefuses, Goto
<1>2. /\ handler' \in [Attempt -> HandlerPhase] /\ call' \in [Attempt -> CallState]
      /\ \/ /\ handler[a] = "rendering" /\ handler'[a] = "delivering"
            /\ call[a] = "charged" /\ call'[a] = "returned"
         \/ /\ handler[a] = "delivering" /\ handler'[a] = "delivered"
            /\ call[a] = "returned" /\ call'[a] = "delivered"
         \/ /\ handler'[a] = handler[a] /\ call[a] = "sent" /\ call'[a] \in {"charged", "refused"}
      /\ \A b \in Attempt : b # a => handler'[b] = handler[b] /\ call'[b] = call[b]
  <2>1. CASE handler[a] = "rendering" /\ handler' = [handler EXCEPT ![a] = "delivering"]
             /\ call[a] = "charged" /\ call' = [call EXCEPT ![a] = "returned"]
    BY <2>1, HandlerSet, CallSet DEF HandlerPhase, CallState
  <2>3. CASE handler[a] = "delivering" /\ handler' = [handler EXCEPT ![a] = "delivered"]
             /\ call' = [call EXCEPT ![a] = "delivered"]
    <3>1. call[a] = "returned"
      BY <2>3 DEF HandlerInv
    <3> QED
      BY <2>3, <3>1, HandlerSet, CallSet DEF HandlerPhase, CallState
  <2>2. CASE UNCHANGED handler /\ call[a] = "sent"
             /\ \E to \in {"charged", "refused"} : call' = [call EXCEPT ![a] = to]
    BY <2>2, CallSet DEF CallState, HandlerPhase, ImageTypeOK
  <2> QED
    BY <1>1, <2>1, <2>2, <2>3
<1>3. ImageTypeOK'
  BY <1>1, <1>2 DEF ImageTypeOK, HandlerPhase, CallState, Picture
<1>4. OneCall' /\ OneWriter'
  BY <1>2 DEF OneCall, OneWriter, Writing
<1>5. /\ \A b \in Attempt : call'[b] = "none" <=> call[b] = "none"
      /\ \A b \in Attempt : call[b] = "delivered" => call'[b] = "delivered"
      /\ \A b \in Attempt : handler[b] = "gone" => (call'[b] = "returned" <=> call[b] = "returned")
      /\ Returned => Returned'
  BY <1>2 DEF Returned
<1>6. RecordInv'
  <2>1. ASSUME NEW p \in Picture, call[p.by] = "delivered" PROVE call'[p.by] = "delivered"
    BY <2>1, <1>5, Pictures
  <2>2. \A b \in Attempt : handler'[b] \in Writing => handler[b] \in Writing
    BY <1>2 DEF Writing
  <2> QED
    BY <1>1, <1>5, <2>1, <2>2 DEF RecordInv, SharesPromise
<1>7. ASSUME NEW b \in Attempt PROVE HandlerInv(b)' /\ AnswerInv(b)'
  <2>1. HandlerInv(b) /\ AnswerInv(b)
    OBVIOUS
  <2>2. AnswerInv(b)'
    <3>1. handler[b] = "gone" => handler'[b] = "gone"
      BY <1>2
    <3> QED
      BY <2>1, <3>1, <1>1, <1>5 DEF AnswerInv, HandlerInv, Asked
  <2>3. HandlerInv(b)'
    <3>1. CASE b = a
      BY <2>1, <3>1, <1>1, <1>2, <1>5 DEF HandlerInv, Asked, SharesPromise
    <3>2. CASE b # a
      BY <2>1, <3>2, <1>1, <1>2, <1>5 DEF HandlerInv, Asked, SharesPromise
    <3> QED
      BY <3>1, <3>2
  <2> QED
    BY <2>2, <2>3
<1> QED
  BY <1>3, <1>4, <1>6, <1>7

LEMMA CompleteStep ==
  ASSUME ImageInv, NEW a \in Attempt, CompleteRecord(a)
  PROVE  ImageInv'
<1> USE DEF ImageInv
<1> DEFINE p == [digest |-> Asked(a), by |-> a]
<1>1. /\ handler[a] = "delivered" /\ handler' = [handler EXCEPT ![a] = "recorded"]
      /\ record' = Complete(Asked(a), p) /\ Settle(a, "kept", p)
      /\ UNCHANGED <<process, client, outcome, call, reply, crashes>>
  BY DEF CompleteRecord, Goto
<1>2. /\ Asked(a) \in Digest /\ call[a] = "delivered" /\ record.state = "pending"
      /\ reply[a].kind = "none"
      /\ (SharesPromise => promise.state # "none" /\ promise.digest = Asked(a))
      /\ \A b \in Attempt : b # a => handler[b] \notin Writing
  BY <1>1 DEF HandlerInv, OneWriter, Writing, Asked, Pending, ImageTypeOK
<1>3. p \in Picture /\ p.digest = Asked(a) /\ p.by = a
  BY <1>2 DEF Picture
<1> HIDE DEF p
<1>4. /\ handler' \in [Attempt -> HandlerPhase] /\ handler'[a] = "recorded"
      /\ \A b \in Attempt : b # a => handler'[b] = handler[b]
  BY <1>1, HandlerSet DEF HandlerPhase
<1>5. /\ promise' \in PromiseRecord
      /\ SharesPromise => /\ promise'.state = "kept" /\ promise'.digest = Asked(a)
                          /\ promise'.picture = p
      /\ ~SharesPromise => promise' = promise
  BY <1>1, <1>2, <1>3, SettleSet
<1>6. /\ record'.state = "complete" /\ record'.digest = Asked(a) /\ record'.picture = p
      /\ record' # NoRecord
      /\ record' \in [state : {"absent", "empty", "pending", "complete"},
                      digest : Digest \cup {None}, picture : Picture \cup {None}]
  BY <1>1, <1>2, <1>3 DEF Complete, NoRecord
<1>7. ImageTypeOK'
  BY <1>1, <1>4, <1>5, <1>6 DEF ImageTypeOK, HandlerPhase, PromiseRecord, Picture
<1>8. OneCall' /\ OneWriter'
  BY <1>1, <1>2, <1>4 DEF OneCall, OneWriter
<1>9. RecordInv'
  <2>1. record' = Complete(p.digest, p) /\ call'[p.by] = "delivered" /\ p \in Picture
    BY <1>1, <1>2, <1>3
  <2>2. promise'.state # "none" => SharesPromise
    BY <1>5 DEF RecordInv
  <2>3. promise'.state = "kept" =>
          record'.state = "complete" /\ promise'.picture = record'.picture /\ promise'.digest = record'.digest
    BY <1>5, <1>6, <2>2
  <2>4. promise'.state # "committed"
    BY <1>5, <2>2
  <2> QED
    BY <2>1, <2>2, <2>3, <2>4, <1>1, <1>6 DEF RecordInv, SharesPromise
<1>10. ASSUME NEW b \in Attempt PROVE HandlerInv(b)' /\ AnswerInv(b)'
  <2>1. HandlerInv(b) /\ AnswerInv(b)
    OBVIOUS
  <2>2. reply[b].kind # "ok" /\ (handler[b] = "gone" => handler'[b] = "gone")
    BY <2>1, <1>1, <1>2, <1>4 DEF AnswerInv
  <2>3. AnswerInv(b)'
    BY <2>1, <2>2, <1>1 DEF AnswerInv, Returned
  <2>4. HandlerInv(b)'
    <3>1. CASE b = a
      BY <2>1, <3>1, <1>1, <1>4, <1>6 DEF HandlerInv, Asked
    <3>2. CASE b # a
      <4>1. handler[b] \notin Writing
        BY <3>2, <1>2
      <4>2. handler[b] = "joined" => promise'.state # "none" /\ promise'.digest = Asked(b)
        <5> SUFFICES ASSUME handler[b] = "joined" PROVE promise'.state # "none" /\ promise'.digest = Asked(b)
          OBVIOUS
        <5>1. promise.state # "none" /\ promise.digest = Asked(b)
          BY <2>1 DEF HandlerInv
        <5>2. SharesPromise
          BY <5>1 DEF RecordInv
        <5>3. Asked(a) = Asked(b)
          BY <5>1, <5>2, <1>2
        <5> QED
          BY <5>2, <5>3, <1>5
      <4> QED
        BY <2>1, <3>2, <4>1, <4>2, <1>1, <1>4, <1>6 DEF HandlerInv, Asked, Writing
    <3> QED
      BY <3>1, <3>2
  <2> QED
    BY <2>3, <2>4
<1> QED
  BY <1>7, <1>8, <1>9, <1>10

-----------------------------------------------------------------------------
(* The attempts and the server's death. *)

\* An attempt ends: what it reports of money has to be true.
LEMMA EndKeeps ==
  ASSUME ImageInv, NEW a \in Attempt, NEW ph \in {"done", "dead"}, NEW res \in Result \cup {None},
         client' = [client EXCEPT ![a] = [client[a] EXCEPT !.phase = ph, !.result = res]],
         outcome' \in Result \cup {None},
         UNCHANGED <<process, handler, call, record, promise, reply, crashes>>,
         process \in {"photo", "emoji"} /\ res = "DEPENDENCY_FAILURE"
           => call[a] = "none" /\ handler[a] = "gone",
         process = "crt" /\ res = "DEPENDENCY_FAILURE_AFTER_COMMIT" => Returned
  PROVE  ImageInv'
<1> USE DEF ImageInv
<1>0. client \in [Attempt -> ClientRecord]
  BY DEF ImageTypeOK, ClientRecord
<1> DEFINE new == [client[a] EXCEPT !.phase = ph, !.result = res]
<1>1. new \in ClientRecord /\ new.phase = ph /\ new.digest = client[a].digest /\ new.result = res
      /\ client' = [client EXCEPT ![a] = new]
  BY <1>0 DEF ClientRecord
<1> HIDE DEF new
<1>2. /\ client' \in [Attempt -> ClientRecord] /\ client'[a] = new
      /\ \A b \in Attempt : b # a => client'[b] = client[b]
  BY <1>0, <1>1
<1>3. ImageTypeOK'
  BY <1>2 DEF ImageTypeOK, ClientRecord, Picture
<1>4. OneCall' /\ OneWriter' /\ RecordInv'
  BY DEF OneCall, OneWriter, RecordInv, Returned, SharesPromise
<1>5. ASSUME NEW b \in Attempt PROVE HandlerInv(b)' /\ AnswerInv(b)'
  <2>1. HandlerInv(b) /\ AnswerInv(b)
    OBVIOUS
  <2>2. client'[b].digest = client[b].digest /\ (client'[b].phase = "idle" => client[b].phase = "idle")
        /\ (b # a => client'[b] = client[b]) /\ (b = a => client'[b].result = res)
    BY <1>1, <1>2
  <2>3. HandlerInv(b)'
    BY <2>1, <2>2 DEF HandlerInv, Asked, SharesPromise
  <2>4. AnswerInv(b)'
    BY <2>1, <2>2 DEF AnswerInv, Asked, Returned
  <2> QED
    BY <2>3, <2>4
<1> QED
  BY <1>3, <1>4, <1>5

LEMMA PostStep ==
  ASSUME ImageInv, NEW a \in Attempt, NEW d \in Digest, Post(a, d)
  PROVE  ImageInv'
<1> USE DEF ImageInv
<1>0. client \in [Attempt -> ClientRecord] /\ HandlerInv(a)
  BY DEF ImageTypeOK, ClientRecord
<1> DEFINE new == [client[a] EXCEPT !.phase = "waiting", !.digest = d]
<1>1. /\ new \in ClientRecord /\ new.phase = "waiting" /\ new.digest = d
      /\ new.result = client[a].result
      /\ client' = [client EXCEPT ![a] = new]
  BY <1>0 DEF ClientRecord, Post
<1> HIDE DEF new
<1>2. /\ UNCHANGED <<process, outcome, call, record, promise, reply, crashes>>
      /\ handler[a] = "none" /\ handler' = [handler EXCEPT ![a] = "sent"]
  BY <1>0 DEF Post, Started, HandlerInv
<1>3. /\ client' \in [Attempt -> ClientRecord] /\ client'[a] = new
      /\ \A b \in Attempt : b # a => client'[b] = client[b]
      /\ handler' \in [Attempt -> HandlerPhase] /\ handler'[a] = "sent"
      /\ \A b \in Attempt : b # a => handler'[b] = handler[b]
  BY <1>0, <1>1, <1>2, HandlerSet DEF HandlerPhase
<1>4. ImageTypeOK'
  BY <1>2, <1>3 DEF ImageTypeOK, ClientRecord, HandlerPhase, Picture
<1>5. OneCall' /\ OneWriter' /\ RecordInv'
  BY <1>2, <1>3 DEF OneCall, OneWriter, RecordInv, Returned, SharesPromise, Writing
<1>6. ASSUME NEW b \in Attempt PROVE HandlerInv(b)' /\ AnswerInv(b)'
  <2>1. HandlerInv(b) /\ AnswerInv(b)
    OBVIOUS
  <2>2. CASE b = a
    <3>1. reply[a].kind = "none" /\ call[a] = "none"
      BY <1>2, <2>1, <2>2 DEF HandlerInv, ImageTypeOK
    <3>2. HandlerInv(a)'
      BY <3>1, <1>1, <1>2, <1>3 DEF HandlerInv
    <3>3. AnswerInv(a)'
      BY <3>1, <2>1, <2>2, <1>1, <1>2, <1>3 DEF AnswerInv, Returned
    <3> QED
      BY <2>2, <3>2, <3>3
  <2>3. CASE b # a
    BY <2>1, <2>3, <1>2, <1>3 DEF HandlerInv, AnswerInv, Asked, SharesPromise, Returned
  <2> QED
    BY <2>2, <2>3
<1> QED
  BY <1>4, <1>5, <1>6

LEMMA EndSteps ==
  ASSUME ImageInv, NEW a \in Attempt,
         CompileFails(a) \/ ReceiveAnswer(a) \/ LoseAnswer(a) \/ TimeOut(a) \/ WorkerDies(a)
  PROVE  ImageInv'
<1>0. /\ ImageTypeOK /\ HandlerInv(a) /\ AnswerInv(a) /\ client \in [Attempt -> ClientRecord]
      /\ outcome \in Result \cup {None}
  BY DEF ImageInv, ImageTypeOK, ClientRecord
<1>1. UNCHANGED <<process, handler, call, record, promise, reply, crashes>>
  BY DEF CompileFails, ReceiveAnswer, LoseAnswer, TimeOut, WorkerDies
<1>2. ASSUME NEW res \in Result, Finish(a, res),
             process \in {"photo", "emoji"} /\ res = "DEPENDENCY_FAILURE"
               => call[a] = "none" /\ handler[a] = "gone",
             process = "crt" /\ res = "DEPENDENCY_FAILURE_AFTER_COMMIT" => Returned
      PROVE  ImageInv'
  <2>1. client' = [client EXCEPT ![a] = [client[a] EXCEPT !.phase = "done", !.result = res]]
    BY <1>2 DEF Finish
  <2>2. outcome' \in Result \cup {None}
    BY <1>0, <1>2 DEF Finish
  <2> QED
    BY <1>1, <1>2, <2>1, <2>2, EndKeeps
<1>3. CASE CompileFails(a)
  <2>1. client' = [client EXCEPT ![a] = [client[a] EXCEPT !.phase = "done", !.result = "AGENT_FAILURE"]]
        /\ outcome' = "AGENT_FAILURE"
    BY <1>3 DEF CompileFails
  <2>2. "AGENT_FAILURE" \in Result
    BY DEF Result
  <2> QED
    BY <1>1, <2>1, <2>2, EndKeeps
<1>4. CASE ReceiveAnswer(a)
  <2>1. reply[a].kind \in {"ok", "error"} /\ handler[a] = "gone"
    BY <1>0, <1>4 DEF ReceiveAnswer, ImageTypeOK, HandlerInv
  <2>2. CASE reply[a].kind = "ok"
    BY <1>2, <1>4, <2>2 DEF ReceiveAnswer, Result
  <2>3. CASE reply[a].kind = "error"
    BY <1>0, <1>2, <1>4, <2>1, <2>3, Reports DEF ReceiveAnswer, AnswerInv
  <2> QED
    BY <2>1, <2>2, <2>3
<1>5. CASE LoseAnswer(a)
  <2>1. None # "REJECTED" /\ None # "INCOMPLETE"
    BY ServiceAssumption DEF ErrorCode
  <2> QED
    BY <1>0, <1>2, <1>5, <2>1, Reports DEF LoseAnswer
<1>6. CASE TimeOut(a)
  BY <1>2, <1>6 DEF TimeOut, Result
<1>7. CASE WorkerDies(a)
  <2>1. /\ client' = [client EXCEPT ![a].phase = "dead"] /\ outcome' = outcome
        /\ client[a] \in ClientRecord
    BY <1>0, <1>7 DEF WorkerDies
  <2>2. [client[a] EXCEPT !.phase = "dead"] = [client[a] EXCEPT !.phase = "dead", !.result = client[a].result]
        /\ client[a].result \in Result \cup {None}
    BY <2>1 DEF ClientRecord
  <2> DEFINE res == client[a].result
  <2>3. client' = [client EXCEPT ![a] = [client[a] EXCEPT !.phase = "dead", !.result = res]]
    BY <2>1, <2>2
  <2>4. /\ process \in {"photo", "emoji"} /\ res = "DEPENDENCY_FAILURE"
             => call[a] = "none" /\ handler[a] = "gone"
        /\ process = "crt" /\ res = "DEPENDENCY_FAILURE_AFTER_COMMIT" => Returned
    BY <1>0 DEF AnswerInv
  <2>5. PICK r : r = res
    OBVIOUS
  <2> HIDE DEF res
  <2> QED
    BY <1>0, <1>1, <2>1, <2>2, <2>3, <2>4, <2>5, EndKeeps DEF res
<1> QED
  BY <1>3, <1>4, <1>5, <1>6, <1>7

LEMMA ImageCrashStep == ImageInv /\ Crash => ImageInv'
<1> SUFFICES ASSUME ImageInv, Crash PROVE ImageInv'
  OBVIOUS
<1> USE DEF ImageInv
<1>1. /\ UNCHANGED <<process, client, outcome, call, record, reply>>
      /\ promise' = NoPromise /\ crashes' \in 0..CrashBound
      /\ handler' \in [Attempt -> HandlerPhase]
      /\ \A b \in Attempt : handler'[b] = IF handler[b] = "none" THEN "none" ELSE "gone"
  BY ServiceAssumption DEF Crash, ImageTypeOK, HandlerPhase
<1>2. promise'.state = "none" /\ promise' \in PromiseRecord
  BY <1>1 DEF NoPromise, PromiseRecord
<1>3. ImageTypeOK'
  BY <1>1, <1>2 DEF ImageTypeOK, HandlerPhase, PromiseRecord, Picture
<1>4. OneCall' /\ OneWriter' /\ RecordInv'
  BY <1>1, <1>2 DEF OneCall, OneWriter, RecordInv, Writing, Returned
<1>5. ASSUME NEW b \in Attempt PROVE HandlerInv(b)' /\ AnswerInv(b)'
  <2>1. HandlerInv(b) /\ AnswerInv(b) /\ handler'[b] \in {"none", "gone"}
        /\ (handler[b] = "none" <=> handler'[b] = "none")
    BY <1>1
  <2>2. HandlerInv(b)'
    BY <2>1, <1>1 DEF HandlerInv
  <2>3. AnswerInv(b)'
    BY <2>1, <1>1 DEF AnswerInv, Asked, Returned
  <2> QED
    BY <2>2, <2>3
<1> QED
  BY <1>3, <1>4, <1>5

LEMMA ImageInvStep == ImageInv /\ [ImageNext]_imageVars => ImageInv'
<1> SUFFICES ASSUME ImageInv, [ImageNext]_imageVars PROVE ImageInv'
  OBVIOUS
<1>1. CASE UNCHANGED imageVars
  BY <1>1 DEF imageVars, ImageInv, ImageTypeOK, OneCall, OneWriter, RecordInv, HandlerInv, AnswerInv,
              Returned, SharesPromise, Asked
<1>2. CASE Crash
  BY <1>2, ImageCrashStep
<1>3. ASSUME NEW a \in Attempt, NEW d \in Digest, Post(a, d) PROVE ImageInv'
  BY <1>3, PostStep
<1>4. ASSUME NEW a \in Attempt,
             CompileFails(a) \/ ReceiveAnswer(a) \/ LoseAnswer(a) \/ TimeOut(a) \/ WorkerDies(a)
      PROVE  ImageInv'
  BY <1>4, EndSteps
<1>5. ASSUME NEW a \in Attempt, Join(a) \/ Arrive(a) \/ FindRecord(a) PROVE ImageInv'
  BY <1>5, LookSteps
<1>6. ASSUME NEW a \in Attempt,
             RejectDigest(a) \/ AnswerJoined(a) \/ ClaimFails(a) \/ ReadRecord(a) \/ RefuseAborted(a)
             \/ AnswerRecorded(a)
      PROVE  ImageInv'
  BY <1>6, AnswerSteps
<1>7. ASSUME NEW a \in Attempt, EditFails(a) \/ DeliveryFails(a) \/ RecordFails(a) PROVE ImageInv'
  BY <1>7, FailSteps
<1>8. ASSUME NEW a \in Attempt, CreateRecord(a) \/ WriteRecord(a) PROVE ImageInv'
  BY <1>8, ClaimSteps
<1>9. ASSUME NEW a \in Attempt, Dispatch(a) PROVE ImageInv'
  BY <1>9, DispatchStep
<1>10. ASSUME NEW a \in Attempt,
              EditReturns(a) \/ Deliver(a) \/ ProviderCharges(a) \/ ProviderRefuses(a)
       PROVE  ImageInv'
  BY <1>10, CallSteps
<1>11. ASSUME NEW a \in Attempt, CompleteRecord(a) PROVE ImageInv'
  BY <1>11, CompleteStep
<1> QED
  BY <1>1, <1>2, <1>3, <1>4, <1>5, <1>6, <1>7, <1>8, <1>9, <1>10, <1>11 DEF ImageNext

LEMMA ImageInvAlways == ImageSpec => []ImageInv
  BY ImageInvInit, ImageInvStep, PTL DEF ImageSpec

LEMMA ImageInvImplies == ImageInv => ImageConsistent
<1> SUFFICES ASSUME ImageInv PROVE ImageConsistent
  OBVIOUS
<1>1. ImageTypeOK /\ OneCall /\ RecordInv /\ \A a \in Attempt : HandlerInv(a) /\ AnswerInv(a)
  BY DEF ImageInv
<1>2. AnswersAgree
  BY <1>1, RecordShape DEF AnswersAgree, AnswerInv
<1>3. ReportsAreHonest
  BY <1>1 DEF ReportsAreHonest, Told, AnswerInv, Returned
<1> QED
  BY <1>1, <1>2, <1>3 DEF ImageConsistent

\* One paid call for a key, whatever is repeated, joined or restarted; one answer;
\* and what REJECTED, UNAVAILABLE and INCOMPLETE promise about money is kept.
THEOREM ImageStaysConsistent == ImageSpec => []ImageConsistent
  BY ImageInvAlways, ImageInvImplies, PTL

\* The step of RecordIsFinal.
RecordForward ==
  /\ record.state = "complete" => UNCHANGED record
  /\ record.state = "pending"  => record'.state \in {"pending", "complete"}
  /\ record.digest # None      => record'.digest = record.digest

LEMMA RecordForwardStep == ImageInv /\ [ImageNext]_imageVars => [RecordForward]_record
<1> SUFFICES ASSUME ImageInv, ImageNext, record' # record PROVE RecordForward
  BY DEF imageVars
<1>1. PICK a \in Attempt : CreateRecord(a) \/ WriteRecord(a) \/ CompleteRecord(a)
  BY DEF ImageNext, Post, CompileFails, ReceiveAnswer, LoseAnswer, TimeOut, WorkerDies, RejectDigest,
         Join, AnswerJoined, Arrive, ClaimFails, FindRecord, ReadRecord, Dispatch, RefuseAborted,
         EditFails, EditReturns, DeliveryFails, Deliver, RecordFails, AnswerRecorded,
         ProviderCharges, ProviderRefuses, Crash
<1>2. HandlerInv(a) /\ RecordInv
  BY DEF ImageInv
<1>3. CASE CreateRecord(a)
  <2>1. record = NoRecord
    BY <1>2, <1>3, RecordShape DEF CreateRecord
  <2> QED
    BY <2>1 DEF NoRecord, RecordForward
<1>4. CASE WriteRecord(a)
  <2>1. record = EmptyRecord
    BY <1>2, <1>4 DEF WriteRecord, Goto, HandlerInv
  <2> QED
    BY <2>1 DEF EmptyRecord, RecordForward
<1>5. CASE CompleteRecord(a)
  <2>1. record = Pending(Asked(a))
    BY <1>2, <1>5 DEF CompleteRecord, Goto, HandlerInv
  <2>2. record' = Complete(Asked(a), [digest |-> Asked(a), by |-> a])
    BY <1>5 DEF CompleteRecord
  <2> QED
    BY <2>1, <2>2 DEF Pending, Complete, RecordForward
<1> QED
  BY <1>1, <1>3, <1>4, <1>5

\* The record of a key only goes forward, and keeps its digest and its picture.
THEOREM RecordsStay == ImageSpec => RecordIsFinal
BY RecordForwardStep, ImageInvAlways, PTL DEF ImageSpec, RecordIsFinal, RecordForward
-----------------------------------------------------------------------------
(***************************************************************************)
(* Nothing is bought that was not approved and nothing published that was  *)
(* not reviewed, for any strategies, renders, requests and crashes.        *)
(***************************************************************************)

Sent(r) == \E i \in RenderedPicture : submissions[i].render = r

\* A request knows its render, and a digest of the kind it asks about.
Asks(o) ==
  op[o].phase # "idle" =>
    /\ op[o].render \in RenderId
    /\ \/ op[o].kind = "render" /\ op[o].digest \in Strategy
       \/ op[o].kind = "finalize" /\ op[o].digest \in RenderedPicture

\* The lock has one holder at most, and no holder without the lock.
OneHolder ==
  /\ \A o \in Operation : op[o].phase \in Holding => lock
  /\ \A o, p \in Operation : op[o].phase \in Holding /\ op[p].phase \in Holding => o = p

\* The files of one render agree with each other and with what was submitted.
FilesAgree(r) ==
  /\ attempt[r].state # "none" => attempt[r].approval = plan /\ plan # Unset
  /\ attempt[r].request # 0 <=> attempt[r].state \in {"provider_pending", "image_ready"}
  /\ attempt[r].request # 0 => submissions[attempt[r].request].render = r
  /\ attempt[r].state \in {"none", "approved"} => ~Sent(r)
  /\ review[r] # 0 => review[r] = attempt[r].request /\ image[r] = review[r]
  /\ approved[r] # 0 => approved[r] = review[r]
  /\ uploaded[r] # 0 => approved[r] # 0 /\ uploaded[r] = review[r] /\ uploaded[r] \in stored

\* What the holder of the lock relies on in the files of its render.
HolderKnows(o) ==
  /\ op[o].phase = "approved" => attempt[Of(o)].state = "approved"
  /\ op[o].phase = "submitting" => attempt[Of(o)].state = "submission_unknown" /\ ~Sent(Of(o))
  /\ op[o].phase = "submitted" =>
       /\ attempt[Of(o)].state = "submission_unknown"
       /\ op[o].sent \in RenderedPicture /\ submissions[op[o].sent].render = Of(o)
  /\ op[o].phase = "pending" => attempt[Of(o)].request # 0 /\ review[Of(o)] = 0
  /\ op[o].phase = "imaged" =>
       attempt[Of(o)].request # 0 /\ review[Of(o)] = 0 /\ image[Of(o)] = attempt[Of(o)].request
  /\ op[o].phase = "reviewed" => attempt[Of(o)].request # 0
  /\ op[o].phase \in {"uploading", "uploaded"} => approved[Of(o)] # 0
  /\ op[o].phase = "uploaded" => approved[Of(o)] \in stored

SubmissionsApproved ==
  /\ \A i, j \in RenderedPicture : submissions[i].render = submissions[j].render => i = j
  /\ \A i \in RenderedPicture : submissions[i].approval = plan

ProductionInv ==
  /\ ProductionTypeOK /\ OneHolder /\ SubmissionsApproved
  /\ \A o \in Operation : Asks(o) /\ HolderKnows(o)
  /\ \A r \in RenderId : FilesAgree(r)
  /\ \A p \in stored : \E r \in RenderId : approved[r] = p

Phase == Holding \cup {"idle", "sent", "done", "failed"}
OpRecord(n) == [phase  : Phase,
                kind   : {"render", "finalize", Unset},
                render : RenderId \cup {Unset},
                digest : Strategy \cup (1..n) \cup {Unset},
                sent   : {0} \cup (1..n)]
AttemptRecord(n) == [state    : AttemptState,
                     approval : Strategy \cup {Unset},
                     request  : {0} \cup (1..n)]

USE DEF At, Of

-----------------------------------------------------------------------------
(* Lemmas. *)

LEMMA Types ==
  ASSUME ProductionTypeOK
  PROVE  /\ op \in [Operation -> OpRecord(Len(submissions))]
         /\ attempt \in [RenderId -> AttemptRecord(Len(submissions))]
         /\ Len(submissions) \in Nat
BY LenProperties DEF ProductionTypeOK, OpRecord, AttemptRecord, Phase, RenderedPicture

\* A step of o that changes nothing of the requests but the phase of its own.
LEMMA Moves ==
  ASSUME ProductionTypeOK, NEW o \in Operation, NEW phase \in Phase, GoesTo(o, phase)
  PROVE  /\ op' \in [Operation -> OpRecord(Len(submissions))]
         /\ op'[o] = [op[o] EXCEPT !.phase = phase]
         /\ op'[o].phase = phase /\ op'[o].kind = op[o].kind /\ op'[o].render = op[o].render
         /\ op'[o].digest = op[o].digest /\ op'[o].sent = op[o].sent
         /\ \A p \in Operation : p # o => op'[p] = op[p]
<1>1. op \in [Operation -> OpRecord(Len(submissions))]
  BY Types
<1>2. op' = [op EXCEPT ![o] = [op[o] EXCEPT !.phase = phase]]
  BY DEF GoesTo
<1>3. op[o] \in OpRecord(Len(submissions))
  BY <1>1
<1>4. [op[o] EXCEPT !.phase = phase] \in OpRecord(Len(submissions))
      /\ [op[o] EXCEPT !.phase = phase].phase = phase
      /\ [op[o] EXCEPT !.phase = phase].kind = op[o].kind
      /\ [op[o] EXCEPT !.phase = phase].render = op[o].render
      /\ [op[o] EXCEPT !.phase = phase].digest = op[o].digest
      /\ [op[o] EXCEPT !.phase = phase].sent = op[o].sent
  BY <1>3 DEF OpRecord
<1> DEFINE new == [op[o] EXCEPT !.phase = phase]
<1>5. new \in OpRecord(Len(submissions)) /\ new.phase = phase /\ new.kind = op[o].kind
      /\ new.render = op[o].render /\ new.digest = op[o].digest /\ new.sent = op[o].sent
      /\ op' = [op EXCEPT ![o] = new] /\ new = [op[o] EXCEPT !.phase = phase]
  BY <1>2, <1>4
<1> HIDE DEF new
<1> QED
  BY <1>1, <1>5

LEMMA ProductionInvInit == ProductionInit => ProductionInv
<1> SUFFICES ASSUME ProductionInit PROVE ProductionInv
  OBVIOUS
<1>0. Len(submissions) = 0 /\ RenderedPicture = {}
  BY DEF ProductionInit, RenderedPicture
<1>a. submissions \in Seq([render : RenderId, approval : Strategy]) /\ productionCrashes \in 0..ProductionCrashBound
  BY ProductionAssumption DEF ProductionInit
<1>1. ProductionTypeOK
  BY <1>0, <1>a DEF ProductionInit, ProductionTypeOK, NoAttempt, Idle, AttemptState
<1>2. OneHolder /\ \A o \in Operation : Asks(o) /\ HolderKnows(o)
  BY DEF ProductionInit, OneHolder, Asks, HolderKnows, Idle, Holding
<1>3. \A r \in RenderId : FilesAgree(r)
  BY <1>0 DEF ProductionInit, FilesAgree, NoAttempt, Sent
<1>4. SubmissionsApproved /\ \A p \in stored : \E r \in RenderId : approved[r] = p
  BY <1>0 DEF ProductionInit, SubmissionsApproved
<1> QED
  BY <1>1, <1>2, <1>3, <1>4 DEF ProductionInv

-----------------------------------------------------------------------------
(* Steps that write no file and submit nothing. *)

FilesStay == UNCHANGED <<source, plan, attempt, image, review, approved, uploaded, stored, submissions>>

\* The files agree as they did.
LEMMA FilesStayKeeps ==
  ASSUME ProductionInv, FilesStay
  PROVE  /\ SubmissionsApproved' /\ \A r \in RenderId : FilesAgree(r)'
         /\ \A p \in stored' : \E r \in RenderId : approved'[r] = p
         /\ \A r : Sent(r)' = Sent(r)
         /\ RenderedPicture' = RenderedPicture
BY DEF ProductionInv, FilesStay, SubmissionsApproved, FilesAgree, Sent, RenderedPicture

\* The holder moves on, or gives the lock back: what it knows at its new phase
\* has to be shown, and the rest is as it was.
LEMMA HolderMoves ==
  ASSUME ProductionInv, FilesStay, UNCHANGED productionCrashes,
         NEW o \in Operation, NEW phase \in Phase, GoesTo(o, phase),
         \/ UNCHANGED lock /\ op[o].phase \in Holding
         \/ UNCHANGED lock /\ phase \notin Holding
         \/ lock' = FALSE /\ op[o].phase \in Holding /\ phase \notin Holding
         \/ lock' = TRUE /\ ~lock,
         op[o].phase # "idle", phase # "idle",
         HolderKnows(o)'
  PROVE  ProductionInv'
<1>1. /\ op' \in [Operation -> OpRecord(Len(submissions))]
      /\ op'[o].phase = phase /\ op'[o].kind = op[o].kind /\ op'[o].render = op[o].render
      /\ op'[o].digest = op[o].digest
      /\ \A p \in Operation : p # o => op'[p] = op[p]
  BY Moves DEF ProductionInv
<1>2. ProductionTypeOK'
  BY <1>1 DEF ProductionInv, ProductionTypeOK, FilesStay, OpRecord, Phase, RenderedPicture
<1>3. OneHolder'
  BY <1>1 DEF ProductionInv, OneHolder
<1>4. ASSUME NEW p \in Operation PROVE Asks(p)' /\ HolderKnows(p)'
  <2>1. Asks(p) /\ HolderKnows(p)
    BY DEF ProductionInv
  <2>2. CASE p = o
    BY <2>1, <2>2, <1>1, FilesStayKeeps DEF Asks
  <2>3. CASE p # o
    <3>1. op'[p] = op[p]
      BY <1>1, <2>3
    <3> QED
      BY <2>1, <3>1, FilesStayKeeps DEF Asks, HolderKnows, FilesStay
  <2> QED
    BY <2>2, <2>3
<1> QED
  BY <1>2, <1>3, <1>4, FilesStayKeeps DEF ProductionInv

LEMMA QuietSteps ==
  ASSUME ProductionInv, NEW o \in Operation,
         \/ Lock(o) \/ FailLocked(o) \/ OperationFails(o) \/ AnswerReview(o) \/ Resume(o)
         \/ RefuseResubmission(o) \/ AnswerUploaded(o) \/ FinishFinalize(o)
  PROVE  ProductionInv'
<1>1. FilesStay /\ UNCHANGED productionCrashes /\ op[o].phase # "idle"
  BY DEF Lock, FailLocked, OperationFails, AnswerReview, Resume, RefuseResubmission,
         AnswerUploaded, FinishFinalize, FilesStay, files, Rendering, Finalizing, Holding
<1>2. ASSUME NEW phase \in {"done", "failed"}, op[o].phase \in Holding, Release(o, phase)
      PROVE  ProductionInv'
  <2>1. phase \in Phase /\ phase \notin Holding /\ GoesTo(o, phase) /\ lock' = FALSE
    BY <1>2 DEF Release, Phase, Holding
  <2>2. op'[o].phase = phase
    BY <2>1, Moves DEF ProductionInv
  <2>3. HolderKnows(o)'
    BY <2>2, <1>2 DEF HolderKnows
  <2> QED
    BY <1>1, <1>2, <2>1, <2>3, HolderMoves
<1>3. CASE OperationFails(o) \/ AnswerReview(o) \/ RefuseResubmission(o) \/ AnswerUploaded(o) \/ FinishFinalize(o)
  <2>1. op[o].phase \in Holding /\ (Release(o, "failed") \/ Release(o, "done"))
    BY <1>3 DEF OperationFails, AnswerReview, RefuseResubmission, AnswerUploaded, FinishFinalize,
                Rendering, Finalizing, Holding
  <2> QED
    BY <1>2, <2>1
<1>4. CASE Lock(o)
  <2>1. "locked" \in Phase /\ GoesTo(o, "locked") /\ lock' = TRUE /\ ~lock
    BY <1>4 DEF Lock, Phase, Holding
  <2>2. op'[o].phase = "locked"
    BY <2>1, Moves DEF ProductionInv
  <2>3. HolderKnows(o)'
    BY <2>2 DEF HolderKnows
  <2> QED
    BY <1>1, <2>1, <2>3, HolderMoves
<1>5. CASE FailLocked(o)
  <2>1. "failed" \in Phase /\ "failed" \notin Holding /\ GoesTo(o, "failed") /\ UNCHANGED lock
    BY <1>5 DEF FailLocked, Phase, Holding, files
  <2>2. op'[o].phase = "failed"
    BY <2>1, Moves DEF ProductionInv
  <2>3. HolderKnows(o)'
    BY <2>2 DEF HolderKnows
  <2> QED
    BY <1>1, <2>1, <2>3, HolderMoves
<1>6. CASE Resume(o)
  <2>1. PICK phase \in {"approved", "pending"} :
          /\ GoesTo(o, phase) /\ UNCHANGED lock /\ op[o].phase \in Holding
          /\ review[Of(o)] = 0
          /\ phase = "approved" => attempt[Of(o)].state = "approved"
          /\ phase = "pending" => attempt[Of(o)].request # 0
    BY <1>6 DEF Resume, Rendering, files, Holding
  <2>2. phase \in Phase /\ op'[o].phase = phase /\ op'[o].render = op[o].render
    BY <2>1, Moves DEF ProductionInv, Phase, Holding
  <2>3. HolderKnows(o)'
    BY <2>1, <2>2, <1>1 DEF HolderKnows, FilesStay
  <2> QED
    BY <1>1, <2>1, <2>2, <2>3, HolderMoves
<1> QED
  BY <1>3, <1>4, <1>5, <1>6

-----------------------------------------------------------------------------
(* Steps of the holder that write files. *)

FileTypes ==
  /\ attempt' \in [RenderId -> AttemptRecord(Len(submissions))]
  /\ image' \in [RenderId -> {0} \cup RenderedPicture]
  /\ review' \in [RenderId -> {0} \cup RenderedPicture]
  /\ approved' \in [RenderId -> {0} \cup RenderedPicture]
  /\ uploaded' \in [RenderId -> {0} \cup RenderedPicture]
  /\ stored' \subseteq RenderedPicture

LEMMA HolderWrites ==
  ASSUME ProductionInv, NEW o \in Operation, NEW phase \in Phase, op[o].phase \in Holding,
         GoesTo(o, phase), phase # "idle",
         \/ UNCHANGED lock
         \/ lock' = FALSE /\ phase \notin Holding,
         UNCHANGED <<source, plan, submissions, productionCrashes>>, FileTypes,
         \A r \in RenderId : FilesAgree(r)', HolderKnows(o)',
         \A p \in stored' : \E r \in RenderId : approved'[r] = p
  PROVE  ProductionInv'
<1>1. /\ op' \in [Operation -> OpRecord(Len(submissions))]
      /\ op'[o].phase = phase /\ op'[o].kind = op[o].kind /\ op'[o].render = op[o].render
      /\ op'[o].digest = op[o].digest
      /\ \A p \in Operation : p # o => op'[p] = op[p]
  BY Moves DEF ProductionInv
<1>2. ProductionTypeOK'
  BY <1>1 DEF ProductionInv, ProductionTypeOK, FileTypes, OpRecord, AttemptRecord, Phase, RenderedPicture
<1>3. OneHolder'
  BY <1>1 DEF ProductionInv, OneHolder
<1>4. ASSUME NEW p \in Operation PROVE Asks(p)' /\ HolderKnows(p)'
  <2>1. Asks(p)
    BY DEF ProductionInv
  <2>2. CASE p = o
    BY <2>1, <2>2, <1>1 DEF Asks, RenderedPicture, Holding
  <2>3. CASE p # o
    <3>1. op'[p] = op[p] /\ op[p].phase \notin Holding
      BY <1>1, <2>3 DEF ProductionInv, OneHolder
    <3>2. HolderKnows(p)'
      BY <3>1 DEF HolderKnows, Holding
    <3> QED
      BY <2>1, <3>1, <3>2 DEF Asks, RenderedPicture
  <2> QED
    BY <2>2, <2>3
<1>5. SubmissionsApproved'
  BY DEF ProductionInv, SubmissionsApproved, RenderedPicture
<1> QED
  BY <1>2, <1>3, <1>4, <1>5 DEF ProductionInv

\* The files of the other renders agree as before.
LEMMA OtherFilesAgree ==
  ASSUME NEW r \in RenderId, FilesAgree(r), UNCHANGED <<plan, submissions>>,
         attempt'[r] = attempt[r], image'[r] = image[r], review'[r] = review[r],
         approved'[r] = approved[r], uploaded'[r] = uploaded[r], stored \subseteq stored'
  PROVE  FilesAgree(r)'
BY DEF FilesAgree, Sent, RenderedPicture

\* An update of the attempt of one render.
LEMMA AttemptUpdate ==
  ASSUME ProductionTypeOK, NEW r \in RenderId, NEW a \in AttemptRecord(Len(submissions)),
         attempt' = [attempt EXCEPT ![r] = a]
  PROVE  /\ attempt' \in [RenderId -> AttemptRecord(Len(submissions))]
         /\ attempt'[r] = a /\ \A q \in RenderId : q # r => attempt'[q] = attempt[q]
BY Types

LEMMA AttemptStateUpdate ==
  ASSUME ProductionTypeOK, NEW r \in RenderId, NEW state \in AttemptState,
         attempt' = [attempt EXCEPT ![r].state = state]
  PROVE  /\ attempt' \in [RenderId -> AttemptRecord(Len(submissions))]
         /\ attempt'[r].state = state /\ attempt'[r].approval = attempt[r].approval
         /\ attempt'[r].request = attempt[r].request
         /\ \A q \in RenderId : q # r => attempt'[q] = attempt[q]
<1> DEFINE new == [attempt[r] EXCEPT !.state = state]
<1>1. attempt[r] \in AttemptRecord(Len(submissions))
  BY Types
<1>2. /\ new \in AttemptRecord(Len(submissions)) /\ new.state = state
      /\ new.approval = attempt[r].approval /\ new.request = attempt[r].request
      /\ attempt' = [attempt EXCEPT ![r] = new]
  BY <1>1 DEF AttemptRecord
<1> HIDE DEF new
<1> QED
  BY <1>2, AttemptUpdate

\* The render an operation is about, and the files' types.
LEMMA Facts ==
  ASSUME ProductionInv, NEW o \in Operation, op[o].phase # "idle"
  PROVE  /\ Of(o) \in RenderId /\ FilesAgree(Of(o)) /\ HolderKnows(o) /\ ProductionTypeOK
         /\ attempt[Of(o)] \in AttemptRecord(Len(submissions))
         /\ image[Of(o)] \in {0} \cup RenderedPicture /\ review[Of(o)] \in {0} \cup RenderedPicture
         /\ \/ op[o].kind = "render" /\ op[o].digest \in Strategy
            \/ op[o].kind = "finalize" /\ op[o].digest \in RenderedPicture
<1>1. ProductionTypeOK /\ Asks(o) /\ HolderKnows(o)
  BY DEF ProductionInv
<1>2. Of(o) \in RenderId
  BY <1>1 DEF Asks
<1> QED
  BY <1>1, <1>2, Types DEF ProductionInv, ProductionTypeOK, Asks

\* The steps of a render that write its attempt.
LEMMA AttemptSteps ==
  ASSUME ProductionInv, NEW o \in Operation,
         ApproveStrategy(o) \/ MarkSubmission(o) \/ SubmissionFails(o) \/ Accepted(o) \/ FinishRender(o)
  PROVE  ProductionInv'
<1>0. op[o].phase \in Holding /\ op[o].phase # "idle"
  BY DEF ApproveStrategy, MarkSubmission, SubmissionFails, Accepted, FinishRender, Rendering, Holding
<1>r. PICK r \in RenderId : r = Of(o)
  BY <1>0, Facts
<1>1. /\ r \in RenderId /\ FilesAgree(r) /\ HolderKnows(o) /\ ProductionTypeOK
      /\ attempt[r] \in AttemptRecord(Len(submissions))
  BY <1>0, <1>r, Facts
<1>2. UNCHANGED <<source, plan, image, review, approved, uploaded, stored, submissions, productionCrashes>>
  BY DEF ApproveStrategy, MarkSubmission, SubmissionFails, Accepted, FinishRender
<1>3. Sent(r)' <=> Sent(r)
  BY <1>2 DEF Sent, RenderedPicture
<1>4. ASSUME attempt' \in [RenderId -> AttemptRecord(Len(submissions))]
      PROVE  FileTypes /\ \A p \in stored' : \E q \in RenderId : approved'[q] = p
  BY <1>1, <1>2, <1>4 DEF FileTypes, ProductionInv, ProductionTypeOK
<1>5. ASSUME \A q \in RenderId : q # r => attempt'[q] = attempt[q], FilesAgree(r)'
      PROVE  \A q \in RenderId : FilesAgree(q)'
  BY <1>2, <1>5, OtherFilesAgree DEF ProductionInv
<1>6. CASE ApproveStrategy(o)
  <2> DEFINE new == [state |-> "approved", approval |-> op[o].digest, request |-> 0]
  <2>1. /\ attempt[r].state = "none" /\ plan # Unset /\ op[o].digest = plan
        /\ attempt' = [attempt EXCEPT ![r] = new]
        /\ GoesTo(o, "approved") /\ UNCHANGED lock
    BY <1>6, <1>r DEF ApproveStrategy, Rendering, Approves, SetAttempt
  <2>2. new \in AttemptRecord(Len(submissions))
    BY <2>1, <1>1 DEF AttemptRecord, AttemptState, ProductionTypeOK
  <2>3. new.state = "approved" /\ new.approval = plan /\ new.request = 0
    BY <2>1
  <2> HIDE DEF new
  <2>4. /\ attempt' \in [RenderId -> AttemptRecord(Len(submissions))]
        /\ attempt'[r] = new /\ \A q \in RenderId : q # r => attempt'[q] = attempt[q]
    BY <2>1, <2>2, <1>1, AttemptUpdate
  <2>5. attempt[r].request = 0
    BY <2>1, <1>1 DEF FilesAgree
  <2>6. FilesAgree(r)'
    BY <2>1, <2>3, <2>4, <2>5, <1>1, <1>2, <1>3 DEF FilesAgree
  <2>7. "approved" \in Phase /\ op'[o].phase = "approved" /\ Of(o)' = r
    BY <2>1, <1>1, <1>r, Moves DEF Phase, Holding
  <2>8. HolderKnows(o)'
    BY <2>3, <2>4, <2>7 DEF HolderKnows
  <2> QED
    BY <1>0, <1>2, <1>4, <1>5, <2>1, <2>4, <2>6, <2>7, <2>8, HolderWrites
<1>7. CASE MarkSubmission(o)
  <2>1. /\ attempt[r].state = "approved" /\ attempt' = [attempt EXCEPT ![r].state = "submission_unknown"]
        /\ GoesTo(o, "submitting") /\ UNCHANGED lock
    BY <1>1, <1>7, <1>r DEF MarkSubmission, HolderKnows
  <2>4. /\ attempt' \in [RenderId -> AttemptRecord(Len(submissions))]
        /\ attempt'[r].state = "submission_unknown" /\ attempt'[r].approval = attempt[r].approval
        /\ attempt'[r].request = attempt[r].request
        /\ \A q \in RenderId : q # r => attempt'[q] = attempt[q]
    BY <2>1, <1>1, AttemptStateUpdate DEF AttemptState
  <2>6. FilesAgree(r)'
    BY <2>1, <2>4, <1>1, <1>2, <1>3 DEF FilesAgree
  <2>7. "submitting" \in Phase /\ op'[o].phase = "submitting" /\ Of(o)' = r
    BY <2>1, <1>1, <1>r, Moves DEF Phase, Holding
  <2>8. HolderKnows(o)'
    BY <2>1, <2>4, <2>7, <1>1, <1>3 DEF HolderKnows, FilesAgree
  <2> QED
    BY <1>0, <1>2, <1>4, <1>5, <2>1, <2>4, <2>6, <2>7, <2>8, HolderWrites
<1>8. CASE SubmissionFails(o)
  <2>1. PICK state \in {"submission_unknown", "provider_rejected"} :
          attempt' = [attempt EXCEPT ![r].state = state]
    BY <1>8, <1>r DEF SubmissionFails
  <2>2. GoesTo(o, "failed") /\ lock' = FALSE /\ attempt[r].state = "submission_unknown"
    BY <1>1, <1>8, <1>r DEF SubmissionFails, Release, HolderKnows
  <2>4. /\ attempt' \in [RenderId -> AttemptRecord(Len(submissions))]
        /\ attempt'[r].state = state /\ attempt'[r].approval = attempt[r].approval
        /\ attempt'[r].request = attempt[r].request
        /\ \A q \in RenderId : q # r => attempt'[q] = attempt[q]
    BY <2>1, <1>1, AttemptStateUpdate DEF AttemptState
  <2>6. FilesAgree(r)'
    BY <2>1, <2>2, <2>4, <1>1, <1>2, <1>3 DEF FilesAgree
  <2>7. "failed" \in Phase /\ "failed" \notin Holding /\ op'[o].phase = "failed"
    BY <2>2, <1>1, <1>r, Moves DEF Phase, Holding
  <2>8. HolderKnows(o)'
    BY <2>7 DEF HolderKnows
  <2> QED
    BY <1>0, <1>2, <1>4, <1>5, <2>2, <2>4, <2>6, <2>7, <2>8, HolderWrites
<1>9. CASE Accepted(o)
  <2> DEFINE new == [attempt[r] EXCEPT !.state = "provider_pending", !.request = op[o].sent]
  <2>1. /\ attempt' = [attempt EXCEPT ![r] = new]
        /\ GoesTo(o, "pending") /\ UNCHANGED lock
        /\ attempt[r].state = "submission_unknown" /\ op[o].sent \in 1..Len(submissions)
        /\ submissions[op[o].sent].render = r
    BY <1>1, <1>9, <1>r DEF Accepted, HolderKnows, RenderedPicture
  <2>2. /\ new \in AttemptRecord(Len(submissions)) /\ new.state = "provider_pending"
        /\ new.approval = attempt[r].approval /\ new.request = op[o].sent
    BY <2>1, <1>1 DEF AttemptRecord, AttemptState
  <2> HIDE DEF new
  <2>4. /\ attempt' \in [RenderId -> AttemptRecord(Len(submissions))]
        /\ attempt'[r] = new /\ \A q \in RenderId : q # r => attempt'[q] = attempt[q]
    BY <2>1, <2>2, <1>1, AttemptUpdate
  <2>5. attempt[r].request = 0 /\ review[r] = 0 /\ op[o].sent # 0
    <3>1. attempt[r].request = 0
      BY <2>1, <1>1 DEF FilesAgree
    <3> QED
      BY <3>1, <2>1, <1>1 DEF FilesAgree
  <2>6. FilesAgree(r)'
    BY <2>1, <2>2, <2>4, <2>5, <1>1, <1>2, <1>3 DEF FilesAgree
  <2>7. "pending" \in Phase /\ op'[o].phase = "pending" /\ Of(o)' = r
    BY <2>1, <1>1, <1>r, Moves DEF Phase, Holding
  <2>8. HolderKnows(o)'
    BY <2>2, <2>4, <2>5, <2>7, <1>2 DEF HolderKnows
  <2> QED
    BY <1>0, <1>2, <1>4, <1>5, <2>1, <2>4, <2>6, <2>7, <2>8, HolderWrites
<1>10. CASE FinishRender(o)
  <2>1. /\ attempt' = [attempt EXCEPT ![r].state = "image_ready"] /\ attempt[r].request # 0
        /\ GoesTo(o, "done") /\ lock' = FALSE
    BY <1>1, <1>10, <1>r DEF FinishRender, Release, HolderKnows
  <2>4. /\ attempt' \in [RenderId -> AttemptRecord(Len(submissions))]
        /\ attempt'[r].state = "image_ready" /\ attempt'[r].approval = attempt[r].approval
        /\ attempt'[r].request = attempt[r].request
        /\ \A q \in RenderId : q # r => attempt'[q] = attempt[q]
    BY <2>1, <1>1, AttemptStateUpdate DEF AttemptState
  <2>5. attempt[r].state \in {"provider_pending", "image_ready"}
    BY <2>1, <1>1 DEF FilesAgree
  <2>6. FilesAgree(r)'
    BY <2>1, <2>4, <2>5, <1>1, <1>2, <1>3 DEF FilesAgree
  <2>7. "done" \in Phase /\ "done" \notin Holding /\ op'[o].phase = "done"
    BY <2>1, <1>1, <1>r, Moves DEF Phase, Holding
  <2>8. HolderKnows(o)'
    BY <2>7 DEF HolderKnows
  <2> QED
    BY <1>0, <1>2, <1>4, <1>5, <2>1, <2>4, <2>6, <2>7, <2>8, HolderWrites
<1> QED
  BY <1>6, <1>7, <1>8, <1>9, <1>10

\* The steps that write a picture, a review, an approval or an upload.
LEMMA FileSteps ==
  ASSUME ProductionInv, NEW o \in Operation,
         FetchImage(o) \/ SaveReview(o) \/ ApproveImage(o) \/ Upload(o) \/ SaveUploaded(o)
  PROVE  ProductionInv'
<1>0. op[o].phase \in Holding /\ op[o].phase # "idle"
  BY DEF FetchImage, SaveReview, ApproveImage, Upload, SaveUploaded, Finalizing, Holding
<1>r. PICK r \in RenderId : r = Of(o)
  BY <1>0, Facts
<1>1. /\ FilesAgree(r) /\ HolderKnows(o) /\ ProductionTypeOK
      /\ attempt[r] \in AttemptRecord(Len(submissions))
      /\ image[r] \in {0} \cup RenderedPicture /\ review[r] \in {0} \cup RenderedPicture
      /\ \/ op[o].kind = "render" /\ op[o].digest \in Strategy
         \/ op[o].kind = "finalize" /\ op[o].digest \in RenderedPicture
  BY <1>0, <1>r, Facts
<1>2. UNCHANGED <<source, plan, lock, attempt, submissions, productionCrashes>>
  BY DEF FetchImage, SaveReview, ApproveImage, Upload, SaveUploaded, files
<1>3. Sent(r)' <=> Sent(r)
  BY <1>2 DEF Sent, RenderedPicture
<1>4. /\ attempt \in [RenderId -> AttemptRecord(Len(submissions))]
      /\ image \in [RenderId -> {0} \cup RenderedPicture]
      /\ review \in [RenderId -> {0} \cup RenderedPicture]
      /\ approved \in [RenderId -> {0} \cup RenderedPicture]
      /\ uploaded \in [RenderId -> {0} \cup RenderedPicture]
      /\ stored \subseteq RenderedPicture
      /\ \A p \in stored : \E q \in RenderId : approved[q] = p
  BY <1>1, Types DEF ProductionTypeOK, ProductionInv
<1>5. attempt[r].request \in {0} \cup RenderedPicture /\ (0 \notin RenderedPicture)
  BY <1>1 DEF AttemptRecord, RenderedPicture
<1>6. CASE FetchImage(o)
  <2>1. /\ image' = [image EXCEPT ![r] = attempt[r].request] /\ attempt[r].request # 0
        /\ review[r] = 0 /\ GoesTo(o, "imaged")
        /\ UNCHANGED <<review, approved, uploaded, stored>>
    BY <1>1, <1>6, <1>r DEF FetchImage, HolderKnows
  <2>2. /\ image' \in [RenderId -> {0} \cup RenderedPicture]
        /\ image'[r] = attempt[r].request /\ \A q \in RenderId : q # r => image'[q] = image[q]
    BY <2>1, <1>4, <1>5
  <2>3. FileTypes /\ \A p \in stored' : \E q \in RenderId : approved'[q] = p
    BY <2>1, <2>2, <1>2, <1>4 DEF FileTypes
  <2>4. FilesAgree(r)'
    BY <2>1, <1>1, <1>2, <1>3 DEF FilesAgree
  <2>5. \A q \in RenderId : FilesAgree(q)'
    BY <2>1, <2>2, <2>4, <1>2, OtherFilesAgree DEF ProductionInv
  <2>6. "imaged" \in Phase /\ op'[o].phase = "imaged" /\ Of(o)' = r
    BY <2>1, <1>1, <1>r, Moves DEF Phase, Holding
  <2>7. HolderKnows(o)'
    BY <2>1, <2>2, <2>6, <1>2 DEF HolderKnows
  <2> QED
    BY <1>0, <1>2, <2>1, <2>3, <2>5, <2>6, <2>7, HolderWrites
<1>7. CASE SaveReview(o)
  <2>1. /\ review' = [review EXCEPT ![r] = attempt[r].request] /\ attempt[r].request # 0
        /\ image[r] = attempt[r].request
        /\ review[r] = 0 /\ GoesTo(o, "reviewed")
        /\ UNCHANGED <<image, approved, uploaded, stored>>
    BY <1>1, <1>7, <1>r DEF SaveReview, HolderKnows
  <2>2. /\ review' \in [RenderId -> {0} \cup RenderedPicture]
        /\ review'[r] = attempt[r].request /\ \A q \in RenderId : q # r => review'[q] = review[q]
    BY <2>1, <1>4, <1>5
  <2>3. FileTypes /\ \A p \in stored' : \E q \in RenderId : approved'[q] = p
    BY <2>1, <2>2, <1>2, <1>4 DEF FileTypes
  <2>4. FilesAgree(r)'
    <3>1. approved[r] = 0 /\ uploaded[r] = 0
      BY <2>1, <1>1 DEF FilesAgree
    <3> QED
      BY <2>1, <2>2, <3>1, <1>1, <1>2, <1>3 DEF FilesAgree
  <2>5. \A q \in RenderId : FilesAgree(q)'
    BY <2>1, <2>2, <2>4, <1>2, OtherFilesAgree DEF ProductionInv
  <2>6. "reviewed" \in Phase /\ op'[o].phase = "reviewed" /\ Of(o)' = r
    BY <2>1, <1>1, <1>r, Moves DEF Phase, Holding
  <2>7. HolderKnows(o)'
    BY <2>1, <2>6, <1>2 DEF HolderKnows
  <2> QED
    BY <1>0, <1>2, <2>1, <2>3, <2>5, <2>6, <2>7, HolderWrites
<1>8. CASE ApproveImage(o)
  <2>1. /\ approved' = IF approved[r] = 0 THEN [approved EXCEPT ![r] = op[o].digest] ELSE approved
        /\ op[o].kind = "finalize" /\ review[r] = op[o].digest /\ uploaded[r] = 0 /\ GoesTo(o, "uploading")
        /\ UNCHANGED <<image, review, uploaded, stored>>
    BY <1>8, <1>r DEF ApproveImage, Finalizing
  <2>2. review[r] # 0
    <3>1. op[o].phase = "locked" /\ op[o].kind = "finalize"
      BY <1>8 DEF ApproveImage, Finalizing
    <3>2. CASE op[o].digest \in RenderedPicture
      BY <3>2, <2>1, <1>5
    <3>3. CASE op[o].kind = "render"
      BY <3>1, <3>3
    <3> QED
      BY <1>1, <3>2, <3>3
  <2>3. /\ approved' \in [RenderId -> {0} \cup RenderedPicture]
        /\ approved'[r] = review[r] /\ \A q \in RenderId : q # r => approved'[q] = approved[q]
        /\ approved[r] # 0 => approved'[r] = approved[r]
    <3>1. approved[r] # 0 => approved[r] = review[r]
      BY <1>1 DEF FilesAgree
    <3> QED
      BY <2>1, <2>2, <3>1, <1>1, <1>4
  <2>4. FileTypes
    BY <2>1, <2>3, <1>2, <1>4 DEF FileTypes
  <2>5. \A p \in stored' : \E q \in RenderId : approved'[q] = p
    <3> SUFFICES ASSUME NEW p \in stored PROVE \E q \in RenderId : approved'[q] = p
      BY <2>1
    <3>1. PICK q \in RenderId : approved[q] = p
      BY <1>4
    <3>2. p # 0
      BY <1>4, <1>5
    <3> QED
      BY <2>3, <3>1, <3>2
  <2>6. FilesAgree(r)'
    BY <2>1, <2>2, <2>3, <1>1, <1>2, <1>3 DEF FilesAgree
  <2>7. \A q \in RenderId : FilesAgree(q)'
    BY <2>1, <2>3, <2>6, <1>2, OtherFilesAgree DEF ProductionInv
  <2>8. "uploading" \in Phase /\ op'[o].phase = "uploading" /\ Of(o)' = r
    BY <2>1, <1>1, <1>r, Moves DEF Phase, Holding
  <2>9. HolderKnows(o)'
    BY <2>2, <2>3, <2>8, <1>2 DEF HolderKnows
  <2> QED
    BY <1>0, <1>2, <2>1, <2>4, <2>5, <2>7, <2>8, <2>9, HolderWrites
<1>9. CASE Upload(o)
  <2>1. /\ stored' = stored \cup {image[r]} /\ approved[r] # 0 /\ GoesTo(o, "uploaded")
        /\ UNCHANGED <<image, review, approved, uploaded>>
    BY <1>1, <1>9, <1>r DEF Upload, HolderKnows, files
  <2>2. approved[r] = review[r] /\ image[r] = review[r] /\ image[r] # 0
    BY <2>1, <1>1 DEF FilesAgree
  <2>3. FileTypes
    BY <2>1, <2>2, <1>1, <1>2, <1>4 DEF FileTypes
  <2>4. \A p \in stored' : \E q \in RenderId : approved'[q] = p
    BY <2>1, <2>2, <1>4
  <2>5. \A q \in RenderId : FilesAgree(q)'
    BY <2>1, <1>2, OtherFilesAgree DEF ProductionInv
  <2>6. "uploaded" \in Phase /\ op'[o].phase = "uploaded" /\ Of(o)' = r
    BY <2>1, <1>1, <1>r, Moves DEF Phase, Holding
  <2>7. HolderKnows(o)'
    BY <2>1, <2>2, <2>6 DEF HolderKnows
  <2> QED
    BY <1>0, <1>2, <2>1, <2>3, <2>4, <2>5, <2>6, <2>7, HolderWrites
<1>10. CASE SaveUploaded(o)
  <2>1. /\ uploaded' = [uploaded EXCEPT ![r] = review[r]] /\ approved[r] # 0 /\ approved[r] \in stored
        /\ GoesTo(o, "recorded") /\ UNCHANGED <<image, review, approved, stored>>
    BY <1>1, <1>10, <1>r DEF SaveUploaded, HolderKnows
  <2>2. /\ uploaded' \in [RenderId -> {0} \cup RenderedPicture] /\ uploaded'[r] = review[r]
        /\ \A q \in RenderId : q # r => uploaded'[q] = uploaded[q]
    BY <2>1, <1>1, <1>4
  <2>3. FileTypes /\ \A p \in stored' : \E q \in RenderId : approved'[q] = p
    BY <2>1, <2>2, <1>2, <1>4 DEF FileTypes
  <2>4. FilesAgree(r)'
    BY <2>1, <2>2, <1>1, <1>2, <1>3 DEF FilesAgree
  <2>5. \A q \in RenderId : FilesAgree(q)'
    BY <2>1, <2>2, <2>4, <1>2, OtherFilesAgree DEF ProductionInv
  <2>6. "recorded" \in Phase /\ op'[o].phase = "recorded"
    BY <2>1, <1>1, Moves DEF Phase, Holding
  <2>7. HolderKnows(o)'
    BY <2>6 DEF HolderKnows
  <2> QED
    BY <1>0, <1>2, <2>1, <2>3, <2>5, <2>6, <2>7, HolderWrites
<1> QED
  BY <1>6, <1>7, <1>8, <1>9, <1>10

-----------------------------------------------------------------------------
(* The submission itself. *)

\* What was said of the first n submissions is still so of n + 1.
LEMMA RecordsGrow ==
  ASSUME NEW n \in Nat
  PROVE  /\ 1..n \subseteq 1..(n + 1) /\ n + 1 \in 1..(n + 1)
         /\ OpRecord(n) \subseteq OpRecord(n + 1) /\ AttemptRecord(n) \subseteq AttemptRecord(n + 1)
<1>1. 1..n \subseteq 1..(n + 1) /\ n + 1 \in 1..(n + 1)
  OBVIOUS
<1> QED
  BY <1>1 DEF OpRecord, AttemptRecord

LEMMA SubmitStep ==
  ASSUME ProductionInv, NEW o \in Operation, Submit(o)
  PROVE  ProductionInv'
<1> DEFINE n == Len(submissions)
<1>0. op[o].phase = "submitting" /\ op[o].kind = "render" /\ op[o].phase \in Holding
  BY DEF Submit, Holding
<1>r. PICK r \in RenderId : r = Of(o)
  BY <1>0, Facts
<1>1. /\ FilesAgree(r) /\ HolderKnows(o) /\ ProductionTypeOK
      /\ attempt[r].state = "submission_unknown" /\ ~Sent(r)
      /\ op \in [Operation -> OpRecord(n)] /\ attempt \in [RenderId -> AttemptRecord(n)] /\ n \in Nat
  BY <1>0, <1>r, Facts, Types DEF HolderKnows
<1>2. /\ submissions' = Append(submissions, [render |-> r, approval |-> attempt[r].approval])
      /\ op' = [op EXCEPT ![o].phase = "submitted", ![o].sent = n + 1]
      /\ UNCHANGED <<source, plan, lock, attempt, image, review, approved, uploaded, stored, productionCrashes>>
  BY <1>r DEF Submit, files
<1>3. attempt[r].approval = plan /\ plan \in Strategy
  BY <1>1 DEF FilesAgree, ProductionTypeOK
<1> DEFINE T == [render : RenderId, approval : Strategy]
<1> DEFINE e == [render |-> r, approval |-> attempt[r].approval]
<1>4. e \in T /\ e.render = r /\ e.approval = plan /\ submissions \in Seq(T)
      /\ submissions' = Append(submissions, e)
  BY <1>1, <1>2, <1>3 DEF ProductionTypeOK
<1> HIDE DEF T, e
<1>5. /\ submissions' \in Seq(T) /\ Len(submissions') = n + 1
      /\ \A i \in 1..n : submissions'[i] = submissions[i]
      /\ submissions'[n + 1] = e
  BY <1>4, AppendProperties
<1> DEFINE new == [op[o] EXCEPT !.phase = "submitted", !.sent = n + 1]
<1>6. /\ new \in OpRecord(n + 1) /\ new.phase = "submitted" /\ new.sent = n + 1
      /\ new.render = r /\ new.kind = "render" /\ new.digest = op[o].digest
  <2>1. op[o] \in OpRecord(n + 1)
    BY <1>1, RecordsGrow
  <2>2. n + 1 \in 1..(n + 1)
    BY <1>1
  <2> QED
    BY <2>1, <2>2, <1>0, <1>r DEF OpRecord, Phase, Holding
<1>7. op' = [op EXCEPT ![o] = new]
  BY <1>2
<1> HIDE DEF new
<1>8. /\ op' \in [Operation -> OpRecord(n + 1)] /\ op'[o] = new
      /\ \A p \in Operation : p # o => op'[p] = op[p]
  BY <1>1, <1>6, <1>7, RecordsGrow
<1>9. RenderedPicture = 1..n /\ RenderedPicture' = 1..(n + 1)
      /\ RenderedPicture \subseteq RenderedPicture'
  BY <1>1, <1>5 DEF RenderedPicture
<1> HIDE DEF n
<1>10. attempt \in [RenderId -> AttemptRecord(n + 1)]
  BY <1>1, RecordsGrow
<1>11. ProductionTypeOK'
  <2>1. /\ image \in [RenderId -> {0} \cup RenderedPicture'] /\ review \in [RenderId -> {0} \cup RenderedPicture']
        /\ approved \in [RenderId -> {0} \cup RenderedPicture']
        /\ uploaded \in [RenderId -> {0} \cup RenderedPicture'] /\ stored \subseteq RenderedPicture'
    BY <1>1, <1>9 DEF ProductionTypeOK
  <2>2. attempt' \in [RenderId -> [state : AttemptState, approval : Strategy \cup {Unset},
                                   request : {0} \cup RenderedPicture']]
    BY <1>2, <1>9, <1>10 DEF AttemptRecord
  <2>3. op' \in [Operation -> [phase : Holding \cup {"idle", "sent", "done", "failed"},
                              kind : {"render", "finalize", Unset}, render : RenderId \cup {Unset},
                              digest : Strategy \cup RenderedPicture' \cup {Unset},
                              sent : {0} \cup RenderedPicture']]
    BY <1>8, <1>9 DEF OpRecord, Phase
  <2> QED
    BY <1>1, <1>2, <1>5, <2>1, <2>2, <2>3 DEF ProductionTypeOK, T
<1>12. OneHolder'
  BY <1>0, <1>2, <1>6, <1>8 DEF ProductionInv, OneHolder
<1>13. \A i \in RenderedPicture : submissions[i].render # r
  BY <1>1 DEF Sent
<1>14. SubmissionsApproved'
  <2>1. SubmissionsApproved
    BY DEF ProductionInv
  <2>2. \A i \in RenderedPicture' : i \in RenderedPicture \/ i = n + 1
    BY <1>1, <1>9
  <2>3. \A i \in RenderedPicture : submissions'[i] = submissions[i]
    BY <1>5, <1>9 DEF n
  <2>4. \A i, j \in RenderedPicture' : submissions'[i].render = submissions'[j].render => i = j
    BY <2>1, <2>2, <2>3, <1>4, <1>5, <1>13 DEF SubmissionsApproved
  <2>5. \A i \in RenderedPicture' : submissions'[i].approval = plan
    BY <2>1, <2>2, <2>3, <1>4, <1>5 DEF SubmissionsApproved
  <2> QED
    BY <2>4, <2>5, <1>2 DEF SubmissionsApproved
<1>15. ASSUME NEW q \in RenderId PROVE FilesAgree(q)'
  <2>1. FilesAgree(q) /\ attempt[q] \in AttemptRecord(n)
    BY <1>1 DEF ProductionInv
  <2>2. attempt[q].request # 0 => submissions'[attempt[q].request] = submissions[attempt[q].request]
    BY <2>1, <1>5 DEF AttemptRecord, n
  <2>3. attempt[q].state \in {"none", "approved"} => ~Sent(q)'
    <3> SUFFICES ASSUME attempt[q].state \in {"none", "approved"}, NEW i \in RenderedPicture',
                        submissions'[i].render = q
                 PROVE  FALSE
      BY DEF Sent
    <3>1. q # r
      BY <1>1
    <3>2. i \in 1..n \/ i = n + 1
      BY <1>1, <1>9
    <3>3. CASE i \in 1..n
      BY <3>3, <2>1, <1>5, <1>9 DEF FilesAgree, Sent, n
    <3>4. CASE i = n + 1
      BY <3>1, <3>4, <1>4, <1>5 DEF n
    <3> QED
      BY <3>2, <3>3, <3>4
  <2> QED
    BY <2>1, <2>2, <2>3, <1>2 DEF FilesAgree
<1>16. ASSUME NEW p \in Operation PROVE Asks(p)' /\ HolderKnows(p)'
  <2>1. Asks(p)
    BY DEF ProductionInv
  <2>2. CASE p = o
    <3>1. HolderKnows(o)'
      <4>1. op'[o].phase = "submitted" /\ op'[o].sent = n + 1 /\ op'[o].render = r
        BY <1>6, <1>8
      <4>2. n + 1 \in RenderedPicture' /\ submissions'[n + 1].render = r
        BY <1>1, <1>4, <1>5, <1>9 DEF n
      <4>3. attempt'[r].state = "submission_unknown"
        BY <1>1, <1>2
      <4> QED
        BY <4>1, <4>2, <4>3 DEF HolderKnows
    <3>2. Asks(o)'
      BY <2>1, <2>2, <1>0, <1>6, <1>8, <1>9 DEF Asks
    <3> QED
      BY <2>2, <3>1, <3>2
  <2>3. CASE p # o
    <3>1. op'[p] = op[p] /\ op[p].phase \notin Holding
      BY <1>0, <1>8, <2>3 DEF ProductionInv, OneHolder
    <3>2. HolderKnows(p)'
      BY <3>1 DEF HolderKnows, Holding
    <3> QED
      BY <2>1, <3>1, <3>2, <1>9 DEF Asks
  <2> QED
    BY <2>2, <2>3
<1>17. \A p \in stored' : \E q \in RenderId : approved'[q] = p
  BY <1>2 DEF ProductionInv
<1> QED
  BY <1>11, <1>12, <1>14, <1>15, <1>16, <1>17 DEF ProductionInv

-----------------------------------------------------------------------------
(* The console, the server's death, and the theorems. *)

LEMMA ProductionBeginStep ==
  ASSUME ProductionInv, NEW o \in Operation, RequestRender(o) \/ RequestFinalize(o)
  PROVE  ProductionInv'
<1>0. Len(submissions) \in Nat /\ op \in [Operation -> OpRecord(Len(submissions))]
  BY Types DEF ProductionInv
<1>1. PICK new : /\ op' = [op EXCEPT ![o] = new] /\ new \in OpRecord(Len(submissions))
                 /\ new.phase = "sent" /\ new.render \in RenderId
                 /\ \/ new.kind = "render" /\ new.digest \in Strategy
                    \/ new.kind = "finalize" /\ new.digest \in RenderedPicture
  <2>1. CASE RequestRender(o)
    <3>1. PICK r \in RenderId, s \in Strategy : Begin(o, Request("render", r, s))
      BY <2>1 DEF RequestRender
    <3> DEFINE new == Request("render", r, s)
    <3>2. /\ new \in OpRecord(Len(submissions)) /\ new.phase = "sent" /\ new.render = r
          /\ new.kind = "render" /\ new.digest = s
      BY DEF Request, OpRecord, Phase
    <3>3. op' = [op EXCEPT ![o] = new]
      BY <3>1 DEF Begin
    <3> HIDE DEF new
    <3> QED
      BY <3>2, <3>3
  <2>2. CASE RequestFinalize(o)
    <3>1. PICK r \in RenderId, s \in RenderedPicture : Begin(o, Request("finalize", r, s))
      BY <2>2 DEF RequestFinalize
    <3> DEFINE new == Request("finalize", r, s)
    <3>2. /\ new \in OpRecord(Len(submissions)) /\ new.phase = "sent" /\ new.render = r
          /\ new.kind = "finalize" /\ new.digest = s
      BY DEF Request, OpRecord, Phase, RenderedPicture
    <3>3. op' = [op EXCEPT ![o] = new]
      BY <3>1 DEF Begin
    <3> HIDE DEF new
    <3> QED
      BY <3>2, <3>3
  <2> QED
    BY <2>1, <2>2
<1>2. FilesStay /\ UNCHANGED <<lock, productionCrashes>> /\ op[o].phase = "idle"
  BY DEF RequestRender, RequestFinalize, Begin, FilesStay, files
<1>3. /\ op' \in [Operation -> OpRecord(Len(submissions))] /\ op'[o] = new
      /\ \A p \in Operation : p # o => op'[p] = op[p]
  BY <1>0, <1>1
<1>4. ProductionTypeOK'
  BY <1>2, <1>3 DEF ProductionInv, ProductionTypeOK, FilesStay, OpRecord, Phase, RenderedPicture
<1>5. "sent" \notin Holding
  BY DEF Holding
<1>6. OneHolder'
  BY <1>1, <1>2, <1>3, <1>5 DEF ProductionInv, OneHolder
<1>7. ASSUME NEW p \in Operation PROVE Asks(p)' /\ HolderKnows(p)'
  <2>1. Asks(p) /\ HolderKnows(p)
    BY DEF ProductionInv
  <2>2. CASE p = o
    BY <2>2, <1>1, <1>3, FilesStayKeeps, <1>2 DEF Asks, HolderKnows
  <2>3. CASE p # o
    <3>1. op'[p] = op[p]
      BY <1>3, <2>3
    <3> QED
      BY <2>1, <3>1, <1>2, FilesStayKeeps DEF Asks, HolderKnows, FilesStay
  <2> QED
    BY <2>2, <2>3
<1> QED
  BY <1>2, <1>4, <1>6, <1>7, FilesStayKeeps DEF ProductionInv

LEMMA ProductionCrashStep ==
  ASSUME ProductionInv, ProductionCrash
  PROVE  ProductionInv'
<1>0. Len(submissions) \in Nat /\ op \in [Operation -> OpRecord(Len(submissions))]
  BY Types DEF ProductionInv
<1>1. FilesStay /\ UNCHANGED lock /\ productionCrashes' = productionCrashes + 1
      /\ productionCrashes < ProductionCrashBound
  BY DEF ProductionCrash, FilesStay, files
<1>2. ASSUME NEW p \in Operation
      PROVE  /\ op'[p] \in OpRecord(Len(submissions)) /\ op'[p].phase \in {"idle", "done", "failed"}
             /\ op[p].phase = "idle" => op'[p].phase = "idle"
             /\ op'[p].render = op[p].render /\ op'[p].kind = op[p].kind /\ op'[p].digest = op[p].digest
  <2>1. op'[p] = IF op[p].phase \in {"idle", "done", "failed"} THEN op[p]
                 ELSE [op[p] EXCEPT !.phase = "failed"]
    BY DEF ProductionCrash
  <2>2. op[p] \in OpRecord(Len(submissions))
    BY <1>0
  <2> QED
    BY <2>1, <2>2 DEF OpRecord, Phase
<1>3. op' \in [Operation -> OpRecord(Len(submissions))]
  BY <1>2 DEF ProductionCrash
<1>4. productionCrashes' \in 0..ProductionCrashBound
  BY <1>1, ProductionAssumption DEF ProductionInv, ProductionTypeOK
<1>5. ProductionTypeOK'
  BY <1>1, <1>3, <1>4 DEF ProductionInv, ProductionTypeOK, FilesStay, OpRecord, Phase, RenderedPicture
<1>6. OneHolder'
  BY <1>2 DEF OneHolder, Holding
<1>7. ASSUME NEW p \in Operation PROVE Asks(p)' /\ HolderKnows(p)'
  <2>1. Asks(p)
    BY DEF ProductionInv
  <2>2. RenderedPicture' = RenderedPicture
    BY <1>1, FilesStayKeeps
  <2>3. Asks(p)'
    BY <2>1, <2>2, <1>2 DEF Asks
  <2>4. HolderKnows(p)'
    BY <1>2 DEF HolderKnows
  <2> QED
    BY <2>3, <2>4
<1> QED
  BY <1>1, <1>5, <1>6, <1>7, FilesStayKeeps DEF ProductionInv

\* Saving the source or the plan, and a person who removes a lock left behind.
LEMMA ConsoleStep ==
  ASSUME ProductionInv, SaveSource \/ (\E s \in Strategy : SavePlan(s)) \/ RemoveLock
  PROVE  ProductionInv'
<1>1. /\ UNCHANGED <<attempt, image, review, approved, uploaded, stored, submissions, op, productionCrashes>>
      /\ \/ UNCHANGED lock
         \/ \A o \in Operation : op[o].phase \notin Holding
      /\ \/ plan' = plan
         \/ plan = Unset /\ plan' \in Strategy
      /\ source' \in BOOLEAN /\ lock' \in BOOLEAN
  BY DEF SaveSource, SavePlan, RemoveLock, ProductionInv, ProductionTypeOK
<1>2. ProductionTypeOK'
  BY <1>1 DEF ProductionInv, ProductionTypeOK, RenderedPicture
<1>3. OneHolder'
  BY <1>1 DEF ProductionInv, OneHolder
<1>4. \A p \in Operation : Asks(p)' /\ HolderKnows(p)'
  BY <1>1 DEF ProductionInv, Asks, HolderKnows, Sent, RenderedPicture
<1>5. \A r \in RenderId : FilesAgree(r)'
  BY <1>1 DEF ProductionInv, FilesAgree, Sent, RenderedPicture
<1>6. SubmissionsApproved'
  <2>1. ASSUME NEW i \in RenderedPicture PROVE submissions[i].approval = plan'
    <3>1. submissions[i].approval = plan
      BY DEF ProductionInv, SubmissionsApproved
    <3>2. submissions[i].approval \in Strategy
      <4> DEFINE T == [render : RenderId, approval : Strategy]
      <4>1. submissions \in Seq(T) /\ i \in 1..Len(submissions)
        BY DEF ProductionInv, ProductionTypeOK, RenderedPicture
      <4>2. submissions[i] \in T
        <5> HIDE DEF T
        <5> QED
          BY <4>1, ElementOfSeq
      <4> QED
        BY <4>2
    <3> QED
      BY <3>1, <3>2, <1>1, ProductionAssumption
  <2> QED
    BY <2>1, <1>1 DEF ProductionInv, SubmissionsApproved, RenderedPicture
<1> QED
  BY <1>1, <1>2, <1>3, <1>4, <1>5, <1>6 DEF ProductionInv

LEMMA StutterStep ==
  ASSUME ProductionInv, UNCHANGED productionVars
  PROVE  ProductionInv'
<1>1. FilesStay /\ UNCHANGED <<lock, op, productionCrashes>>
  BY DEF productionVars, files, FilesStay
<1> QED
  BY <1>1, FilesStayKeeps DEF ProductionInv, ProductionTypeOK, OneHolder, Asks, HolderKnows, FilesStay, RenderedPicture

LEMMA ProductionInvStep == ProductionInv /\ [ProductionNext]_productionVars => ProductionInv'
<1> SUFFICES ASSUME ProductionInv, [ProductionNext]_productionVars PROVE ProductionInv'
  OBVIOUS
<1>1. CASE UNCHANGED productionVars
  BY <1>1, StutterStep
<1>2. CASE SaveSource \/ (\E s \in Strategy : SavePlan(s)) \/ RemoveLock
  BY <1>2, ConsoleStep
<1>3. CASE ProductionCrash
  BY <1>3, ProductionCrashStep
<1>4. ASSUME NEW o \in Operation, RequestRender(o) \/ RequestFinalize(o) PROVE ProductionInv'
  BY <1>4, ProductionBeginStep
<1>5. ASSUME NEW o \in Operation,
             \/ Lock(o) \/ FailLocked(o) \/ OperationFails(o) \/ AnswerReview(o) \/ Resume(o)
             \/ RefuseResubmission(o) \/ AnswerUploaded(o) \/ FinishFinalize(o)
      PROVE  ProductionInv'
  BY <1>5, QuietSteps
<1>6. ASSUME NEW o \in Operation,
             ApproveStrategy(o) \/ MarkSubmission(o) \/ SubmissionFails(o) \/ Accepted(o) \/ FinishRender(o)
      PROVE  ProductionInv'
  BY <1>6, AttemptSteps
<1>7. ASSUME NEW o \in Operation,
             FetchImage(o) \/ SaveReview(o) \/ ApproveImage(o) \/ Upload(o) \/ SaveUploaded(o)
      PROVE  ProductionInv'
  BY <1>7, FileSteps
<1>8. ASSUME NEW o \in Operation, Submit(o) PROVE ProductionInv'
  BY <1>8, SubmitStep
<1> QED
  BY <1>1, <1>2, <1>3, <1>4, <1>5, <1>6, <1>7, <1>8 DEF ProductionNext

LEMMA ProductionInvAlways == ProductionSpec => []ProductionInv
  BY ProductionInvInit, ProductionInvStep, PTL DEF ProductionSpec

LEMMA ProductionInvImplies == ProductionInv => ProductionConsistent
<1> SUFFICES ASSUME ProductionInv PROVE ProductionConsistent
  OBVIOUS
<1>1. ProductionTypeOK /\ SubmittedOnceAsApproved
  BY DEF ProductionInv, SubmissionsApproved, SubmittedOnceAsApproved
<1>2. ASSUME NEW r \in RenderId, review[r] # 0
      PROVE  image[r] = review[r] /\ submissions[review[r]].render = r
  <2>1. FilesAgree(r)
    BY DEF ProductionInv
  <2>2. review[r] = attempt[r].request /\ image[r] = review[r]
    BY <1>2, <2>1 DEF FilesAgree
  <2> QED
    BY <1>2, <2>1, <2>2 DEF FilesAgree
<1>3. ASSUME NEW r \in RenderId, uploaded[r] # 0
      PROVE  uploaded[r] = review[r] /\ approved[r] = review[r] /\ uploaded[r] \in stored
  <2>1. FilesAgree(r)
    BY DEF ProductionInv
  <2> QED
    BY <1>3, <2>1 DEF FilesAgree
<1>4. UploadsWereReviewed
  BY <1>2, <1>3 DEF UploadsWereReviewed, ProductionInv
<1> QED
  BY <1>1, <1>4 DEF ProductionConsistent

\* What is bought was approved, what is published was reviewed, and each once,
\* whichever operations of the console run and die side by side.
THEOREM ProductionStaysConsistent == ProductionSpec => []ProductionConsistent
  BY ProductionInvAlways, ProductionInvImplies, PTL

\* The step of ReviewIsFinal.
ReviewKept ==
  \A r \in RenderId :
    /\ review[r] # 0   => review'[r] = review[r] /\ image'[r] = image[r]
    /\ approved[r] # 0 => approved'[r] = approved[r]

LEMMA ReviewKeptStep == ProductionInv /\ [ProductionNext]_productionVars => [ReviewKept]_files
<1> SUFFICES ASSUME ProductionInv, ProductionNext, NEW r \in RenderId
             PROVE  /\ review[r] # 0   => review'[r] = review[r] /\ image'[r] = image[r]
                    /\ approved[r] # 0 => approved'[r] = approved[r]
  BY DEF ReviewKept, productionVars
<1>0. image \in [RenderId -> {0} \cup RenderedPicture] /\ review \in [RenderId -> {0} \cup RenderedPicture]
      /\ approved \in [RenderId -> {0} \cup RenderedPicture]
  BY DEF ProductionInv, ProductionTypeOK
<1>1. CASE UNCHANGED <<image, review, approved>>
  BY <1>1
<1>2. ASSUME NEW o \in Operation, FetchImage(o) \/ SaveReview(o)
      PROVE  /\ review[r] # 0   => review'[r] = review[r] /\ image'[r] = image[r]
             /\ approved' = approved
  <2>1. op[o].phase \in {"pending", "imaged"}
    BY <1>2 DEF FetchImage, SaveReview
  <2>2. Of(o) \in RenderId /\ review[Of(o)] = 0
    BY <2>1, Facts DEF HolderKnows
  <2> QED
    BY <1>0, <1>2, <2>2 DEF FetchImage, SaveReview
<1>3. ASSUME NEW o \in Operation, ApproveImage(o)
      PROVE  UNCHANGED <<image, review>> /\ (approved[r] # 0 => approved'[r] = approved[r])
  BY <1>0, <1>3 DEF ApproveImage
<1>4. ASSUME SaveSource \/ (\E s \in Strategy : SavePlan(s)) \/ ProductionCrash \/ RemoveLock
      PROVE  UNCHANGED <<image, review, approved>>
  BY <1>4 DEF SaveSource, SavePlan, ProductionCrash, RemoveLock, files
<1>5. ASSUME NEW o \in Operation,
             \/ RequestRender(o) \/ RequestFinalize(o) \/ Lock(o) \/ FailLocked(o)
             \/ OperationFails(o) \/ AnswerReview(o) \/ ApproveStrategy(o) \/ Resume(o)
             \/ RefuseResubmission(o) \/ MarkSubmission(o)
      PROVE  UNCHANGED <<image, review, approved>>
  BY <1>5 DEF RequestRender, RequestFinalize, Begin, Lock, FailLocked, OperationFails,
              AnswerReview, ApproveStrategy, Resume, RefuseResubmission, MarkSubmission, files
<1>6. ASSUME NEW o \in Operation,
             \/ Submit(o) \/ SubmissionFails(o) \/ Accepted(o) \/ FinishRender(o)
             \/ AnswerUploaded(o) \/ Upload(o) \/ SaveUploaded(o) \/ FinishFinalize(o)
      PROVE  UNCHANGED <<image, review, approved>>
  BY <1>6 DEF Submit, SubmissionFails, Accepted, FinishRender, AnswerUploaded, Upload,
              SaveUploaded, FinishFinalize, files
<1> QED
  BY <1>1, <1>2, <1>3, <1>4, <1>5, <1>6 DEF ProductionNext

\* A review, once answered, is never another one, and neither is its approval.
THEOREM ReviewsStay == ProductionSpec => ReviewIsFinal
BY ReviewKeptStep, ProductionInvAlways, PTL DEF ProductionSpec, ReviewIsFinal, ReviewKept
-----------------------------------------------------------------------------
(***************************************************************************)
(* The routes of a picture are asked and reported as they should, for any  *)
(* reference pictures and any time limits that leave the backup a share.   *)
(***************************************************************************)

RoutesEntry(r, how) == [route |-> r, outcome |-> how]
Trouble == {"rejected", "failed_or_unknown"}

\* Every attempt on record is told as the provider would tell it.
Truthful(r, how) ==
  /\ how = "rejected" => order[r] = "refused"
  /\ how = "succeeded" => Pays(r)

PrimaryStep == {"reading", "editing"}
BackupStep == {"submitting", "saving", "polling", "downloading"}

\* What each route's order may be, and the backup's job beside it.
OrdersInv ==
  /\ order["primary"] \in {"none", "posted", "served", "refused"}
  /\ order["backup"] \in {"none", "posted", "accepted", "refused"}
  /\ order["backup"] = "accepted" <=> job # "none"
  /\ "primary" \notin configured => order["primary"] = "none"
  /\ order["backup"] # "none" => submitted <= PrimaryTime /\ "backup" \in configured
  /\ receipt => order["backup"] = "accepted"
  /\ routeStep = "reading" => order["primary"] = "none"
  /\ routeStep \in PrimaryStep =>
       /\ order["backup"] = "none" /\ "primary" \in configured
       /\ "backup" \in configured => now <= PrimaryTime
  /\ routeStep \in BackupStep => order["backup"] # "none"
  /\ routeStep \in BackupStep \ {"submitting"} => order["backup"] = "accepted"
  /\ routeStep \in {"polling", "downloading"} => receipt
  /\ edited # "none" <=> routeStep = "ended"

\* The attempts on record while the edit is with its primary or backup route.
PrimaryTrail == tried = <<>> /\ order["backup"] = "none"
BackupTrail ==
  \/ "primary" \notin configured /\ tried = <<>>
  \/ \E how \in Trouble : tried = <<RoutesEntry("primary", how)>> /\ Truthful("primary", how)

\* How the record of an edit ends: with one route alone, or with both.
LoneTrail(r, how) ==
  /\ tried = <<RoutesEntry(r, how)>> /\ Truthful(r, how)
  /\ r = "primary" => order["backup"] = "none"
  /\ r = "backup" => "primary" \notin configured
BothTrail(first, how) ==
  /\ first \in Trouble /\ Truthful("primary", first)
  /\ tried = <<RoutesEntry("primary", first), RoutesEntry("backup", how)>> /\ Truthful("backup", how)
EndedTrail(how) ==
  \/ \E r \in configured : LoneTrail(r, how)
  \/ \E first \in Trouble : BothTrail(first, how)

TrailInv ==
  /\ routeStep \in PrimaryStep => PrimaryTrail
  /\ routeStep \in BackupStep => BackupTrail
  /\ routeStep = "gone" => PrimaryTrail \/ BackupTrail
  /\ routeStep = "ended" =>
       \/ edited = "image" /\ EndedTrail("succeeded")
       \/ edited = "failed" /\ \E how \in Trouble : EndedTrail(how)
  /\ edited = "failed" /\ caller = "waiting" /\ "backup" \in configured
       => order["backup"] # "none"

RoutesInv == RoutesTypeOK /\ OrdersInv /\ TrailInv

USE DEF Route, Configuration, FirstStep, provider

-----------------------------------------------------------------------------
(* Trails as sequences. *)

LEMMA EntryType ==
  ASSUME NEW r \in Route, NEW how \in Outcome
  PROVE  RoutesEntry(r, how) \in [route : Route, outcome : Outcome]
BY DEF RoutesEntry

LEMMA RangeOfNone == Range(<<>>) = {}
BY DEF Range

LEMMA RangeOfOne == ASSUME NEW a PROVE Range(<<a>>) = {a}
<1>1. DOMAIN <<a>> = {1}
  OBVIOUS
<1> QED
  BY <1>1 DEF Range

LEMMA RangeOfTwo == ASSUME NEW a, NEW b PROVE Range(<<a, b>>) = {a, b}
<1>1. DOMAIN <<a, b>> = {1, 2}
  OBVIOUS
<1> QED
  BY <1>1 DEF Range

LEMMA AppendToNone == ASSUME NEW a PROVE Append(<<>>, a) = <<a>>
OBVIOUS
LEMMA AppendToOne == ASSUME NEW a, NEW b PROVE Append(<<a>>, b) = <<a, b>>
<1> DEFINE S == {a, b}
<1>1. <<a>> \in Seq(S) /\ <<a, b>> \in Seq(S) /\ b \in S
  OBVIOUS
<1>2. Len(<<a>>) = 1 /\ <<a>>[1] = a /\ Len(<<a, b>>) = 2 /\ <<a, b>>[1] = a /\ <<a, b>>[2] = b
  OBVIOUS
<1> HIDE DEF S
<1>3. /\ Append(<<a>>, b) \in Seq(S) /\ Len(Append(<<a>>, b)) = 2
      /\ Append(<<a>>, b)[1] = a /\ Append(<<a>>, b)[2] = b
  BY <1>1, <1>2, AppendProperties
<1>4. \A i \in 1..2 : Append(<<a>>, b)[i] = <<a, b>>[i]
  BY <1>2, <1>3
<1> QED
  BY <1>1, <1>2, <1>3, <1>4, SeqEqual

LEMMA Times ==
  /\ ReferenceTime \in Nat /\ PrimaryTime \in Nat /\ SubmitTime \in Nat /\ TotalTime \in Nat
  /\ ReferenceTime <= PrimaryTime /\ PrimaryTime < TotalTime
BY RoutesAssumption

LEMMA RoutesInvInit == RoutesInit => RoutesInv
<1> SUFFICES ASSUME RoutesInit PROVE RoutesInv
  OBVIOUS
<1>0. /\ order \in [Route -> {"none", "posted", "served", "accepted", "refused"}]
      /\ tried \in Seq([route : Route, outcome : Outcome]) /\ Len(tried) <= 2
  BY DEF RoutesInit
<1>a. now \in 0..TotalTime /\ submitted \in 0..TotalTime
  BY Times DEF RoutesInit
<1>1. RoutesTypeOK
  BY <1>0, <1>a DEF RoutesInit, RoutesTypeOK
<1>2. OrdersInv
  BY Times DEF RoutesInit, OrdersInv, PrimaryStep, BackupStep
<1>3. TrailInv
  BY DEF RoutesInit, TrailInv, PrimaryStep, BackupStep, PrimaryTrail, BackupTrail
<1> QED
  BY <1>1, <1>2, <1>3 DEF RoutesInv

-----------------------------------------------------------------------------
(* How a route ends. *)

\* The step that tries no backup leaves everything but the record alone.
LEMMA SucceedsKeeps ==
  ASSUME RoutesInv, NEW r \in Route, RouteSucceeds(r), Pays(r),
         r = "primary" <=> routeStep \in PrimaryStep,
         routeStep \in PrimaryStep \union BackupStep
  PROVE  RoutesInv'
<1> USE DEF RoutesInv
<1>1. PICK e : e = RoutesEntry(r, "succeeded") /\ e \in [route : Route, outcome : Outcome]
               /\ tried' = Append(tried, e)
  BY EntryType DEF Outcome, RouteSucceeds, RoutesEntry
<1>0. /\ tried \in Seq([route : Route, outcome : Outcome]) /\ Len(tried) <= 1
      /\ tried' \in Seq([route : Route, outcome : Outcome]) /\ Len(tried') <= 2
  <2>0. tried = <<>> \/ \E first \in Trouble : tried = <<RoutesEntry("primary", first)>>
    BY DEF TrailInv, PrimaryTrail, BackupTrail
  <2>1. Len(tried) <= 1
    <3>1. CASE tried = <<>>
      BY <3>1
    <3>2. CASE \E first \in Trouble : tried = <<RoutesEntry("primary", first)>>
      <4>1. PICK first \in Trouble : tried = <<RoutesEntry("primary", first)>>
        BY <3>2
      <4>2. Len(tried) = 1
        BY <4>1
      <4> QED
        BY <4>2
    <3> QED
      BY <2>0, <3>1, <3>2, Zenon
  <2>5. tried \in Seq([route : Route, outcome : Outcome])
    BY DEF RoutesTypeOK
  <2> DEFINE S == [route : Route, outcome : Outcome]
  <2> HIDE DEF S
  <2>2. tried \in Seq(S) /\ e \in S /\ tried' = Append(tried, e)
    BY <1>1, <2>5 DEF S
  <2>3. tried' \in Seq(S) /\ Len(tried') = Len(tried) + 1 /\ Len(tried) \in Nat
    BY <2>2, AppendProperties, LenProperties
  <2>4. Len(tried') <= 2
    BY <2>1, <2>3
  <2> QED
    BY <2>1, <2>3, <2>4, <2>5 DEF S
<1>2. EndedTrail("succeeded")'
  <2>1. CASE routeStep \in PrimaryStep
    <3>1. r = "primary" /\ r \in configured /\ tried' = <<RoutesEntry(r, "succeeded")>>
      BY <2>1, <1>1, AppendToNone DEF TrailInv, PrimaryTrail, OrdersInv
    <3>2. LoneTrail(r, "succeeded")'
      BY <3>1, <2>1 DEF LoneTrail, TrailInv, PrimaryTrail, RouteSucceeds, Truthful, Pays
    <3> QED
      BY <3>1, <3>2 DEF EndedTrail, RouteSucceeds
  <2>2. CASE routeStep \in BackupStep
    <3>1. r = "backup" /\ r \in configured /\ BackupTrail
      BY <2>2 DEF TrailInv, OrdersInv, PrimaryStep, BackupStep
    <3>2. CASE "primary" \notin configured /\ tried = <<>>
      <4>1. tried' = <<RoutesEntry(r, "succeeded")>>
        BY <1>1, <3>2, AppendToNone
      <4>2. LoneTrail(r, "succeeded")'
        BY <4>1, <3>1, <3>2 DEF LoneTrail, RouteSucceeds, Truthful, Pays
      <4>3. configured' = configured
        BY DEF RouteSucceeds
      <4> QED
        BY <4>2, <4>3, <3>1 DEF EndedTrail
    <3>3. CASE \E how \in Trouble : tried = <<RoutesEntry("primary", how)>> /\ Truthful("primary", how)
      <4>1. PICK how \in Trouble : tried = <<RoutesEntry("primary", how)>> /\ Truthful("primary", how)
        BY <3>3
      <4>2. tried' = <<RoutesEntry("primary", how), RoutesEntry("backup", "succeeded")>>
        BY <1>1, <4>1, <3>1, AppendToOne
      <4>3. BothTrail(how, "succeeded")'
        BY <4>1, <4>2, <3>1 DEF BothTrail, RouteSucceeds, Truthful, Pays
      <4> QED
        BY <4>2, <4>3 DEF EndedTrail
    <3> QED
      BY <3>1, <3>2, <3>3 DEF BackupTrail
  <2> QED
    BY <2>1, <2>2
<1>3. RoutesTypeOK'
  BY <1>0 DEF RoutesTypeOK, RouteSucceeds
<1>4. OrdersInv'
  BY DEF OrdersInv, RouteSucceeds, PrimaryStep, BackupStep
<1>5. TrailInv'
  BY <1>2 DEF TrailInv, RouteSucceeds, PrimaryStep, BackupStep
<1> QED
  BY <1>3, <1>4, <1>5

LEMMA FailsKeeps ==
  ASSUME RoutesInv, NEW r \in Route, NEW how \in Trouble, RouteFails(r, how), Truthful(r, how),
         r = "primary" <=> routeStep \in PrimaryStep,
         routeStep \in PrimaryStep \union BackupStep
  PROVE  RoutesInv'
<1> USE DEF RoutesInv
<1>1. PICK e : e = RoutesEntry(r, how) /\ e \in [route : Route, outcome : Outcome]
               /\ tried' = Append(tried, e)
  BY EntryType DEF Outcome, Trouble, RouteFails, RoutesEntry
<1>0. /\ tried \in Seq([route : Route, outcome : Outcome]) /\ Len(tried) <= 1
      /\ tried' \in Seq([route : Route, outcome : Outcome]) /\ Len(tried') <= 2
  <2>0. tried = <<>> \/ \E first \in Trouble : tried = <<RoutesEntry("primary", first)>>
    BY DEF TrailInv, PrimaryTrail, BackupTrail
  <2>1. Len(tried) <= 1
    <3>1. CASE tried = <<>>
      BY <3>1
    <3>2. CASE \E first \in Trouble : tried = <<RoutesEntry("primary", first)>>
      <4>1. PICK first \in Trouble : tried = <<RoutesEntry("primary", first)>>
        BY <3>2
      <4>2. Len(tried) = 1
        BY <4>1
      <4> QED
        BY <4>2
    <3> QED
      BY <2>0, <3>1, <3>2, Zenon
  <2>5. tried \in Seq([route : Route, outcome : Outcome])
    BY DEF RoutesTypeOK
  <2> DEFINE S == [route : Route, outcome : Outcome]
  <2> HIDE DEF S
  <2>2. tried \in Seq(S) /\ e \in S /\ tried' = Append(tried, e)
    BY <1>1, <2>5 DEF S
  <2>3. tried' \in Seq(S) /\ Len(tried') = Len(tried) + 1 /\ Len(tried) \in Nat
    BY <2>2, AppendProperties, LenProperties
  <2>4. Len(tried') <= 2
    BY <2>1, <2>3
  <2> QED
    BY <2>1, <2>3, <2>4, <2>5 DEF S
<1>2. CASE MaySwitch(r)
  <2>1. /\ r = "primary" /\ "backup" \in configured /\ ~Aborted /\ routeStep \in PrimaryStep
        /\ routeStep' = "submitting" /\ submitted' = now
        /\ order' = [order EXCEPT !["backup"] = "posted"]
        /\ UNCHANGED <<configured, caller, now, readSoFar, job, receipt, edited>>
    BY <1>2 DEF MaySwitch, RouteFails
  <2>2. order \in [Route -> {"none", "posted", "served", "accepted", "refused"}]
    BY DEF RoutesTypeOK
  <2>3. order'["primary"] = order["primary"] /\ order'["backup"] = "posted"
        /\ order' \in [Route -> {"none", "posted", "served", "accepted", "refused"}]
    BY <2>1, <2>2
  <2>4. tried = <<>> /\ order["backup"] = "none" /\ tried' = <<RoutesEntry("primary", how)>>
    BY <2>1, <1>1, AppendToNone DEF TrailInv, PrimaryTrail
  <2>5. BackupTrail'
    BY <2>3, <2>4 DEF BackupTrail, Truthful, Pays, Trouble
  <2>6. RoutesTypeOK'
    BY <1>0, <2>1, <2>3 DEF RoutesTypeOK
  <2>7. now <= PrimaryTime
    BY <2>1 DEF OrdersInv
  <2>8. OrdersInv'
    BY <2>1, <2>3, <2>4, <2>7 DEF OrdersInv, PrimaryStep, BackupStep
  <2>9. edited = "none" /\ TrailInv'
    BY <2>1, <2>5 DEF TrailInv, PrimaryStep, BackupStep, RoutesTypeOK, OrdersInv
  <2> QED
    BY <2>6, <2>8, <2>9
<1>3. CASE ~MaySwitch(r)
  <2>1. /\ routeStep' = "ended" /\ edited' = "failed"
        /\ UNCHANGED <<configured, caller, now, readSoFar, job, receipt, submitted, order>>
    BY <1>3 DEF RouteFails
  <2>2. EndedTrail(how)'
    <3>1. CASE routeStep \in PrimaryStep
      <4>1. r = "primary" /\ r \in configured /\ tried' = <<RoutesEntry(r, how)>>
        BY <3>1, <1>1, AppendToNone DEF TrailInv, PrimaryTrail, OrdersInv
      <4>2. LoneTrail(r, how)'
        BY <4>1, <3>1, <2>1 DEF LoneTrail, TrailInv, PrimaryTrail, Truthful, Pays
      <4> QED
        BY <4>1, <4>2, <2>1 DEF EndedTrail
    <3>2. CASE routeStep \in BackupStep
      <4>1. r = "backup" /\ r \in configured /\ BackupTrail
        BY <3>2 DEF TrailInv, OrdersInv, PrimaryStep, BackupStep
      <4>2. CASE "primary" \notin configured /\ tried = <<>>
        <5>1. tried' = <<RoutesEntry(r, how)>>
          BY <1>1, <4>2, AppendToNone
        <5>2. LoneTrail(r, how)'
          BY <5>1, <4>1, <4>2, <2>1 DEF LoneTrail, Truthful, Pays
        <5> QED
          BY <5>1, <5>2, <4>1, <2>1 DEF EndedTrail
      <4>3. CASE \E first \in Trouble : tried = <<RoutesEntry("primary", first)>> /\ Truthful("primary", first)
        <5>1. PICK first \in Trouble : tried = <<RoutesEntry("primary", first)>> /\ Truthful("primary", first)
          BY <4>3
        <5>2. tried' = <<RoutesEntry("primary", first), RoutesEntry("backup", how)>>
          BY <1>1, <5>1, <4>1, AppendToOne
        <5>3. BothTrail(first, how)'
          BY <5>1, <5>2, <4>1, <2>1 DEF BothTrail, Truthful, Pays
        <5> QED
          BY <5>2, <5>3 DEF EndedTrail
      <4> QED
        BY <4>1, <4>2, <4>3 DEF BackupTrail
    <3> QED
      BY <3>1, <3>2
  <2>3. RoutesTypeOK'
    BY <1>0, <2>1 DEF RoutesTypeOK
  <2>4. OrdersInv'
    BY <2>1 DEF OrdersInv, PrimaryStep, BackupStep
  <2>5. caller = "waiting" /\ "backup" \in configured => order["backup"] # "none"
    <3> SUFFICES ASSUME caller = "waiting", "backup" \in configured, order["backup"] = "none"
                 PROVE  FALSE
      OBVIOUS
    <3>1. routeStep \in PrimaryStep /\ r = "primary"
      BY DEF OrdersInv
    <3>2. now <= PrimaryTime /\ now \in Nat
      BY <3>1 DEF OrdersInv, RoutesTypeOK
    <3>3. ~Aborted
      BY <3>2, Times DEF Aborted
    <3> QED
      BY <3>1, <3>3, <1>3 DEF MaySwitch
  <2>6. TrailInv'
    BY <2>1, <2>2, <2>5 DEF TrailInv, PrimaryStep, BackupStep
  <2> QED
    BY <2>3, <2>4, <2>6
<1> QED
  BY <1>2, <1>3

-----------------------------------------------------------------------------
(* The other steps. *)

\* A step that leaves the record, the orders and the result alone, and the
\* limits of the primary route.
LEMMA ReadingKeeps ==
  ASSUME RoutesInv, NEW u \in References, ReadReference(u)
  PROVE  RoutesInv'
<1> USE DEF RoutesInv
<1>1. /\ routeStep = "reading"
      /\ UNCHANGED <<configured, caller, now, submitted, job, receipt, tried, edited>>
      /\ readSoFar' \subseteq References
  BY DEF ReadReference, RoutesTypeOK
<1>2. order \in [Route -> {"none", "posted", "served", "accepted", "refused"}]
  BY DEF RoutesTypeOK
<1>3. \/ routeStep' = "editing" /\ order' = [order EXCEPT !["primary"] = "posted"]
      \/ UNCHANGED <<routeStep, order>>
  BY DEF ReadReference
<1>4. CASE UNCHANGED <<routeStep, order>>
  <2>1. RoutesTypeOK'
    BY <1>1, <1>4 DEF RoutesTypeOK
  <2>2. OrdersInv'
    BY <1>1, <1>4 DEF OrdersInv, PrimaryStep, BackupStep
  <2>3. TrailInv'
    BY <1>1, <1>4 DEF TrailInv, PrimaryStep, BackupStep, PrimaryTrail, BackupTrail
  <2> QED
    BY <2>1, <2>2, <2>3
<1>5. CASE routeStep' = "editing" /\ order' = [order EXCEPT !["primary"] = "posted"]
  <2>1. order'["backup"] = order["backup"] /\ order'["primary"] = "posted"
        /\ order' \in [Route -> {"none", "posted", "served", "accepted", "refused"}]
    BY <1>2, <1>5
  <2>2. RoutesTypeOK'
    BY <1>1, <1>5, <2>1 DEF RoutesTypeOK
  <2>3. OrdersInv'
    BY <1>1, <1>5, <2>1 DEF OrdersInv, PrimaryStep, BackupStep
  <2>4. TrailInv'
    BY <1>1, <1>5, <2>1 DEF TrailInv, PrimaryStep, BackupStep, PrimaryTrail, OrdersInv
  <2> QED
    BY <2>2, <2>3, <2>4
<1> QED
  BY <1>3, <1>4, <1>5

\* The backup route goes on: a receipt, its file, the job's end.
LEMMA BackupGoesOn ==
  ASSUME RoutesInv, JobAccepted \/ SaveReceipt \/ JobFound
  PROVE  RoutesInv'
<1> USE DEF RoutesInv
<1>1. /\ UNCHANGED <<configured, caller, now, readSoFar, submitted, order, job, tried, edited>>
      /\ routeStep \in BackupStep
      /\ \/ routeStep' = "saving" /\ order["backup"] = "accepted" /\ UNCHANGED receipt
         \/ routeStep' = "polling" /\ receipt' = TRUE /\ routeStep = "saving"
         \/ routeStep' = "downloading" /\ UNCHANGED receipt /\ routeStep = "polling"
  BY DEF JobAccepted, SaveReceipt, JobFound, BackupStep
<1>2. RoutesTypeOK'
  BY <1>1 DEF RoutesTypeOK
<1>3. OrdersInv'
  BY <1>1 DEF OrdersInv, PrimaryStep, BackupStep
<1>4. BackupTrail' /\ routeStep' \in BackupStep
  BY <1>1 DEF TrailInv, BackupTrail, Truthful, Pays, BackupStep
<1>5. TrailInv'
  BY <1>1, <1>4 DEF TrailInv, PrimaryStep, BackupStep, OrdersInv
<1> QED
  BY <1>2, <1>3, <1>5

\* A provider answers an order; what was said of earlier orders stays true.
LEMMA ProviderKeeps ==
  ASSUME RoutesInv, NEW r \in Route, NEW how \in {"served", "accepted", "refused"},
         r = "primary" => how # "accepted", r = "backup" => how # "served",
         ProviderAnswers(r, how)
  PROVE  RoutesInv'
<1> USE DEF RoutesInv
<1>1. /\ order[r] = "posted" /\ order' = [order EXCEPT ![r] = how]
      /\ job' = IF how = "accepted" THEN "pending" ELSE job
      /\ UNCHANGED <<configured, caller, now, routeStep, readSoFar, submitted, receipt, tried, edited>>
  BY DEF ProviderAnswers
<1>2. order \in [Route -> {"none", "posted", "served", "accepted", "refused"}]
  BY DEF RoutesTypeOK
<1>3. /\ order' \in [Route -> {"none", "posted", "served", "accepted", "refused"}]
      /\ order'[r] = how /\ \A q \in Route : q # r => order'[q] = order[q]
  BY <1>1, <1>2
<1>4. RoutesTypeOK'
  BY <1>1, <1>3 DEF RoutesTypeOK
<1>5. OrdersInv'
  BY <1>1, <1>3 DEF OrdersInv, PrimaryStep, BackupStep, RoutesTypeOK
<1>6. \A q \in Route : order[q] \in {"refused", "served", "accepted", "none"} => order'[q] = order[q]
  BY <1>1, <1>3
<1>7. ASSUME NEW q \in Route, NEW end \in Outcome, Truthful(q, end)
      PROVE  Truthful(q, end)'
  BY <1>6, <1>7 DEF Truthful, Pays
<1>8. BackupTrail => BackupTrail'
  BY <1>1, <1>7 DEF BackupTrail, Trouble, Outcome
<1>9. PrimaryTrail => PrimaryTrail'
  BY <1>1, <1>6 DEF PrimaryTrail
<1>10. ASSUME NEW end \in Outcome, EndedTrail(end) PROVE EndedTrail(end)'
  <2>1. ASSUME NEW q \in configured, LoneTrail(q, end) PROVE EndedTrail(end)'
    <3>1. q \in Route /\ q \in configured'
      BY <1>1 DEF RoutesTypeOK
    <3>2. LoneTrail(q, end)'
      BY <2>1, <3>1, <1>1, <1>6, <1>7 DEF LoneTrail
    <3> QED
      BY <3>1, <3>2 DEF EndedTrail
  <2>2. ASSUME NEW first \in Trouble, BothTrail(first, end) PROVE EndedTrail(end)'
    <3>1. BothTrail(first, end)'
      BY <2>2, <1>1, <1>7 DEF BothTrail, Trouble, Outcome
    <3> QED
      BY <3>1 DEF EndedTrail
  <2> QED
    BY <1>10, <2>1, <2>2 DEF EndedTrail
<1>11. "succeeded" \in Outcome /\ Trouble \subseteq Outcome
  BY DEF Outcome, Trouble
<1>12. routeStep = "ended" =>
         \/ edited' = "image" /\ EndedTrail("succeeded")'
         \/ edited' = "failed" /\ \E end \in Trouble : EndedTrail(end)'
  BY <1>1, <1>10, <1>11 DEF TrailInv
<1>13. order["backup"] # "none" => order'["backup"] # "none"
  BY <1>1, <1>3
<1>14. TrailInv'
  BY <1>1, <1>8, <1>9, <1>12, <1>13 DEF TrailInv
<1> QED
  BY <1>4, <1>5, <1>14

\* Steps that touch neither orders nor the record: the job ends, the caller
\* leaves, the service dies, time passes.
LEMMA WorldKeeps ==
  ASSUME RoutesInv,
         \/ \E how \in {"succeeded", "failed"} : JobEnds(how)
         \/ CallerLeaves \/ ServiceDies \/ Tick \/ UNCHANGED routeVars
  PROVE  RoutesInv'
<1> USE DEF RoutesInv
<1>1. /\ UNCHANGED <<configured, readSoFar, submitted, order, receipt, tried, edited>>
      /\ \/ job' = job
         \/ job' \in {"succeeded", "failed"} /\ job = "pending"
      /\ \/ routeStep' = routeStep
         \/ routeStep' = "gone" /\ routeStep \notin {"ended", "gone"}
      /\ \/ caller' = caller
         \/ caller' = "left"
      /\ \/ now' = now
         \/ /\ now' = now + 1 /\ routeStep' = routeStep /\ ~Aborted
            /\ routeStep = "reading" => now < ReferenceTime
            /\ routeStep = "editing" => now < PrimaryLimit
  BY DEF JobEnds, CallerLeaves, ServiceDies, Tick, routeVars
<1>2. now \in Nat /\ now <= TotalTime
  BY Times DEF RoutesTypeOK
<1>3. now' \in 0..TotalTime
  BY <1>1, <1>2, Times DEF Aborted
<1>4. RoutesTypeOK'
  BY <1>1, <1>3 DEF RoutesTypeOK
<1>5. routeStep' \in PrimaryStep /\ "backup" \in configured => now' <= PrimaryTime
  BY <1>1, <1>2, Times DEF PrimaryStep, PrimaryLimit, OrdersInv
<1>6. OrdersInv'
  BY <1>1, <1>5 DEF OrdersInv, PrimaryStep, BackupStep
<1>7. /\ PrimaryTrail => PrimaryTrail'
      /\ BackupTrail => BackupTrail'
      /\ \A how : EndedTrail(how) => EndedTrail(how)'
  BY <1>1 DEF PrimaryTrail, BackupTrail, EndedTrail, LoneTrail, BothTrail, Truthful, Pays
<1>8. routeStep' \in PrimaryStep \union BackupStep \union {"ended"} => routeStep' = routeStep
  BY <1>1 DEF PrimaryStep, BackupStep
<1>9. routeStep' = "gone" => routeStep \in PrimaryStep \union BackupStep \union {"gone"}
  BY <1>1 DEF RoutesTypeOK, PrimaryStep, BackupStep
<1>10. routeStep' = "ended" => routeStep = "ended"
  BY <1>8
<1>11. TrailInv'
  BY <1>1, <1>7, <1>8, <1>9, <1>10 DEF TrailInv
<1> QED
  BY <1>4, <1>6, <1>11

LEMMA RoutesInvStep == RoutesInv /\ [RoutesNext]_routeVars => RoutesInv'
<1> SUFFICES ASSUME RoutesInv, [RoutesNext]_routeVars PROVE RoutesInv'
  OBVIOUS
<1>1. ASSUME NEW u \in References, ReadReference(u) PROVE RoutesInv'
  BY <1>1, ReadingKeeps
<1>2. CASE ReferencesFail \/ PrimaryFails
  <2>1. RouteFails("primary", "failed_or_unknown") /\ routeStep \in PrimaryStep
        /\ Truthful("primary", "failed_or_unknown")
    BY <1>2 DEF ReferencesFail, PrimaryFails, PrimaryStep, Truthful
  <2> QED
    BY <2>1, FailsKeeps DEF Trouble
<1>3. CASE PrimaryRejects
  <2>1. RouteFails("primary", "rejected") /\ routeStep \in PrimaryStep
        /\ Truthful("primary", "rejected")
    BY <1>3 DEF PrimaryRejects, RejectionKnown, PrimaryStep, Truthful
  <2> QED
    BY <2>1, FailsKeeps DEF Trouble
<1>4. CASE PrimaryReturnsImage
  <2>1. RouteSucceeds("primary") /\ routeStep \in PrimaryStep /\ Pays("primary")
    BY <1>4 DEF PrimaryReturnsImage, PrimaryStep, Pays
  <2> QED
    BY <2>1, SucceedsKeeps
<1>5. CASE SubmitFails \/ SaveFails \/ JobLost \/ DownloadFails
  <2>1. RouteFails("backup", "failed_or_unknown") /\ routeStep \in BackupStep
        /\ routeStep \notin PrimaryStep /\ Truthful("backup", "failed_or_unknown")
    BY <1>5 DEF SubmitFails, SaveFails, JobLost, DownloadFails, PrimaryStep, BackupStep, Truthful
  <2> QED
    BY <2>1, FailsKeeps DEF Trouble
<1>6. CASE DownloadImage
  <2>1. RouteSucceeds("backup") /\ routeStep \in BackupStep /\ routeStep \notin PrimaryStep
        /\ Pays("backup")
    BY <1>6 DEF DownloadImage, PrimaryStep, BackupStep, Pays, RoutesInv, OrdersInv
  <2> QED
    BY <2>1, SucceedsKeeps
<1>7. CASE JobAccepted \/ SaveReceipt \/ JobFound
  BY <1>7, BackupGoesOn
<1>8. ASSUME NEW how \in {"served", "refused"}, ProviderAnswers("primary", how) PROVE RoutesInv'
  BY <1>8, ProviderKeeps
<1>9. ASSUME NEW how \in {"accepted", "refused"}, ProviderAnswers("backup", how) PROVE RoutesInv'
  BY <1>9, ProviderKeeps
<1>10. CASE \/ \E how \in {"succeeded", "failed"} : JobEnds(how)
            \/ CallerLeaves \/ ServiceDies \/ Tick \/ UNCHANGED routeVars
  BY <1>10, WorldKeeps
<1> QED
  BY <1>1, <1>2, <1>3, <1>4, <1>5, <1>6, <1>7, <1>8, <1>9, <1>10 DEF RoutesNext

-----------------------------------------------------------------------------
(* The theorems. *)

\* What the record of an edit that has ended says.
ToldInFull(how) ==
  /\ \A a \in Range(tried) : Truthful(a.route, a.outcome)
  /\ \A a \in Range(tried) : a.outcome = "succeeded" => how = "succeeded"
  /\ tried[Len(tried)].outcome = how /\ tried[Len(tried)] \in Range(tried)
  /\ \A r \in Route : order[r] # "none" => Tried(r)
  /\ "primary" \in configured => Tried("primary")
  /\ order["backup"] = "none" \/ Tried("backup")

LEMMA RoutesInvImplies == RoutesInv => PictureConsistent
<1> SUFFICES ASSUME RoutesInv PROVE PictureConsistent
  OBVIOUS
<1> USE DEF RoutesInv
<1>1. WaitedJobIsOnDisk
  BY DEF WaitedJobIsOnDisk, OrdersInv
<1>2. \A a, b : Range(<<a, b>>) = {a, b} /\ Range(<<a>>) = {a}
  BY RangeOfOne, RangeOfTwo
<1>3. \A r, how : RoutesEntry(r, how).route = r /\ RoutesEntry(r, how).outcome = how
  BY DEF RoutesEntry
<1>4. ASSUME NEW how \in Outcome, EndedTrail(how)
      PROVE  ToldInFull(how)
  <2>1. ASSUME NEW r \in configured, LoneTrail(r, how)
        PROVE  ToldInFull(how)
    <3>1. r \in Route /\ Range(tried) = {RoutesEntry(r, how)} /\ tried[Len(tried)] = RoutesEntry(r, how)
      BY <2>1, <1>2 DEF LoneTrail, RoutesTypeOK
    <3>2. Tried(r) /\ \A q \in Route : q # r => order[q] = "none"
      BY <2>1, <3>1, <1>3 DEF LoneTrail, OrdersInv, Tried
    <3>3. "primary" \in configured => r = "primary"
      BY <2>1, <3>1 DEF LoneTrail
    <3> QED
      BY <2>1, <3>1, <3>2, <3>3, <1>3 DEF LoneTrail, ToldInFull
  <2>2. ASSUME NEW first \in Trouble, BothTrail(first, how)
        PROVE  ToldInFull(how)
    <3>1. Range(tried) = {RoutesEntry("primary", first), RoutesEntry("backup", how)}
          /\ tried[Len(tried)] = RoutesEntry("backup", how)
      BY <2>2, <1>2 DEF BothTrail
    <3>2. Tried("primary") /\ Tried("backup")
      BY <3>1, <1>3 DEF Tried
    <3>3. Truthful("primary", first) /\ Truthful("backup", how) /\ first # "succeeded"
      BY <2>2 DEF BothTrail, Trouble
    <3> QED
      BY <3>1, <3>2, <3>3, <1>3 DEF ToldInFull
  <2> QED
    BY <1>4, <2>1, <2>2 DEF EndedTrail
<1>5. ASSUME PrimaryTrail \/ BackupTrail
      PROVE  /\ \A a \in Range(tried) : Truthful(a.route, a.outcome) /\ a.outcome # "succeeded"
             /\ order["backup"] # "none" /\ "primary" \in configured => Tried("primary")
  <2>1. CASE tried = <<>>
    BY <2>1, <1>5, RangeOfNone DEF PrimaryTrail, BackupTrail
  <2>2. CASE \E how \in Trouble : tried = <<RoutesEntry("primary", how)>> /\ Truthful("primary", how)
    BY <2>2, <1>2, <1>3 DEF Trouble, Tried
  <2> QED
    BY <1>5, <2>1, <2>2 DEF PrimaryTrail, BackupTrail
<1>6. routeStep # "ended" => PrimaryTrail \/ BackupTrail
  BY DEF TrailInv, RoutesTypeOK, PrimaryStep, BackupStep
<1>7. routeStep = "ended" <=> edited # "none"
  BY DEF OrdersInv
<1>8. edited = "image" => EndedTrail("succeeded")
  BY <1>7 DEF TrailInv
<1>9. edited = "failed" => \E how \in Trouble : EndedTrail(how)
  BY <1>7 DEF TrailInv
<1>10. "succeeded" \in Outcome /\ Trouble \subseteq Outcome /\ "succeeded" \notin Trouble
  BY DEF Outcome, Trouble
<1>11. EveryRouteIsAsked
  <2>1. ASSUME edited = "failed", caller = "waiting", NEW r \in configured PROVE Tried(r)
    <3>1. PICK how \in Trouble : EndedTrail(how)
      BY <1>9, <2>1
    <3>2. r \in Route /\ ("backup" \in configured => order["backup"] # "none")
      BY <2>1 DEF TrailInv, RoutesTypeOK
    <3> QED
      BY <3>1, <3>2, <1>4, <1>10 DEF ToldInFull
  <2> QED
    BY <2>1 DEF EveryRouteIsAsked, OrdersInv
<1>12. AttemptsAreHonest
  <2>1. \A a \in Range(tried) : Truthful(a.route, a.outcome)
    BY <1>4, <1>5, <1>6, <1>7, <1>8, <1>9, <1>10 DEF RoutesTypeOK, ToldInFull
  <2>2. \A a \in Range(tried) : a.outcome = "rejected" => ~Pays(a.route)
    BY <2>1 DEF Truthful, Pays
  <2>3. routeStep = "ended" => \A r \in Route : order[r] # "none" => Tried(r)
    BY <1>4, <1>7, <1>8, <1>9, <1>10 DEF RoutesTypeOK, ToldInFull
  <2>4. edited = "image" => /\ tried[Len(tried)].outcome = "succeeded"
                           /\ Pays(tried[Len(tried)].route)
                           /\ tried[Len(tried)] \in Range(tried)
    BY <1>4, <1>8, <1>10 DEF Truthful, ToldInFull
  <2>5. (\E a \in Range(tried) : a.outcome = "succeeded") => edited = "image"
    BY <1>4, <1>5, <1>6, <1>7, <1>9, <1>10 DEF RoutesTypeOK, ToldInFull
  <2>6. order["backup"] # "none" /\ "primary" \in configured => Tried("primary")
    BY <1>4, <1>5, <1>6, <1>7, <1>8, <1>9, <1>10 DEF RoutesTypeOK, ToldInFull
  <2> QED
    BY <2>2, <2>3, <2>4, <2>5, <2>6 DEF AttemptsAreHonest
<1> QED
  BY <1>1, <1>11, <1>12 DEF PictureConsistent

\* No route is left out, none is reported to have done what it did not, and a
\* job that is waited for can be found again, however providers answer, whenever
\* the caller leaves or the service dies.
THEOREM PictureStaysConsistent == RoutesSpec => []PictureConsistent
<1>1. RoutesSpec => []RoutesInv
  BY RoutesInvInit, RoutesInvStep, PTL DEF RoutesSpec
<1> QED
  BY <1>1, RoutesInvImplies, PTL

\* The step of NothingOrderedTooLate.
OrderTimely ==
  \A r \in Route : order[r] = "none" /\ order'[r] # "none" => ~Aborted

LEMMA OrderTimelyStep == RoutesInv /\ [RoutesNext]_routeVars => [OrderTimely]_routeVars
<1> SUFFICES ASSUME RoutesInv, RoutesNext, NEW r \in Route, order[r] = "none", order'[r] # "none"
             PROVE  ~Aborted
  BY DEF OrderTimely
<1>1. order \in [Route -> {"none", "posted", "served", "accepted", "refused"}]
  BY DEF RoutesInv, RoutesTypeOK
<1>2. ASSUME NEW u \in References, ReadReference(u) PROVE ~Aborted
  BY <1>2 DEF ReadReference
<1>3. ASSUME NEW q, NEW how, RouteFails(q, how) PROVE ~Aborted
  BY <1>3, <1>1 DEF RouteFails, MaySwitch
<1>4. ASSUME NEW q \in Route, NEW how, ProviderAnswers(q, how) PROVE FALSE
  BY <1>4, <1>1 DEF ProviderAnswers
<1>5. CASE UNCHANGED order
  BY <1>5
<1> QED
  BY <1>2, <1>3, <1>4, <1>5
     DEF RoutesNext, ReferencesFail, PrimaryReturnsImage, PrimaryRejects, PrimaryFails,
         JobAccepted, SubmitFails, SaveReceipt, SaveFails, JobFound, JobLost, DownloadImage,
         DownloadFails, RouteSucceeds, JobEnds, CallerLeaves, ServiceDies, Tick

\* Nothing is ordered for a caller who has left or whose time is over.
THEOREM NoLateOrder == RoutesSpec => NothingOrderedTooLate
BY RoutesInvInit, RoutesInvStep, OrderTimelyStep, PTL DEF RoutesSpec, NothingOrderedTooLate, OrderTimely
-----------------------------------------------------------------------------
(***************************************************************************)
(* All of them side by side, as MCBusinessServices composes them.          *)
(***************************************************************************)

ServicesInv == ImageInv /\ TaskInv /\ ProductionInv /\ PlanInv /\ RoutesInv /\ UploadInv

sceneVars == <<scene, imageVars, composedVars, productionVars, emojiVars, routeVars, uploadVars>>

LEMMA ScenesStart == SceneInit => ServicesInv
  BY ImageInvInit, TaskInit, ProductionInvInit, PlanInit, RoutesInvInit, UploadInvInit
     DEF SceneInit, ServicesInv

LEMMA SceneSteps ==
  [SceneNext]_sceneVars =>
    /\ [ImageNext]_imageVars /\ [ComposedNext]_composedVars
    /\ [ProductionNext]_productionVars /\ [EmojiNext]_emojiVars
    /\ [RoutesNext]_routeVars /\ [UploadNext]_uploadVars
  BY DEF SceneNext, sceneVars

LEMMA ScenesKeep == ServicesInv /\ [SceneNext]_sceneVars => ServicesInv'
  BY SceneSteps, ImageInvStep, TaskStep, ProductionInvStep, PlanStep, RoutesInvStep, UploadInvStep
     DEF ServicesInv

LEMMA SceneSpecKeeps == SceneSpec => []ServicesInv /\ [][SceneNext]_sceneVars
  BY ScenesStart, ScenesKeep, PTL DEF SceneSpec, sceneVars

\* What holds of each service holds with the others beside it.
THEOREM ServicesStayConsistent ==
  SceneSpec => [](/\ ImageConsistent /\ TaskConsistent /\ ProductionConsistent
                  /\ PlanConsistent /\ PictureConsistent /\ SealedUrlsKeepTheirBytes)
<1>1. ServicesInv => /\ ImageConsistent /\ TaskConsistent /\ ProductionConsistent
                     /\ PlanConsistent /\ PictureConsistent /\ SealedUrlsKeepTheirBytes
  BY ImageInvImplies, ProductionInvImplies, PlanImplies, RoutesInvImplies
     DEF ServicesInv, TaskInv, TaskConsistent, UploadInv, AnswerIsKept, SealedUrlsKeepTheirBytes
<1> QED
  BY <1>1, SceneSpecKeeps, PTL

\* A completed record, a task's result and a review stay what they are, and no
\* picture is ordered for a caller who has left, with all services side by side.
THEOREM NothingIsEverTakenBack == SceneSpec => NothingIsTakenBack
<1>1. ServicesInv /\ [SceneNext]_sceneVars =>
        [RecordForward]_record /\ [ResultKept]_composedVars /\ [ReviewKept]_files
          /\ [OrderTimely]_routeVars
  BY SceneSteps, RecordForwardStep, ResultKeptStep, ReviewKeptStep, OrderTimelyStep
     DEF ServicesInv
<1>2. SceneSpec => [][RecordForward]_record
  BY <1>1, SceneSpecKeeps, PTL
<1>3. SceneSpec => [][ResultKept]_composedVars
  BY <1>1, SceneSpecKeeps, PTL
<1>4. SceneSpec => [][ReviewKept]_files
  BY <1>1, SceneSpecKeeps, PTL
<1>5. SceneSpec => [][OrderTimely]_routeVars
  BY <1>1, SceneSpecKeeps, PTL
<1> QED
  BY <1>2, <1>3, <1>4, <1>5, PTL
     DEF NothingIsTakenBack, RecordIsFinal, ResultIsFinal, ReviewIsFinal, NothingOrderedTooLate,
         RecordForward, ResultKept, ReviewKept, OrderTimely
=============================================================================
