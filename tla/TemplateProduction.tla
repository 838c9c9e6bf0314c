--------------------------- MODULE TemplateProduction ---------------------------
(***************************************************************************)
(* One production of a template image in the Business API                  *)
(* (src/src/business-api/template-image-production.ts): a replacement      *)
(* strategy is saved, a person approves it, the picture is rendered once   *)
(* per render id by a provider that charges for every accepted submission, *)
(* a person approves the picture, and the approved bytes are uploaded.     *)
(* Every fact is a file of the production's directory, written through a   *)
(* temporary file and rename, so one file is one atomic variable here;     *)
(* image.png alone is written in place, but read only under its review.    *)
(* Render and finalize requests of one production hold the file            *)
(* operation.lock; the server process can die anywhere.                    *)
(*                                                                         *)
(* Productions have directories of their own and share nothing: one is     *)
(* modelled.                                                               *)
(***************************************************************************)
EXTENDS Integers, Sequences, FiniteSets

CONSTANTS
  Strategy,     \* digests a person may approve, of this plan or another
  RenderId,     \* render ids, the absent one included
  Operation,    \* the requests the server receives
  ProductionCrashBound,   \* bound on the crashes of the server process
  Unset

ASSUME ProductionAssumption == Unset \notin Strategy /\ ProductionCrashBound \in Nat

VARIABLES
  source,      \* the source picture is saved
  plan,        \* plan.json: the strategy's digest
  lock,        \* operation.lock exists
  attempt,     \* attempt.json of each render
  image,       \* image.png of each render
  review,      \* review.json of each render
  approved,    \* image-approval.json of each render
  uploaded,    \* uploaded.json of each render
  stored,      \* pictures in the public object storage
  submissions,    \* what the provider was sent, in order: it renders every one
  op,          \* [Operation -> what it asks for and how far it is]
  productionCrashes

files == <<source, plan, lock, attempt, image, review, approved, uploaded>>
productionVars == <<files, stored, submissions, op, productionCrashes>>

(* The picture of the i-th submission is i.                                *)
RenderedPicture == 1..Len(submissions)

NoAttempt == [state |-> "none", approval |-> Unset, request |-> 0]
Request(kind, r, d) ==
  [phase |-> "sent", kind |-> kind, render |-> r, digest |-> d, sent |-> 0]
Idle == [phase |-> "idle", kind |-> Unset, render |-> Unset, digest |-> Unset, sent |-> 0]

ProductionInit ==
  /\ source = FALSE /\ plan = Unset /\ lock = FALSE
  /\ attempt  = [r \in RenderId |-> NoAttempt]
  /\ image    = [r \in RenderId |-> 0]
  /\ review   = [r \in RenderId |-> 0]
  /\ approved = [r \in RenderId |-> 0]
  /\ uploaded = [r \in RenderId |-> 0]
  /\ stored = {} /\ submissions = <<>> /\ productionCrashes = 0
  /\ op = [o \in Operation |-> Idle]

-----------------------------------------------------------------------------
(* The plan is saved before anybody can approve it: its id is new.         *)

SaveSource ==
  /\ ~source /\ productionCrashes = 0
  /\ source' = TRUE
  /\ UNCHANGED <<plan, lock, attempt, image, review, approved, uploaded,
                 stored, submissions, op, productionCrashes>>

SavePlan(s) ==
  /\ source /\ plan = Unset /\ productionCrashes = 0
  /\ plan' = s
  /\ UNCHANGED <<source, lock, attempt, image, review, approved, uploaded,
                 stored, submissions, op, productionCrashes>>

-----------------------------------------------------------------------------
(* Requests.                                                               *)

GoesTo(o, phase) == op' = [op EXCEPT ![o].phase = phase]
At(o, kind, phase) == op[o].kind = kind /\ op[o].phase = phase
Of(o) == op[o].render

Begin(o, request) ==
  /\ op[o].phase = "idle"
  /\ op' = [op EXCEPT ![o] = request]
  /\ UNCHANGED <<files, stored, submissions, productionCrashes>>

RequestRender(o) ==
  \E r \in RenderId, s \in Strategy :
    Begin(o, Request("render", r, s))

(* The person who approves has seen a picture of this production.          *)
RequestFinalize(o) ==
  \E r \in RenderId, p \in RenderedPicture :
    Begin(o, Request("finalize", r, p))

BrokenLock(o) ==
  /\ op[o].phase = "sent"
  /\ lock' = TRUE
  /\ GoesTo(o, "locked")
  /\ UNCHANGED <<source, plan, attempt, image, review, approved, uploaded,
                 stored, submissions, productionCrashes>>

Lock(o) ==
  /\ op[o].phase = "sent" /\ ~lock
  /\ lock' = TRUE
  /\ GoesTo(o, "locked")
  /\ UNCHANGED <<source, plan, attempt, image, review, approved, uploaded,
                 stored, submissions, productionCrashes>>

FailLocked(o) ==
  /\ op[o].phase = "sent" /\ lock
  /\ GoesTo(o, "failed")
  /\ UNCHANGED <<files, stored, submissions, productionCrashes>>

(* The `finally` of locked(): the lock is removed, then the answer is sent. *)
Release(o, phase) == lock' = FALSE /\ GoesTo(o, phase)

Holding == {"locked", "approved", "submitting", "submitted", "pending", "imaged",
            "reviewed", "uploading", "uploaded", "recorded"}

(* A read, a save, hosting the source, a query, an upload or a check of    *)
(* what came back throws, or the caller hangs up and the signal aborts.    *)
OperationFails(o) ==
  /\ op[o].phase \in Holding \ {"submitting", "submitted"}
  /\ Release(o, "failed")
  /\ UNCHANGED <<source, plan, attempt, image, review, approved, uploaded,
                 stored, submissions, productionCrashes>>

-----------------------------------------------------------------------------
(* render                                                                  *)

Approves(o) == plan # Unset /\ op[o].digest = plan

AnswerReview(o) ==
  /\ At(o, "render", "locked") /\ Approves(o) /\ review[Of(o)] # 0
  /\ Release(o, "done")
  /\ UNCHANGED <<source, plan, attempt, image, review, approved, uploaded,
                 stored, submissions, productionCrashes>>

Rendering(o) == At(o, "render", "locked") /\ Approves(o) /\ review[Of(o)] = 0

SetAttempt(o, a) == attempt' = [attempt EXCEPT ![Of(o)] = a]

ApproveStrategy(o) ==
  /\ Rendering(o) /\ attempt[Of(o)].state = "none"
  /\ SetAttempt(o, [state |-> "approved", approval |-> op[o].digest, request |-> 0])
  /\ GoesTo(o, "approved")
  /\ UNCHANGED <<source, plan, lock, image, review, approved, uploaded,
                 stored, submissions, productionCrashes>>

Resume(o) ==
  /\ Rendering(o)
  /\ \/ attempt[Of(o)].state = "approved" /\ GoesTo(o, "approved")
     \/ attempt[Of(o)].request # 0 /\ GoesTo(o, "pending")
  /\ UNCHANGED <<files, stored, submissions, productionCrashes>>

(* An unknown or rejected submission is never made again.                  *)
RefuseResubmission(o) ==
  /\ Rendering(o)
  /\ attempt[Of(o)].state \in {"submission_unknown", "provider_rejected"}
  /\ Release(o, "failed")
  /\ UNCHANGED <<source, plan, attempt, image, review, approved, uploaded,
                 stored, submissions, productionCrashes>>

BrokenMarkSubmission(o) ==
  /\ At(o, "render", "approved")
  /\ GoesTo(o, "submitting")
  /\ UNCHANGED <<files, stored, submissions, productionCrashes>>

(* The source is hosted; "submission_unknown" is on disk before the call.  *)
MarkSubmission(o) ==
  /\ At(o, "render", "approved")
  /\ attempt' = [attempt EXCEPT ![Of(o)].state = "submission_unknown"]
  /\ GoesTo(o, "submitting")
  /\ UNCHANGED <<source, plan, lock, image, review, approved, uploaded,
                 stored, submissions, productionCrashes>>

Submit(o) ==
  /\ At(o, "render", "submitting")
  /\ submissions' = Append(submissions, [render |-> Of(o), approval |-> attempt[Of(o)].approval])
  /\ op' = [op EXCEPT ![o].phase = "submitted", ![o].sent = Len(submissions) + 1]
  /\ UNCHANGED <<files, stored, productionCrashes>>

(* No request id came back, with or without a request having gone out; a   *)
(* definite 4xx is told apart from the rest.                               *)
SubmissionFails(o) ==
  /\ op[o].kind = "render" /\ op[o].phase \in {"submitting", "submitted"}
  /\ \E state \in {"submission_unknown", "provider_rejected"} :
       /\ state = "provider_rejected" => op[o].phase = "submitted"
       /\ attempt' = [attempt EXCEPT ![Of(o)].state = state]
  /\ Release(o, "failed")
  /\ UNCHANGED <<source, plan, image, review, approved, uploaded,
                 stored, submissions, productionCrashes>>

Accepted(o) ==
  /\ At(o, "render", "submitted")
  /\ attempt' = [attempt EXCEPT ![Of(o)].state = "provider_pending",
                                ![Of(o)].request = op[o].sent]
  /\ GoesTo(o, "pending")
  /\ UNCHANGED <<source, plan, lock, image, review, approved, uploaded,
                 stored, submissions, productionCrashes>>

BrokenFetchImage(o) ==
  /\ At(o, "render", "pending")
  /\ image' = [image EXCEPT ![Of(o)] = Len(submissions)]
  /\ GoesTo(o, "imaged")
  /\ UNCHANGED <<source, plan, lock, attempt, review, approved, uploaded,
                 stored, submissions, productionCrashes>>

FetchImage(o) ==
  /\ At(o, "render", "pending")
  /\ image' = [image EXCEPT ![Of(o)] = attempt[Of(o)].request]
  /\ GoesTo(o, "imaged")
  /\ UNCHANGED <<source, plan, lock, attempt, review, approved, uploaded,
                 stored, submissions, productionCrashes>>

SaveReview(o) ==
  /\ At(o, "render", "imaged")
  /\ review' = [review EXCEPT ![Of(o)] = attempt[Of(o)].request]
  /\ GoesTo(o, "reviewed")
  /\ UNCHANGED <<source, plan, lock, attempt, image, approved, uploaded,
                 stored, submissions, productionCrashes>>

FinishRender(o) ==
  /\ At(o, "render", "reviewed")
  /\ attempt' = [attempt EXCEPT ![Of(o)].state = "image_ready"]
  /\ Release(o, "done")
  /\ UNCHANGED <<source, plan, image, review, approved, uploaded,
                 stored, submissions, productionCrashes>>

-----------------------------------------------------------------------------
(* finalize                                                                *)

(* The review package's digest covers the render id, so the approval of    *)
(* one render does not fit another.                                        *)
Finalizing(o) ==
  At(o, "finalize", "locked") /\ review[Of(o)] = op[o].digest

AnswerUploaded(o) ==
  /\ Finalizing(o) /\ uploaded[Of(o)] # 0
  /\ Release(o, "done")
  /\ UNCHANGED <<source, plan, attempt, image, review, approved, uploaded,
                 stored, submissions, productionCrashes>>

ApproveImage(o) ==
  /\ Finalizing(o) /\ uploaded[Of(o)] = 0
  /\ image[Of(o)] = op[o].digest
  /\ approved' = IF approved[Of(o)] = 0
                 THEN [approved EXCEPT ![Of(o)] = op[o].digest] ELSE approved
  /\ GoesTo(o, "uploading")
  /\ UNCHANGED <<source, plan, lock, attempt, image, review, uploaded,
                 stored, submissions, productionCrashes>>

Upload(o) ==
  /\ At(o, "finalize", "uploading")
  /\ stored' = stored \cup {image[Of(o)]}
  /\ GoesTo(o, "uploaded")
  /\ UNCHANGED <<files, submissions, productionCrashes>>

SaveUploaded(o) ==
  /\ At(o, "finalize", "uploaded")
  /\ uploaded' = [uploaded EXCEPT ![Of(o)] = review[Of(o)]]
  /\ GoesTo(o, "recorded")
  /\ UNCHANGED <<source, plan, lock, attempt, image, review, approved,
                 stored, submissions, productionCrashes>>

FinishFinalize(o) ==
  /\ At(o, "finalize", "recorded")
  /\ Release(o, "done")
  /\ UNCHANGED <<source, plan, attempt, image, review, approved, uploaded,
                 stored, submissions, productionCrashes>>

-----------------------------------------------------------------------------
(* The process dies: files stay, the lock file among them.                 *)
ProductionCrash ==
  /\ productionCrashes < ProductionCrashBound
  /\ productionCrashes' = productionCrashes + 1
  /\ op' = [o \in Operation |->
              IF op[o].phase \in {"idle", "done", "failed"} THEN op[o]
              ELSE [op[o] EXCEPT !.phase = "failed"]]
  /\ UNCHANGED <<files, stored, submissions>>

(* Nothing in the code removes a lock left behind; a person may, once no   *)
(* operation of the restarted server holds it.                             *)
RemoveLock ==
  /\ productionCrashes > 0 /\ lock /\ \A o \in Operation : op[o].phase \notin Holding
  /\ lock' = FALSE
  /\ UNCHANGED <<source, plan, attempt, image, review, approved, uploaded,
                 stored, submissions, op, productionCrashes>>

ProductionNext ==
  \/ SaveSource
  \/ \E s \in Strategy : SavePlan(s)
  \/ \E o \in Operation :
       \/ RequestRender(o)
       \/ RequestFinalize(o)
       \/ Lock(o)
       \/ FailLocked(o)
       \/ OperationFails(o)
       \/ AnswerReview(o)
       \/ ApproveStrategy(o)
       \/ Resume(o)
       \/ RefuseResubmission(o)
       \/ MarkSubmission(o)
       \/ Submit(o)
       \/ SubmissionFails(o)
       \/ Accepted(o)
       \/ FetchImage(o)
       \/ SaveReview(o)
       \/ FinishRender(o)
       \/ AnswerUploaded(o)
       \/ ApproveImage(o)
       \/ Upload(o)
       \/ SaveUploaded(o)
       \/ FinishFinalize(o)
  \/ ProductionCrash
  \/ RemoveLock

ProductionSpec == ProductionInit /\ [][ProductionNext]_productionVars

-----------------------------------------------------------------------------
(* Properties.                                                             *)

AttemptState == {"none", "approved", "submission_unknown", "provider_rejected",
                 "provider_pending", "image_ready"}

ProductionTypeOK ==
  /\ source \in BOOLEAN /\ plan \in Strategy \cup {Unset} /\ lock \in BOOLEAN
  /\ attempt \in [RenderId -> [state    : AttemptState,
                               approval : Strategy \cup {Unset},
                               request  : {0} \cup RenderedPicture]]
  /\ image    \in [RenderId -> {0} \cup RenderedPicture]
  /\ review   \in [RenderId -> {0} \cup RenderedPicture]
  /\ approved \in [RenderId -> {0} \cup RenderedPicture]
  /\ uploaded \in [RenderId -> {0} \cup RenderedPicture]
  /\ stored \subseteq RenderedPicture
  /\ submissions \in Seq([render : RenderId, approval : Strategy])
  /\ op \in [Operation -> [phase  : Holding \cup {"idle", "sent", "done", "failed"},
                           kind   : {"render", "finalize", Unset},
                           render : RenderId \cup {Unset},
                           digest : Strategy \cup RenderedPicture \cup {Unset},
                           sent   : {0} \cup RenderedPicture]]
  /\ productionCrashes \in 0..ProductionCrashBound

(* Whatever is retried, aborted or cut off by a crash, the provider is sent *)
(* at most one request per render id, and only under the approval of this   *)
(* production's own strategy: "未知提交禁止重投" (docs/api.md:1190-1201).      *)
SubmittedOnceAsApproved ==
  /\ \A i, j \in RenderedPicture : submissions[i].render = submissions[j].render => i = j
  /\ \A i \in RenderedPicture : submissions[i].approval = plan

(* The picture under review is the one this render's own request made, and  *)
(* what is uploaded is what was reviewed and approved, byte for byte.       *)
UploadsWereReviewed ==
  /\ \A r \in RenderId : review[r] # 0 =>
       image[r] = review[r] /\ submissions[review[r]].render = r
  /\ \A r \in RenderId : uploaded[r] # 0 =>
       uploaded[r] = review[r] /\ approved[r] = review[r] /\ uploaded[r] \in stored
  /\ \A p \in stored : \E r \in RenderId : approved[r] = p

(* A review, once answered, is never another one, and neither is the        *)
(* approval given to it.                                                   *)
ReviewIsFinal ==
  [][\A r \in RenderId :
       /\ review[r] # 0   => review'[r] = review[r] /\ image'[r] = image[r]
       /\ approved[r] # 0 => approved'[r] = approved[r]]_files

(* What is bought was approved, what is published was reviewed, and each     *)
(* once, whichever operations of the console run and die side by side.       *)
ProductionConsistent ==
  ProductionTypeOK /\ SubmittedOnceAsApproved /\ UploadsWereReviewed
=============================================================================
