-------------------------- MODULE EmojiImageRoutes --------------------------
(***************************************************************************)
(* One paid image edit of character-emoji inside the image service         *)
(* (src/src/business-api/character-emoji-image.ts): the primary route reads *)
(* the character's reference pictures and posts one edit; on any error the *)
(* backup route is asked once, as a job that is posted, saved on disk,     *)
(* polled and downloaded.  Both share one time limit and the caller's      *)
(* signal.  Providers are external; a picture is usable or not.            *)
(***************************************************************************)
EXTENDS Integers, Sequences, FiniteSets, Functions

CONSTANTS
  References,    \* the reference pictures of the request
  ReferenceTime, \* limit of reading them all
  PrimaryTime,   \* limit of the primary route when there is a backup
  SubmitTime,    \* limit of posting the job
  TotalTime      \* limit of the whole edit

ASSUME RoutesAssumption ==
  /\ IsFiniteSet(References) /\ References # {}
  /\ {ReferenceTime, PrimaryTime, SubmitTime, TotalTime} \subseteq Nat \ {0}
  /\ ReferenceTime <= PrimaryTime /\ PrimaryTime < TotalTime

Route == {"primary", "backup"}

VARIABLES
  configured, \* routes that have credentials
  caller,     \* "waiting" or "left": the request's signal
  now,        \* time since the edit began
  routeStep,       \* what the edit does: "reading", "editing", "submitting",
              \* "saving", "polling", "downloading", "ended" or "gone"
  readSoFar,  \* reference pictures read
  submitted,  \* when the backup route was entered
  order,      \* the provider's side of each route's one order
  job,        \* the backup provider's job: "none", "pending", "succeeded" or "failed"
  receipt,    \* is the job's receipt on disk?
  tried,      \* attempts of the routes, in order, with their outcomes
  edited      \* what the caller of the edit gets: "none", "image" or "failed"

routeVars == <<configured, caller, now, routeStep, readSoFar, submitted, order,
               job, receipt, tried, edited>>
provider  == <<order, job>>

Pays(r) == order[r] \in {"served", "accepted"}

(* The edit's own signal: the total limit and the request's signal.        *)
Aborted == caller = "left" \/ now >= TotalTime

(* A lone primary has the whole time; with a backup it leaves it a share.  *)
BrokenPrimaryLimit == TotalTime
PrimaryLimit == IF "backup" \in configured THEN PrimaryTime ELSE TotalTime

Configuration == (SUBSET Route) \ {{}}   \* at least one provider

FirstStep == IF "primary" \in configured THEN "reading" ELSE "submitting"

RoutesInit ==
  /\ configured \in Configuration
  /\ caller = "waiting" /\ now = 0 /\ readSoFar = {} /\ submitted = 0
  /\ routeStep = FirstStep
  /\ order = [r \in Route |-> IF r = "backup" /\ "primary" \notin configured
                              THEN "posted" ELSE "none"]
  /\ job = "none" /\ receipt = FALSE /\ tried = <<>> /\ edited = "none"

-----------------------------------------------------------------------------
(* How a route ends.                                                       *)

RouteSucceeds(r) ==
  /\ tried' = Append(tried, [route |-> r, outcome |-> "succeeded"])
  /\ routeStep' = "ended" /\ edited' = "image"
  /\ UNCHANGED <<configured, caller, now, readSoFar, submitted, provider, receipt>>

BrokenMaySwitch(r) == r = "primary" /\ "backup" \in configured
MaySwitch(r) == ~Aborted /\ r = "primary" /\ "backup" \in configured

(* Any error of the primary route turns to the backup, once, unless the    *)
(* caller has left or the time is up; the backup is not asked again.       *)
RouteFails(r, outcome) ==
  /\ tried' = Append(tried, [route |-> r, outcome |-> outcome])
  /\ IF MaySwitch(r)
     THEN /\ routeStep' = "submitting" /\ submitted' = now
          /\ order' = [order EXCEPT !["backup"] = "posted"]
          /\ UNCHANGED edited
     ELSE /\ routeStep' = "ended" /\ edited' = "failed"
          /\ UNCHANGED <<submitted, order>>
  /\ UNCHANGED <<configured, caller, now, readSoFar, job, receipt>>

-----------------------------------------------------------------------------
(* The primary route.                                                      *)

(* A reference is read within its limits; the last one lets the edit go.   *)
ReadReference(u) ==
  /\ routeStep = "reading" /\ ~Aborted /\ u \notin readSoFar
  /\ readSoFar' = readSoFar \union {u}
  /\ IF readSoFar' = References
     THEN routeStep' = "editing" /\ order' = [order EXCEPT !["primary"] = "posted"]
     ELSE UNCHANGED <<routeStep, order>>
  /\ UNCHANGED <<configured, caller, now, submitted, job, receipt, tried, edited>>

(* A missing, oversized or unreadable reference, a limit or an abort ends  *)
(* the whole batch before anything was ordered.                            *)
ReferencesFail == routeStep = "reading" /\ RouteFails("primary", "failed_or_unknown")

PrimaryReturnsImage ==
  /\ routeStep = "editing" /\ ~Aborted /\ order["primary"] = "served"
  /\ RouteSucceeds("primary")

(* Only 401, 402, 404 and 429 are known to have cost nothing.              *)
BrokenRejectionKnown == order["primary"] # "none"
RejectionKnown == order["primary"] = "refused"
PrimaryRejects ==
  /\ routeStep = "editing" /\ RejectionKnown /\ ~Aborted
  /\ RouteFails("primary", "rejected")

(* Any other status, an unusable picture, a lost connection, a time limit  *)
(* or an abort: what happened at the provider is not known.                *)
PrimaryFails == routeStep = "editing" /\ RouteFails("primary", "failed_or_unknown")

-----------------------------------------------------------------------------
(* The backup route.                                                       *)

(* 202 with a receipt.                                                     *)
JobAccepted ==
  /\ routeStep = "submitting" /\ ~Aborted /\ order["backup"] = "accepted"
  /\ routeStep' = "saving"
  /\ UNCHANGED <<configured, caller, now, readSoFar, submitted, provider, receipt,
                 tried, edited>>

(* Another status, a malformed receipt, a lost answer, 30 s, or an abort.  *)
SubmitFails == routeStep = "submitting" /\ RouteFails("backup", "failed_or_unknown")

SaveReceipt ==
  /\ routeStep = "saving"
  /\ receipt' = TRUE /\ routeStep' = "polling"
  /\ UNCHANGED <<configured, caller, now, readSoFar, submitted, provider, tried, edited>>

SaveFails == routeStep = "saving" /\ RouteFails("backup", "failed_or_unknown")

(* A poll that finds the job pending before its deadline, or that fails in *)
(* passing (408, 425, 429, 5xx, no connection), is repeated and changes    *)
(* nothing.                                                                *)
JobFound ==
  /\ routeStep = "polling" /\ ~Aborted /\ job = "succeeded"
  /\ routeStep' = "downloading"
  /\ UNCHANGED <<configured, caller, now, readSoFar, submitted, provider, receipt,
                 tried, edited>>

(* A poll may also find the job failed, past its deadline, refused to us,  *)
(* or another job's state; and the signal may fire.                        *)
JobLost == routeStep = "polling" /\ RouteFails("backup", "failed_or_unknown")

(* Downloaded without credentials, over HTTPS, with at most three          *)
(* redirects and 32 MiB.                                                   *)
DownloadImage == routeStep = "downloading" /\ ~Aborted /\ RouteSucceeds("backup")
DownloadFails == routeStep = "downloading" /\ RouteFails("backup", "failed_or_unknown")

-----------------------------------------------------------------------------
(* The world: providers work on what was posted, whoever still waits.      *)

ProviderAnswers(r, how) ==
  /\ order[r] = "posted"
  /\ order' = [order EXCEPT ![r] = how]
  /\ job' = IF how = "accepted" THEN "pending" ELSE job
  /\ UNCHANGED <<configured, caller, now, routeStep, readSoFar, submitted, receipt, tried, edited>>

JobEnds(how) ==
  /\ job = "pending" /\ job' = how
  /\ UNCHANGED <<configured, caller, now, routeStep, readSoFar, submitted, order, receipt,
                 tried, edited>>

CallerLeaves ==
  /\ caller = "waiting" /\ routeStep \notin {"ended", "gone"}
  /\ caller' = "left"
  /\ UNCHANGED <<configured, now, routeStep, readSoFar, submitted, provider, receipt, tried, edited>>

ServiceDies ==
  /\ routeStep \notin {"ended", "gone"} /\ routeStep' = "gone"
  /\ UNCHANGED <<configured, caller, now, readSoFar, submitted, provider, receipt, tried, edited>>

(* Time passes up to the next timer that is due.                           *)
Tick ==
  /\ routeStep \notin {"ended", "gone"} /\ ~Aborted
  /\ routeStep = "reading" => now < ReferenceTime
  /\ routeStep = "editing" => now < PrimaryLimit
  /\ routeStep = "submitting" => now < submitted + SubmitTime
  /\ now' = now + 1
  /\ UNCHANGED <<configured, caller, routeStep, readSoFar, submitted, provider, receipt, tried, edited>>

RoutesNext ==
  \/ \E u \in References : ReadReference(u)
  \/ ReferencesFail \/ PrimaryReturnsImage \/ PrimaryRejects \/ PrimaryFails
  \/ JobAccepted \/ SubmitFails \/ SaveReceipt \/ SaveFails
  \/ JobFound \/ JobLost \/ DownloadImage \/ DownloadFails
  \/ \E how \in {"served", "refused"} : ProviderAnswers("primary", how)
  \/ \E how \in {"accepted", "refused"} : ProviderAnswers("backup", how)
  \/ \E how \in {"succeeded", "failed"} : JobEnds(how)
  \/ CallerLeaves \/ ServiceDies \/ Tick

RoutesSpec == RoutesInit /\ [][RoutesNext]_routeVars

-----------------------------------------------------------------------------
(* Properties.                                                             *)

Outcome == {"succeeded", "rejected", "failed_or_unknown"}
Tried(r) == \E a \in Range(tried) : a.route = r

RoutesTypeOK ==
  /\ configured \in (SUBSET Route) \ {{}} /\ caller \in {"waiting", "left"}
  /\ now \in 0..TotalTime /\ submitted \in 0..TotalTime
  /\ routeStep \in {"reading", "editing", "submitting", "saving", "polling",
               "downloading", "ended", "gone"}
  /\ readSoFar \subseteq References
  /\ order \in [Route -> {"none", "posted", "served", "accepted", "refused"}]
  /\ job \in {"none", "pending", "succeeded", "failed"}
  /\ receipt \in BOOLEAN
  /\ tried \in Seq([route : Route, outcome : Outcome]) /\ Len(tried) <= 2
  /\ edited \in {"none", "image", "failed"}

(* The primary's troubles never cost the caller the backup: an edit that   *)
(* fails while its caller still waits has asked every configured route,    *)
(* and the backup was given all the time the primary may not use.          *)
EveryRouteIsAsked ==
  /\ edited = "failed" /\ caller = "waiting" => \A r \in configured : Tried(r)
  /\ order["backup"] # "none" => submitted <= PrimaryTime

(* What is reported of the attempts is what happened: a rejection cost     *)
(* nothing, a route without an attempt was never asked once the edit has   *)
(* ended, a picture comes from exactly one attempt, the last, and a second *)
(* order follows a reported failure of the first.                          *)
AttemptsAreHonest ==
  /\ \A a \in Range(tried) : a.outcome = "rejected" => ~Pays(a.route)
  /\ routeStep = "ended" => \A r \in Route : order[r] # "none" => Tried(r)
  /\ (edited = "image") <=> (\E a \in Range(tried) : a.outcome = "succeeded")
  /\ edited = "image" => tried[Len(tried)].outcome = "succeeded" /\ Pays(tried[Len(tried)].route)
  /\ order["backup"] # "none" /\ "primary" \in configured => Tried("primary")

(* Nothing is ordered for a caller who has left or whose time is over.     *)
NothingOrderedTooLate ==
  [][\A r \in Route : order[r] = "none" /\ order'[r] # "none" => ~Aborted]_routeVars

(* The job a picture is waited for, or came from, is on disk.              *)
WaitedJobIsOnDisk ==
  /\ routeStep \in {"polling", "downloading"} => receipt
  /\ receipt => order["backup"] = "accepted" /\ job # "none"

(* No route is left out, none is reported to have done what it did not, and  *)
(* a job that is waited for can be found again.                              *)
PictureConsistent ==
  RoutesTypeOK /\ EveryRouteIsAsked /\ AttemptsAreHonest /\ WaitedJobIsOnDisk
=============================================================================
