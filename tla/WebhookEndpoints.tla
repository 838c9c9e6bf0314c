--------------------------- MODULE WebhookEndpoints ---------------------------
(***************************************************************************)
(* One webhook endpoint over its life: operators provision it, change its  *)
(* URL, rotate its secret and disable it while the webhook workers claim   *)
(* its notices, look its address up, post signed requests and conclude.    *)
(* WebhookDelivery has the queue, the relay and the workers' crashes; here *)
(* a notice is in the hands of at most one worker, and time is a clock.    *)
(*                                                                         *)
(* A secret is known by its number: each rotation brings a fresh one.  An  *)
(* address is known by what the target policy thinks of it, and every DNS  *)
(* lookup may find another one.  Each rotation says how long its window    *)
(* is, and a window may be shorter than a request takes.  The receiver is  *)
(* the environment: it learns a new secret before the rotation's window    *)
(* closes and keeps the old one till then.                                 *)
(***************************************************************************)
EXTENDS Integers, Sequences, FiniteSets, FiniteSetsExt

CONSTANTS
  Operator,         \* callers of the endpoint operations
  Url,              \* URLs that pass the syntax check
  Notice,           \* deliveries to the endpoint
  None,             \* NULL, undefined
  Overlap,          \* the overlapMs that operators give rotateEndpointSecret
  RequestTime,      \* longest time from a claim to the end of its request
  AttemptLimit,     \* maximumAttempts
  InitialBackoff, MaximumBackoff, MaximumRetryAfter,
  DeliveryHorizon, JitterPercent,   \* the worker's retryPolicy
  RetryAfter,       \* delays a receiver asks for in Retry-After
  EndOfTime,        \* bound: the last moment modelled
  CallBound         \* bound: operator calls

ASSUME EndpointAssumption ==
  /\ None \notin Operator \cup Url \cup Notice \cup Nat
  /\ RequestTime \in Nat /\ Overlap \subseteq Nat \ {0}
  /\ {AttemptLimit, InitialBackoff, MaximumBackoff, MaximumRetryAfter,
      DeliveryHorizon} \subseteq Nat \ {0}
  /\ InitialBackoff <= MaximumBackoff /\ JitterPercent \in 0..100
  /\ RetryAfter \subseteq Nat /\ EndOfTime \in Nat /\ CallBound \in Nat

VARIABLES
  now,       \* the clock
  hook,      \* the webhook_endpoints row
  trail,     \* how many webhook_endpoint_audit_events there are of each action
  call,      \* per operator: the operation it has called
  calls,     \* operator calls so far
  accepts,   \* secrets the receiver verifies signatures with
  notice,    \* per notice: its row, and the attempt that is under way
  tries,     \* per notice: its webhook_delivery_attempts rows
  posts,     \* the requests that went out (history)
  hasty,     \* was a secret rotated inside another rotation's window? (history)
  overlaps   \* the overlaps of the rotations so far (history)

operatorVars == <<hook, trail, call, calls>>
senderVars == <<notice, tries, posts>>
rotationVars == <<hasty, overlaps>>
hookVars == <<now, operatorVars, accepts, senderVars, rotationVars>>

Reach == {"public", "forbidden", "unknown"}
Hook == [status : {"absent", "enabled", "disabled"}, url : Url \cup {None},
         current : Nat, previous : Nat, until : Nat]
NoHook == [status |-> "absent", url |-> None, current |-> 0, previous |-> 0, until |-> 0]

Change == {"provisioned", "url_updated", "secret_rotated", "disabled"}
Refusal == {"registration_rejected", "url_update_rejected"}
AuditAction == Change \cup Refusal \cup {"delivery_target_rejected"}

Call == [phase : {"idle", "resolving", "writing"}, action : Change \cup {None},
         url : Url \cup {None}, overlap : Overlap \cup {None}, at : Nat]
NoCall == [phase |-> "idle", action |-> None, url |-> None, overlap |-> None, at |-> 0]

NoticeState ==
  [phase : {"absent", "pending", "claimed", "resolved", "answered",
            "succeeded", "failed", "exhausted"},
   created : Nat, due : Nat, url : Url \cup {None}, secrets : SUBSET Nat,
   address : Reach \cup {None}, answer : {"accepted", "unavailable", "gone", "refused",
                                          "rejected", None}]
NoNotice == [phase |-> "absent", created |-> 0, due |-> 0, url |-> None,
             secrets |-> {}, address |-> None, answer |-> None]

Try == [at : Nat, done : Nat \cup {None}, asked : RetryAfter \cup {None},
        next : Nat \cup {None}]
\* took: the time from the claim to the request.
Post == [address : Reach, verified : BOOLEAN, took : 0..RequestTime]

EndpointTypeOK ==
  /\ now \in 0..EndOfTime
  /\ hook \in Hook
  /\ trail \in [AuditAction -> Nat]
  /\ call \in [Operator -> Call] /\ calls \in 0..CallBound
  /\ accepts \subseteq Nat
  /\ notice \in [Notice -> NoticeState]
  /\ tries \in [Notice -> Seq(Try)]
  /\ posts \subseteq Post
  /\ hasty \in BOOLEAN /\ overlaps \subseteq Overlap

EndpointInit ==
  /\ now = 0
  /\ hook = NoHook
  /\ trail = [a \in AuditAction |-> 0]
  /\ call = [o \in Operator |-> NoCall] /\ calls = 0
  /\ accepts = {1}   \* the secret the endpoint is provisioned with
  /\ notice = [n \in Notice |-> NoNotice]
  /\ tries = [n \in Notice |-> <<>>]
  /\ posts = {}
  /\ hasty = FALSE /\ overlaps = {}

-----------------------------------------------------------------------------
(* Operators *)

\* The operators named Broken... each state a plausible mistake in the operator
\* that follows; no specification uses them.
Audited(action) == trail' = [trail EXCEPT ![action] = @ + 1]

AskedNow(o, phase, action, u, k) ==
  call' = [call EXCEPT ![o] = [phase |-> phase, action |-> action, url |-> u,
                               overlap |-> k, at |-> now]]

\* The arguments are checked and stamped; a new URL is looked up first, and
\* updateEndpointUrl looks for the row before that.
CallOperation(o, action, u, k) ==
  /\ call[o] = NoCall
  /\ calls < CallBound /\ calls' = calls + 1
  /\ (action # "provisioned") => hook.status # "absent"
  /\ IF action \in {"provisioned", "url_updated"}
     THEN AskedNow(o, "resolving", action, u, None)
     ELSE AskedNow(o, "writing", action, None, k)
  /\ UNCHANGED <<now, hook, trail, accepts, senderVars, rotationVars>>

RefusalOf(action) ==
  IF action = "provisioned" THEN "registration_rejected" ELSE "url_update_rejected"

\* targetPolicy.resolve refuses a name it cannot resolve, or one with an address
\* that is not public.  A refusal is audited in
\* a statement of its own, and nothing else is written.
ResolveNewUrl(o) ==
  /\ call[o].phase = "resolving"
  /\ \/ call' = [call EXCEPT ![o].phase = "writing"] /\ UNCHANGED trail
     \/ call' = [call EXCEPT ![o] = NoCall] /\ Audited(RefusalOf(call[o].action))
  /\ UNCHANGED <<now, hook, calls, accepts, senderVars, rotationVars>>

\* The row that each operation writes.
Provisioned(u) == [NoHook EXCEPT !.status = "enabled", !.url = u, !.current = 1]

BrokenRotated(at, k) == [hook EXCEPT !.current = @ + 1, !.previous = 0, !.until = at + k]
Rotated(at, k) == [hook EXCEPT !.current = @ + 1, !.previous = hook.current,
                               !.until = at + k]

BrokenWrites(o) == call[o].action \in Change
\* INSERT meets the primary key, disableEndpoint updates an enabled row only.
Writes(o) ==
  CASE call[o].action = "provisioned"    -> hook.status = "absent"
    [] call[o].action = "disabled"       -> hook.status = "enabled"
    [] OTHER                             -> TRUE

WrittenRow(o) ==
  CASE call[o].action = "provisioned"    -> Provisioned(call[o].url)
    [] call[o].action = "url_updated"    -> [hook EXCEPT !.url = call[o].url]
    [] call[o].action = "secret_rotated" -> Rotated(call[o].at, call[o].overlap)
    [] call[o].action = "disabled"       -> [hook EXCEPT !.status = "disabled"]

\* The row and its audit event are one transaction.
WriteOperation(o) ==
  /\ call[o].phase = "writing"
  /\ IF Writes(o)
     THEN /\ hook' = WrittenRow(o)
          /\ Audited(call[o].action)
          /\ hasty' = (hasty \/ (/\ call[o].action = "secret_rotated"
                                 /\ hook.previous # 0 /\ now <= hook.until))
          /\ overlaps' = overlaps \cup ({call[o].overlap} \ {None})
     ELSE UNCHANGED <<hook, trail, rotationVars>>
  /\ call' = [call EXCEPT ![o] = NoCall]
  /\ UNCHANGED <<now, calls, accepts, senderVars>>

\* The process dies or the database refuses: nothing of the call remains.
AbandonOperation(o) ==
  /\ call[o] # NoCall
  /\ call' = [call EXCEPT ![o] = NoCall]
  /\ UNCHANGED <<now, hook, trail, calls, accepts, senderVars, rotationVars>>

-----------------------------------------------------------------------------
(* The receiver, DNS and time *)

AdoptSecret ==
  /\ hook.current \notin accepts \cup {0}
  /\ accepts' = accepts \cup {hook.current}
  /\ UNCHANGED <<now, operatorVars, senderVars, rotationVars>>

RetireSecret(s) ==
  /\ s \in accepts /\ hook.current \in accepts \ {s}
  /\ now > hook.until
  /\ accepts' = accepts \ {s}
  /\ UNCHANGED <<now, operatorVars, senderVars, rotationVars>>

UnderWay(n) == notice[n].phase \in {"claimed", "resolved"}
LastTry(n) == tries[n][Len(tries[n])]

\* A request is aborted in time, a call ends in the tick it began, and the
\* receiver has the new secret before the window closes.
Tick ==
  /\ now < EndOfTime /\ now' = now + 1
  /\ \A n \in Notice : UnderWay(n) => now < LastTry(n).at + RequestTime
  /\ \A o \in Operator : call[o] = NoCall
  /\ hook.current \in accepts \/ now < hook.until
  /\ UNCHANGED <<operatorVars, accepts, senderVars, rotationVars>>

-----------------------------------------------------------------------------
(* Notices *)

\* The end of the process-run store's `complete`.
CreateNotice(n) ==
  /\ notice[n].phase = "absent" /\ hook.status = "enabled"
  /\ notice' = [notice EXCEPT ![n] = [NoNotice EXCEPT !.phase = "pending",
                                                      !.created = now, !.due = now]]
  /\ UNCHANGED <<now, operatorVars, accepts, tries, posts, rotationVars>>

\* The secrets a claim reads: the current one, and the one before it while its
\* window is open.
BrokenSigning == {hook.current}
Signing == {hook.current} \cup
           (IF hook.previous # 0 /\ now <= hook.until THEN {hook.previous} ELSE {})

ClaimNotice(n) ==
  /\ notice[n].phase = "pending" /\ notice[n].due <= now /\ hook.status = "enabled"
  /\ notice' = [notice EXCEPT ![n].phase = "claimed", ![n].url = hook.url,
                              ![n].secrets = Signing]
  /\ tries' = [tries EXCEPT ![n] = Append(@, [at |-> now, done |-> None, asked |-> None,
                                               next |-> None])]
  /\ UNCHANGED <<now, operatorVars, accepts, posts, rotationVars>>

Answered(n, answer, asked) ==
  /\ notice' = [notice EXCEPT ![n].phase = "answered", ![n].answer = answer]
  /\ tries' = [tries EXCEPT ![n][Len(tries[n])].done = now,
                            ![n][Len(tries[n])].asked = asked]

\* An unknown name counts as a network error, a forbidden address does not.
BrokenLookupAnswer(r) == "rejected"
LookupAnswer(r) == IF r = "unknown" THEN "unavailable" ELSE "rejected"

\* The transport resolves the URL anew, whatever the last lookup found, and pins
\* the address.
ResolveTarget(n) ==
  /\ notice[n].phase = "claimed"
  /\ \/ notice' = [notice EXCEPT ![n].phase = "resolved", ![n].address = "public"]
        /\ UNCHANGED tries
     \/ \E r \in Reach \ {"public"} : Answered(n, LookupAnswer(r), None)
  /\ UNCHANGED <<now, operatorVars, accepts, posts, rotationVars>>

\* Without the pin the connection would look the name up once more.
BrokenConnectsTo(n) == Reach
ConnectsTo(n) == {notice[n].address}

Verified(n) == notice[n].secrets \cap accepts # {}

\* The Retry-After of an answer, if it has one that makes sense.
Asks == RetryAfter \cup {None}

\* The request and its answer.  A receiver that cannot verify the signatures
\* refuses; otherwise it answers what it likes, or not at all.
PostNotice(n) ==
  /\ notice[n].phase = "resolved"
  /\ \E r \in ConnectsTo(n) :
       posts' = posts \cup {[address |-> r, verified |-> Verified(n),
                              took |-> now - LastTry(n).at]}
  /\ \/ Verified(n) /\ \E a \in {"accepted", "gone", "refused"} : Answered(n, a, None)
     \/ Verified(n) /\ \E k \in Asks : Answered(n, "unavailable", k)
     \/ ~Verified(n) /\ Answered(n, "refused", None)
  /\ UNCHANGED <<now, operatorVars, accepts, rotationVars>>

\* The connection fails or times out before the receiver has the request.
RequestFails(n) ==
  /\ notice[n].phase = "resolved"
  /\ Answered(n, "unavailable", None)
  /\ UNCHANGED <<now, operatorVars, accepts, posts, rotationVars>>

Backoff(k, jitter) ==
  LET base == Min({InitialBackoff * 2^(k - 1), MaximumBackoff}) IN
  Max({1, base + jitter})

Jitters(k) ==
  LET most == (Min({InitialBackoff * 2^(k - 1), MaximumBackoff}) * JitterPercent + 50) \div 100
  IN (-most)..most

BrokenRetryDelay(k, asked, jitter) ==
  IF asked = None THEN Backoff(k, jitter)
  ELSE Min({Backoff(k, jitter), asked, MaximumRetryAfter})
RetryDelay(k, asked, jitter) ==
  IF asked = None THEN Backoff(k, jitter)
  ELSE Max({Backoff(k, jitter), Min({asked, MaximumRetryAfter})})

BrokenMayRetry(n, next) == Len(tries[n]) < AttemptLimit
MayRetry(n, next) ==
  Len(tries[n]) < AttemptLimit /\ next <= notice[n].created + DeliveryHorizon

Settled(n, phase) ==
  notice' = [notice EXCEPT ![n] = [NoNotice EXCEPT !.phase = phase,
                                                   !.created = notice[n].created]]

\* reschedule, or complete with 'exhausted'.
RetryNotice(n) ==
  /\ notice[n].phase = "answered" /\ notice[n].answer = "unavailable"
  /\ \E jitter \in Jitters(Len(tries[n])) :
       LET next == LastTry(n).done
                     + RetryDelay(Len(tries[n]), LastTry(n).asked, jitter) IN
       IF MayRetry(n, next)
       THEN /\ notice' = [notice EXCEPT ![n] = [NoNotice EXCEPT !.phase = "pending",
                                                 !.created = notice[n].created, !.due = next]]
            /\ tries' = [tries EXCEPT ![n][Len(tries[n])].next = next]
       ELSE Settled(n, "exhausted") /\ UNCHANGED tries
  /\ UNCHANGED <<now, operatorVars, accepts, posts, rotationVars>>

DisablingEvent(answer) ==
  IF answer = "rejected" THEN "delivery_target_rejected" ELSE "disabled"

BrokenDisables(answer) == answer = "gone"
Disables(answer) == answer \in {"gone", "rejected"}

\* complete: 410 or a rejected target disables the endpoint, whatever its URL has
\* become since the claim; the event is written even if it was disabled already.
ConcludeNotice(n) ==
  LET answer == notice[n].answer IN
  /\ notice[n].phase = "answered" /\ answer # "unavailable"
  /\ Settled(n, IF answer = "accepted" THEN "succeeded" ELSE "failed")
  /\ IF answer \in {"gone", "rejected"}
     THEN /\ hook' = IF Disables(answer) THEN [hook EXCEPT !.status = "disabled"] ELSE hook
          /\ Audited(DisablingEvent(answer))
     ELSE UNCHANGED <<hook, trail>>
  /\ UNCHANGED <<now, call, calls, accepts, tries, posts, rotationVars>>

-----------------------------------------------------------------------------
(* The specification *)

Operate(o) ==
  \/ \E u \in Url : \/ CallOperation(o, "provisioned", u, None)
                    \/ CallOperation(o, "url_updated", u, None)
  \/ \E k \in Overlap : CallOperation(o, "secret_rotated", None, k)
  \/ CallOperation(o, "disabled", None, None)
  \/ ResolveNewUrl(o) \/ WriteOperation(o) \/ AbandonOperation(o)

Deliver(n) ==
  \/ CreateNotice(n) \/ ClaimNotice(n) \/ ResolveTarget(n) \/ PostNotice(n)
  \/ RequestFails(n) \/ RetryNotice(n) \/ ConcludeNotice(n)

Surroundings ==
  \/ AdoptSecret \/ Tick
  \/ \E s \in accepts : RetireSecret(s)

EndpointNext ==
  \/ \E o \in Operator : Operate(o)
  \/ \E n \in Notice : Deliver(n)
  \/ Surroundings

EndpointSpec == EndpointInit /\ [][EndpointNext]_hookVars

-----------------------------------------------------------------------------
(* What the endpoint promises *)

\* The audit trail accounts for the endpoint, whoever raced whom: it exists if
\* it was provisioned, once; every rotation is there; and it is disabled exactly
\* if an operator, a 410 or a rejected target has disabled it.
TrailTellsEndpoint ==
  /\ trail["provisioned"] = IF hook.status = "absent" THEN 0 ELSE 1
  /\ hook.status # "absent" => hook.current = 1 + trail["secret_rotated"]
  /\ (hook.status = "disabled") <=>
       trail["disabled"] + trail["delivery_target_rejected"] > 0

\* A receiver that learns each new secret within its window, and keeps the old
\* one till the window closes, verifies every request that reaches it no later
\* after its claim than the shortest overlap given to a rotation, those claimed
\* before the rotation too, unless a rotation was made inside another one's
\* window.  An overlap may be 1 ms (webhooks/store/postgres.ts:302-307): a
\* request that takes longer has no such promise.
SignaturesVerify ==
  ~hasty => \A p \in posts : (\A k \in overlaps : p.took <= k) => p.verified

\* No request reaches an address the target policy forbids, although DNS may
\* change between registration, claim, lookup and connection.
PostsReachPublicTargets == \A p \in posts : p.address = "public"

\* A retry waits at least one tick and as long as the receiver asked for, up to
\* the cap; it is planned within the delivery horizon; and a notice is given up
\* only if its attempts are used up or every later retry may be too late.
RetriesKeepTheirWord ==
  \A n \in Notice :
    LET last == Len(tries[n]) IN
    /\ last <= AttemptLimit
    /\ \A k \in 1..last : tries[n][k].next # None =>
         /\ tries[n][k].next > tries[n][k].done
         /\ tries[n][k].next <= notice[n].created + DeliveryHorizon
         /\ tries[n][k].asked # None =>
              tries[n][k].next - tries[n][k].done >= Min({tries[n][k].asked, MaximumRetryAfter})
         /\ k < last => tries[n][k + 1].at >= tries[n][k].next
    /\ notice[n].phase = "exhausted" /\ last < AttemptLimit =>
         LastTry(n).done + Max({MaximumRetryAfter, 2 * MaximumBackoff})
           > notice[n].created + DeliveryHorizon

(* Whatever the operators and the network do, a post is signed so that its   *)
(* receiver can verify it, goes to a public address, and comes when the      *)
(* receiver asked for it, if it comes at all.                                *)
PostsAreSound ==
  EndpointTypeOK /\ SignaturesVerify /\ PostsReachPublicTargets /\ RetriesKeepTheirWord
=============================================================================
