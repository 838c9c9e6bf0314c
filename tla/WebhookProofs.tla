---------------------------- MODULE WebhookProofs ----------------------------
(***************************************************************************)
(* Two things that hold of webhooks for any constants.  Of deliveries, for *)
(* any events, endpoints, workers, relays and any number of faults: rows,  *)
(* attempts, messages and workers agree, replays are numbered apart,       *)
(* conclusions are final.  Of one endpoint, for any operators, notices,    *)
(* retry policy and overlaps: the audit trail accounts for it, and posts   *)
(* can be verified for as long as every overlap, go to public addresses    *)
(* and come when they were asked for.  The two share nothing but tactics.  *)
(***************************************************************************)
EXTENDS WebhookDelivery, WebhookEndpoints, SequenceTheorems, TLAPS

-----------------------------------------------------------------------------
(* Endpoints (WebhookEndpoints) *)

USE DEF rotationVars

Exists == hook.status # "absent"

\* A call that is under way began in this tick, and any call but the first
\* provisioning found the endpoint there.
CallsSound ==
  \A o \in Operator :
    call[o] # NoCall =>
      /\ call[o].action \in Change /\ call[o].at = now
      /\ call[o].action # "provisioned" => Exists
      /\ call[o].action \in {"provisioned", "url_updated"} => call[o].url \in Url
      /\ call[o].action = "secret_rotated" => call[o].overlap \in Overlap

\* Before it is provisioned nothing is known of the endpoint, and nothing is
\* sent to it.
NothingBefore ==
  ~Exists =>
    /\ hook = NoHook /\ accepts = {1}
    /\ \A a \in Change \cup {"delivery_target_rejected"} : trail[a] = 0
    /\ \A n \in Notice : notice[n].phase = "absent"

\* The receiver can verify the current secret, or else the one before it and
\* its window is open; and while that is open it keeps the one before.
ReceiverKeepsUp ==
  ~hasty /\ Exists =>
    /\ \/ hook.current \in accepts
       \/ hook.previous \in accepts \ {0} /\ now <= hook.until
    /\ hook.previous # 0 /\ now <= hook.until => hook.previous \in accepts

\* A request that is under way is signed with all that signed at its claim, or
\* with the secret that a rotation has replaced since, for as long as an overlap
\* after the claim; or it has taken longer than an overlap already.
SignedForLong(n) ==
  LET claimed == LastTry(n).at IN
  \/ /\ hook.current \in notice[n].secrets
     /\ hook.previous # 0 /\ claimed <= hook.until => hook.previous \in notice[n].secrets
  \/ /\ hook.previous \in notice[n].secrets \ {0}
     /\ \E k \in overlaps : hook.until >= claimed + k
  \/ \E k \in overlaps : now > claimed + k

RequestsSound ==
  \A n \in Notice : UnderWay(n) =>
    /\ LastTry(n).at <= now /\ now <= LastTry(n).at + RequestTime
    /\ ~hasty => SignedForLong(n)
    /\ notice[n].phase = "resolved" => notice[n].address = "public"

\* What the attempts of a notice have in common with its row.
TriesMatch(n) ==
  /\ notice[n].phase = "absent" => tries[n] = <<>>
  /\ UnderWay(n) \/ notice[n].phase = "answered" =>
       /\ Len(tries[n]) > 0 /\ LastTry(n).next = None
       /\ notice[n].phase = "answered" => LastTry(n).done \in Nat
  /\ notice[n].phase = "pending" =>
       /\ Len(tries[n]) < AttemptLimit
       /\ Len(tries[n]) > 0 => LastTry(n).next = notice[n].due

\* One planned retry.
RetryKept(n, k) ==
  LET t == tries[n][k] IN
  t.next # None =>
    /\ t.done \in Nat /\ t.next > t.done
    /\ t.next <= notice[n].created + DeliveryHorizon
    /\ t.asked # None => t.next - t.done >= Min({t.asked, MaximumRetryAfter})

RetriesKept(n) ==
  /\ Len(tries[n]) <= AttemptLimit
  /\ \A k \in 1..Len(tries[n]) : RetryKept(n, k)
  /\ \A k \in 1..(Len(tries[n]) - 1) :
       tries[n][k].next # None /\ tries[n][k + 1].at >= tries[n][k].next
  /\ notice[n].phase = "exhausted" /\ Len(tries[n]) < AttemptLimit =>
       /\ Len(tries[n]) > 0 /\ LastTry(n).done \in Nat
       /\ LastTry(n).done + Max({MaximumRetryAfter, 2 * MaximumBackoff})
            > notice[n].created + DeliveryHorizon

TrailPart == TrailTellsEndpoint /\ CallsSound /\ NothingBefore
SignPart == ReceiverKeepsUp /\ RequestsSound /\ SignaturesVerify /\ PostsReachPublicTargets
RetryPart == \A n \in Notice : TriesMatch(n) /\ RetriesKept(n)

EndpointInv == EndpointTypeOK /\ TrailPart /\ SignPart /\ RetryPart

-----------------------------------------------------------------------------
(* Numbers *)

LEMMA MaxOfTwo ==
  ASSUME NEW a \in Int, NEW b \in Int
  PROVE  Max({a, b}) \in {a, b} /\ Max({a, b}) >= a /\ Max({a, b}) >= b
<1>1. \E x \in {a, b} : \A y \in {a, b} : x >= y
  <2>1. CASE a >= b
    BY <2>1
  <2>2. CASE b >= a
    BY <2>2
  <2> QED
    BY <2>1, <2>2
<1> QED
  BY <1>1 DEF Max

LEMMA MinOfTwo ==
  ASSUME NEW a \in Int, NEW b \in Int
  PROVE  Min({a, b}) \in {a, b} /\ Min({a, b}) <= a /\ Min({a, b}) <= b
<1>1. \E x \in {a, b} : \A y \in {a, b} : x <= y
  <2>1. CASE a <= b
    BY <2>1
  <2>2. CASE b <= a
    BY <2>2
  <2> QED
    BY <2>1, <2>2
<1> QED
  BY <1>1 DEF Min

\* Part of a delay is no more than the delay.
LEMMA PartOfDelay ==
  ASSUME NEW b \in Int, NEW j \in 0..100, NEW top \in Nat \ {0}, b <= top
  PROVE  (b * j + 50) \div 100 \in Int /\ (b * j + 50) \div 100 <= top
<1>1. b * j \in Int /\ b * j <= 100 * top
  <2>1. CASE b >= 0
    <3>1. b * j <= b * 100
      BY <2>1
    <3> QED
      BY <3>1
  <2>2. CASE b < 0
    <3>1. b * j <= 0
      BY <2>2
    <3> QED
      BY <3>1
  <2> QED
    BY <2>1, <2>2
<1> DEFINE x == b * j
<1>2. x \in Int /\ x <= 100 * top
  BY <1>1
<1> HIDE DEF x
<1>3. (x + 50) \div 100 \in Int /\ (x + 50) \div 100 <= top
  BY <1>2
<1> QED
  BY <1>3 DEF x

\* A backoff is at least one tick, and at most twice the longest.
LEMMA BackoffBounds ==
  ASSUME NEW k \in Nat \ {0}, NEW jitter \in Jitters(k)
  PROVE  Backoff(k, jitter) \in Nat \ {0} /\ Backoff(k, jitter) <= 2 * MaximumBackoff
<1> DEFINE long == InitialBackoff * 2^(k - 1)
           base == Min({long, MaximumBackoff})
           most == (base * JitterPercent + 50) \div 100
<1>1. k - 1 \in Nat /\ InitialBackoff \in Nat /\ MaximumBackoff \in Nat \ {0}
        /\ JitterPercent \in 0..100
  BY EndpointAssumption
<1>2. 2^(k - 1) \in Int
  BY <1>1
<1>3. long \in Int
  BY <1>1, <1>2
<1> HIDE DEF long
<1>4. base \in Int /\ base <= MaximumBackoff
  <2>1. base \in {long, MaximumBackoff} /\ base <= MaximumBackoff
    BY <1>1, <1>3, MinOfTwo
  <2> QED
    BY <1>1, <1>3, <2>1
<1> HIDE DEF base
<1>5. most \in Int /\ most <= MaximumBackoff
  BY <1>1, <1>4, PartOfDelay
<1>6. Jitters(k) = (-most)..most
  BY DEF Jitters, long, base
<1> HIDE DEF most
<1>7. jitter \in Int /\ jitter <= most
  BY <1>5, <1>6
<1>8. base + jitter \in Int /\ base + jitter <= 2 * MaximumBackoff
  BY <1>1, <1>4, <1>5, <1>7
<1>9. Backoff(k, jitter) = Max({1, base + jitter})
  BY DEF Backoff, long, base
<1>10. Max({1, base + jitter}) \in {1, base + jitter} /\ Max({1, base + jitter}) >= 1
  BY <1>8, MaxOfTwo
<1> QED
  BY <1>1, <1>8, <1>9, <1>10

\* A retry's delay is at least a tick and what the receiver asked for, up to
\* the cap, and no more than the caps allow.
LEMMA DelayBounds ==
  ASSUME NEW k \in Nat \ {0}, NEW jitter \in Jitters(k), NEW asked \in RetryAfter \cup {None}
  PROVE  /\ RetryDelay(k, asked, jitter) \in Nat \ {0}
         /\ RetryDelay(k, asked, jitter) <= Max({MaximumRetryAfter, 2 * MaximumBackoff})
         /\ asked # None => RetryDelay(k, asked, jitter) >= Min({asked, MaximumRetryAfter})
<1> DEFINE back == Backoff(k, jitter)
           top == Max({MaximumRetryAfter, 2 * MaximumBackoff})
<1>1. back \in Nat \ {0} /\ back <= 2 * MaximumBackoff
  BY BackoffBounds
<1>2. MaximumRetryAfter \in Nat \ {0} /\ 2 * MaximumBackoff \in Nat /\ RetryAfter \subseteq Nat
  BY EndpointAssumption
<1> HIDE DEF back
<1>3. top \in Nat /\ top >= MaximumRetryAfter /\ top >= 2 * MaximumBackoff
  BY <1>2, MaxOfTwo
<1> HIDE DEF top
<1>4. CASE asked = None
  <2>1. RetryDelay(k, asked, jitter) = back
    BY <1>4 DEF RetryDelay, back
  <2> QED
    BY <1>1, <1>2, <1>3, <1>4, <2>1 DEF top
<1>5. CASE asked # None
  <2> DEFINE wish == Min({asked, MaximumRetryAfter})
  <2>1. asked \in Nat
    BY <1>2, <1>5
  <2>2. wish \in Nat /\ wish <= MaximumRetryAfter
    <3>1. wish \in {asked, MaximumRetryAfter} /\ wish <= MaximumRetryAfter
      BY <1>2, <2>1, MinOfTwo
    <3> QED
      BY <1>2, <2>1, <3>1
  <2>3. RetryDelay(k, asked, jitter) = Max({back, wish})
    BY <1>5 DEF RetryDelay, back
  <2> HIDE DEF wish
  <2>4. Max({back, wish}) \in {back, wish} /\ Max({back, wish}) >= back
          /\ Max({back, wish}) >= wish
    <3>1. back \in Int /\ wish \in Int
      BY <1>1, <2>2
    <3> QED
      BY <3>1, MaxOfTwo
  <2>5. /\ RetryDelay(k, asked, jitter) \in Nat \ {0}
        /\ RetryDelay(k, asked, jitter) <= top
        /\ RetryDelay(k, asked, jitter) >= wish
    BY <1>1, <1>2, <1>3, <2>2, <2>3, <2>4
  <2> QED
    BY <2>5 DEF top, wish
<1> QED
  BY <1>4, <1>5

-----------------------------------------------------------------------------
(* How the steps of a notice change it *)

Answer == {"accepted", "unavailable", "gone", "refused", "rejected"}

\* The other notices keep their rows and their attempts.
OthersUnchanged(n) ==
  \A m \in Notice : m # n => notice'[m] = notice[m] /\ tries'[m] = tries[m]

\* The last attempt of a notice becomes t.
LastBecomes(n, t) ==
  /\ tries' \in [Notice -> Seq(Try)]
  /\ \A m \in Notice : m # n => tries'[m] = tries[m]
  /\ Len(tries'[n]) = Len(tries[n])
  /\ \A k \in 1..(Len(tries[n]) - 1) : tries'[n][k] = tries[n][k]
  /\ tries'[n][Len(tries[n])] = t

LEMMA LastUpdated ==
  ASSUME tries \in [Notice -> Seq(Try)], NEW n \in Notice, Len(tries[n]) > 0, NEW t \in Try,
         tries' = [tries EXCEPT ![n] = [tries[n] EXCEPT ![Len(tries[n])] = t]]
  PROVE  LastBecomes(n, t)
<1> DEFINE s == tries[n]
           new == [s EXCEPT ![Len(s)] = t]
<1>1. s \in Seq(Try) /\ Len(s) \in Nat
  BY LenProperties
<1>2. Len(s) \in 1..Len(s)
  BY <1>1
<1>3. /\ new \in Seq(Try) /\ Len(new) = Len(s)
      /\ \A k \in 1..Len(s) : new[k] = IF k = Len(s) THEN t ELSE s[k]
  BY <1>1, <1>2, ExceptSeq
<1>4. tries'[n] = new /\ tries' = [tries EXCEPT ![n] = new]
  OBVIOUS
<1> HIDE DEF new
<1>5. tries' \in [Notice -> Seq(Try)]
  BY <1>3, <1>4
<1>6. \A m \in Notice : m # n => tries'[m] = tries[m]
  BY <1>4
<1>7. Len(tries'[n]) = Len(tries[n])
  BY <1>3, <1>4
<1>8. \A k \in 1..(Len(tries[n]) - 1) : tries'[n][k] = tries[n][k]
  BY <1>1, <1>3, <1>4
<1>9. tries'[n][Len(tries[n])] = t
  BY <1>2, <1>3, <1>4
<1> QED
  BY <1>5, <1>6, <1>7, <1>8, <1>9 DEF LastBecomes

\* The last attempt of a notice is there if any is.
LEMMA LastTyped ==
  ASSUME tries \in [Notice -> Seq(Try)], NEW n \in Notice, Len(tries[n]) > 0
  PROVE  Len(tries[n]) \in Nat \ {0} /\ LastTry(n) \in Try
<1>1. Len(tries[n]) \in Nat
  BY LenProperties
<1> QED
  BY <1>1, ElementOfSeq DEF LastTry

LEMMA AnsweredShape ==
  ASSUME EndpointTypeOK, NEW n \in Notice, Len(tries[n]) > 0,
         NEW a \in Answer, NEW k \in RetryAfter \cup {None}, Answered(n, a, k)
  PROVE  /\ notice' \in [Notice -> NoticeState]
         /\ OthersUnchanged(n)
         /\ notice'[n] = [notice[n] EXCEPT !.phase = "answered", !.answer = a]
         /\ LastBecomes(n, [LastTry(n) EXCEPT !.done = now, !.asked = k])
<1> DEFINE t == [LastTry(n) EXCEPT !.done = now, !.asked = k]
           row == [notice[n] EXCEPT !.phase = "answered", !.answer = a]
<1>1. tries \in [Notice -> Seq(Try)] /\ notice \in [Notice -> NoticeState] /\ now \in Nat
  BY EndpointAssumption DEF EndpointTypeOK
<1>2. LastTry(n) \in Try
  BY <1>1, LastTyped
<1>3. t \in Try
  BY <1>1, <1>2 DEF Try
<1>4. tries' = [tries EXCEPT ![n] = [tries[n] EXCEPT ![Len(tries[n])] = t]]
  BY DEF Answered, LastTry
<1> HIDE DEF t
<1>5. LastBecomes(n, t)
  BY <1>1, <1>3, <1>4, LastUpdated
<1>6. row \in NoticeState
  BY <1>1 DEF NoticeState, Answer
<1>7. notice' = [notice EXCEPT ![n] = row]
  BY DEF Answered
<1> HIDE DEF row
<1>8. notice' \in [Notice -> NoticeState] /\ notice'[n] = row
        /\ \A m \in Notice : m # n => notice'[m] = notice[m]
  BY <1>1, <1>6, <1>7
<1> QED
  BY <1>5, <1>8 DEF LastBecomes, OthersUnchanged, t, row

\* Every answer is one of the attempt that is under way.
LEMMA AnswerCases ==
  ASSUME EndpointTypeOK, NEW n \in Notice,
         ResolveTarget(n) \/ PostNotice(n) \/ RequestFails(n)
  PROVE  \/ /\ ResolveTarget(n)
            /\ notice' = [notice EXCEPT ![n].phase = "resolved", ![n].address = "public"]
            /\ UNCHANGED tries
         \/ \E a \in Answer, k \in RetryAfter \cup {None} : Answered(n, a, k)
<1>1. CASE ResolveTarget(n)
  BY <1>1 DEF ResolveTarget, LookupAnswer, Reach, Answer
<1>2. CASE PostNotice(n)
  BY <1>2 DEF PostNotice, Asks, Answer
<1>3. CASE RequestFails(n)
  BY <1>3 DEF RequestFails, Answer
<1> QED
  BY <1>1, <1>2, <1>3

LEMMA ClaimShape ==
  ASSUME EndpointTypeOK, NEW n \in Notice, ClaimNotice(n)
  PROVE  /\ notice' \in [Notice -> NoticeState] /\ tries' \in [Notice -> Seq(Try)]
         /\ OthersUnchanged(n)
         /\ notice'[n] = [notice[n] EXCEPT !.phase = "claimed", !.url = hook.url,
                                           !.secrets = Signing]
         /\ Len(tries'[n]) = Len(tries[n]) + 1
         /\ \A k \in 1..Len(tries[n]) : tries'[n][k] = tries[n][k]
         /\ tries'[n][Len(tries[n]) + 1] = [at |-> now, done |-> None, asked |-> None,
                                            next |-> None]
<1> DEFINE t == [at |-> now, done |-> None, asked |-> None, next |-> None]
           row == [notice[n] EXCEPT !.phase = "claimed", !.url = hook.url, !.secrets = Signing]
           s == tries[n]
           new == Append(s, t)
<1>1. /\ tries \in [Notice -> Seq(Try)] /\ notice \in [Notice -> NoticeState]
      /\ now \in Nat /\ hook \in Hook
  BY EndpointAssumption DEF EndpointTypeOK
<1>2. t \in Try
  BY <1>1 DEF Try
<1>3. Signing \in SUBSET Nat /\ hook.url \in Url \cup {None}
  BY <1>1 DEF Signing, Hook
<1>4. row \in NoticeState
  BY <1>1, <1>3 DEF NoticeState
<1> HIDE DEF t
<1>5. s \in Seq(Try)
  BY <1>1
<1>6. /\ new \in Seq(Try) /\ Len(new) = Len(s) + 1
      /\ \A k \in 1..Len(s) : new[k] = s[k]
      /\ new[Len(s) + 1] = t
  BY <1>2, <1>5, AppendProperties
<1>7. tries' = [tries EXCEPT ![n] = new] /\ notice' = [notice EXCEPT ![n] = row]
  BY DEF ClaimNotice, t
<1> HIDE DEF new, row
<1>8. /\ notice' \in [Notice -> NoticeState] /\ tries' \in [Notice -> Seq(Try)]
      /\ notice'[n] = row /\ tries'[n] = new
      /\ \A m \in Notice : m # n => notice'[m] = notice[m] /\ tries'[m] = tries[m]
  BY <1>1, <1>4, <1>6, <1>7
<1> QED
  BY <1>6, <1>8 DEF OthersUnchanged, t, row

\* A notice gets a row of its own or is settled; its attempts stay.
LEMMA RowShape ==
  ASSUME EndpointTypeOK, NEW n \in Notice, NEW row \in NoticeState,
         notice' = [notice EXCEPT ![n] = row], UNCHANGED tries
  PROVE  /\ notice' \in [Notice -> NoticeState] /\ notice'[n] = row
         /\ OthersUnchanged(n)
  BY DEF EndpointTypeOK, OthersUnchanged

LEMMA RetryShape ==
  ASSUME EndpointTypeOK, NEW n \in Notice, TriesMatch(n), RetryNotice(n)
  PROVE  \E next \in Nat :
    /\ LastTry(n).done \in Nat /\ next > LastTry(n).done
    /\ LastTry(n).asked # None =>
         next - LastTry(n).done >= Min({LastTry(n).asked, MaximumRetryAfter})
    /\ next <= LastTry(n).done + Max({MaximumRetryAfter, 2 * MaximumBackoff})
    /\ OthersUnchanged(n) /\ notice' \in [Notice -> NoticeState]
    /\ \/ /\ MayRetry(n, next)
          /\ notice'[n] = [NoNotice EXCEPT !.phase = "pending", !.created = notice[n].created,
                                           !.due = next]
          /\ LastBecomes(n, [LastTry(n) EXCEPT !.next = next])
       \/ /\ ~MayRetry(n, next)
          /\ notice'[n] = [NoNotice EXCEPT !.phase = "exhausted", !.created = notice[n].created]
          /\ UNCHANGED tries
<1>1. /\ tries \in [Notice -> Seq(Try)] /\ notice \in [Notice -> NoticeState]
      /\ Len(tries[n]) > 0 /\ LastTry(n).done \in Nat
  BY DEF EndpointTypeOK, RetryNotice, TriesMatch
<1>2. Len(tries[n]) \in Nat \ {0} /\ LastTry(n) \in Try
  BY <1>1, LastTyped
<1>3. PICK jitter \in Jitters(Len(tries[n])) :
        LET next == LastTry(n).done
                      + RetryDelay(Len(tries[n]), LastTry(n).asked, jitter) IN
        IF MayRetry(n, next)
        THEN /\ notice' = [notice EXCEPT ![n] = [NoNotice EXCEPT !.phase = "pending",
                                                  !.created = notice[n].created, !.due = next]]
             /\ tries' = [tries EXCEPT ![n][Len(tries[n])].next = next]
        ELSE Settled(n, "exhausted") /\ UNCHANGED tries
  BY DEF RetryNotice
<1> DEFINE delay == RetryDelay(Len(tries[n]), LastTry(n).asked, jitter)
           next == LastTry(n).done + delay
<1>4. LastTry(n).asked \in RetryAfter \cup {None}
  BY <1>2 DEF Try
<1>5. /\ delay \in Nat \ {0}
      /\ delay <= Max({MaximumRetryAfter, 2 * MaximumBackoff})
      /\ LastTry(n).asked # None => delay >= Min({LastTry(n).asked, MaximumRetryAfter})
  BY <1>2, <1>4, DelayBounds
<1>6. \/ /\ MayRetry(n, next)
         /\ notice' = [notice EXCEPT ![n] = [NoNotice EXCEPT !.phase = "pending",
                                              !.created = notice[n].created, !.due = next]]
         /\ tries' = [tries EXCEPT ![n][Len(tries[n])].next = next]
      \/ ~MayRetry(n, next) /\ Settled(n, "exhausted") /\ UNCHANGED tries
  BY <1>3
<1>7. Max({MaximumRetryAfter, 2 * MaximumBackoff}) \in Nat
  <2>1. MaximumRetryAfter \in Int /\ 2 * MaximumBackoff \in Int
          /\ MaximumRetryAfter \in Nat /\ 2 * MaximumBackoff \in Nat
    BY EndpointAssumption
  <2>2. Max({MaximumRetryAfter, 2 * MaximumBackoff}) \in {MaximumRetryAfter, 2 * MaximumBackoff}
    BY <2>1, MaxOfTwo
  <2> QED
    BY <2>1, <2>2
<1>8. LastTry(n).asked # None => Min({LastTry(n).asked, MaximumRetryAfter}) \in Nat
  <2> DEFINE asked == LastTry(n).asked
  <2> HIDE DEF asked
  <2> SUFFICES ASSUME asked # None
               PROVE  Min({asked, MaximumRetryAfter}) \in Nat
    BY DEF asked
  <2>1. asked \in RetryAfter
    BY <1>4 DEF asked
  <2>2. asked \in Nat /\ MaximumRetryAfter \in Nat
    BY <2>1, EndpointAssumption
  <2>3. asked \in Int /\ MaximumRetryAfter \in Int
    BY <2>2
  <2>4. Min({asked, MaximumRetryAfter}) \in {asked, MaximumRetryAfter}
    BY <2>3, MinOfTwo
  <2> QED
    BY <2>2, <2>4
<1> HIDE DEF delay
<1>9. /\ next \in Nat /\ next > LastTry(n).done
      /\ next <= LastTry(n).done + Max({MaximumRetryAfter, 2 * MaximumBackoff})
      /\ LastTry(n).asked # None =>
           next - LastTry(n).done >= Min({LastTry(n).asked, MaximumRetryAfter})
  BY <1>1, <1>5, <1>7, <1>8
<1> HIDE DEF next
<1>10. notice[n].created \in Nat /\ NoNotice \in NoticeState
  BY <1>1 DEF NoticeState, NoNotice
<1>11. CASE MayRetry(n, next)
  <2> DEFINE row == [NoNotice EXCEPT !.phase = "pending", !.created = notice[n].created,
                                     !.due = next]
             t == [LastTry(n) EXCEPT !.next = next]
  <2>1. row \in NoticeState
    BY <1>9, <1>10 DEF NoticeState
  <2>2. t \in Try
    BY <1>2, <1>9 DEF Try
  <2>3. notice' = [notice EXCEPT ![n] = row]
    BY <1>6, <1>11
  <2>4. tries' = [tries EXCEPT ![n] = [tries[n] EXCEPT ![Len(tries[n])] = t]]
    BY <1>6, <1>11 DEF LastTry
  <2> HIDE DEF row, t
  <2>5. LastBecomes(n, t)
    BY <1>1, <2>2, <2>4, LastUpdated
  <2>6. notice' \in [Notice -> NoticeState] /\ notice'[n] = row
          /\ \A m \in Notice : m # n => notice'[m] = notice[m]
    BY <1>1, <2>1, <2>3
  <2>7. OthersUnchanged(n)
    BY <2>5, <2>6 DEF LastBecomes, OthersUnchanged
  <2> QED
    BY <1>1, <1>9, <1>11, <2>5, <2>6, <2>7 DEF row, t
<1>12. CASE ~MayRetry(n, next)
  <2> DEFINE row == [NoNotice EXCEPT !.phase = "exhausted", !.created = notice[n].created]
  <2>1. row \in NoticeState
    BY <1>10 DEF NoticeState
  <2>2. notice' = [notice EXCEPT ![n] = row] /\ UNCHANGED tries
    BY <1>6, <1>12 DEF Settled
  <2> HIDE DEF row
  <2>3. notice' \in [Notice -> NoticeState] /\ notice'[n] = row /\ OthersUnchanged(n)
    BY <2>1, <2>2, RowShape
  <2> QED
    BY <1>1, <1>9, <1>12, <2>2, <2>3 DEF row
<1> QED
  BY <1>11, <1>12

-----------------------------------------------------------------------------
(* The steps in groups, and the types *)

\* The steps that change no notice and no attempt.
LEMMA EndpointStepCases ==
  ASSUME [EndpointNext]_hookVars
  PROVE  \/ \E o \in Operator :
               \/ \E u \in Url : CallOperation(o, "provisioned", u, None)
                                   \/ CallOperation(o, "url_updated", u, None)
               \/ \E k \in Overlap : CallOperation(o, "secret_rotated", None, k)
               \/ CallOperation(o, "disabled", None, None)
         \/ \E o \in Operator : ResolveNewUrl(o) \/ AbandonOperation(o)
         \/ \E o \in Operator : WriteOperation(o)
         \/ AdoptSecret
         \/ \E s \in accepts : RetireSecret(s)
         \/ Tick
         \/ \E n \in Notice : CreateNotice(n)
         \/ \E n \in Notice : ClaimNotice(n)
         \/ \E n \in Notice : ResolveTarget(n) \/ PostNotice(n) \/ RequestFails(n)
         \/ \E n \in Notice : RetryNotice(n)
         \/ \E n \in Notice : ConcludeNotice(n)
         \/ UNCHANGED hookVars
  BY DEF EndpointNext, Operate, Deliver, Surroundings

\* What is written is a row, and counts one event.
LEMMA WriteShape ==
  ASSUME EndpointTypeOK, CallsSound, NEW o \in Operator, WriteOperation(o)
  PROVE  /\ call[o] \in Call /\ call[o].action \in Change /\ call[o].at = now
         /\ call[o].action # "provisioned" => Exists
         /\ call[o].action = "secret_rotated" => call[o].overlap \in Overlap
         /\ \/ Writes(o) /\ hook' = WrittenRow(o) /\ hook' \in Hook
               /\ trail' = [trail EXCEPT ![call[o].action] = @ + 1]
            \/ ~Writes(o) /\ UNCHANGED <<hook, trail, rotationVars>>
<1>1. call[o] \in Call /\ call[o] # NoCall /\ hook \in Hook
  BY DEF EndpointTypeOK, WriteOperation, NoCall
<1>2. /\ call[o].action \in Change /\ call[o].at = now
      /\ call[o].action # "provisioned" => Exists
      /\ call[o].action \in {"provisioned", "url_updated"} => call[o].url \in Url
      /\ call[o].action = "secret_rotated" => call[o].overlap \in Overlap
  BY <1>1 DEF CallsSound
<1>3. WrittenRow(o) \in Hook
  <2>1. CASE call[o].action = "provisioned"
    BY <1>2, <2>1 DEF WrittenRow, Provisioned, NoHook, Hook
  <2>2. CASE call[o].action = "url_updated"
    BY <1>1, <1>2, <2>2 DEF WrittenRow, Hook
  <2>3. CASE call[o].action = "secret_rotated"
    <3>1. call[o].at + call[o].overlap \in Nat /\ hook.current + 1 \in Nat
            /\ hook.current \in Nat
      <4>1. call[o].at \in Nat /\ call[o].overlap \in Nat /\ hook.current \in Nat
        BY <1>1, <1>2, <2>3, EndpointAssumption DEF Call, Hook
      <4> QED
        BY <4>1
    <3>2. WrittenRow(o) = Rotated(call[o].at, call[o].overlap)
      BY <2>3 DEF WrittenRow
    <3> QED
      BY <1>1, <3>1, <3>2 DEF Rotated, Hook
  <2>4. CASE call[o].action = "disabled"
    BY <1>1, <2>4 DEF WrittenRow, Hook
  <2> QED
    BY <1>2, <2>1, <2>2, <2>3, <2>4 DEF Change
<1> QED
  BY <1>1, <1>2, <1>3 DEF WriteOperation, Audited

LEMMA TypeStep ==
  ASSUME EndpointInv, [EndpointNext]_hookVars
  PROVE  EndpointTypeOK'
<1>1. EndpointTypeOK /\ CallsSound
  BY DEF EndpointInv, TrailPart
<1>2. \A n \in Notice : TriesMatch(n)
  BY DEF EndpointInv, RetryPart
<1> USE <1>1
<1>3. ASSUME NEW o \in Operator, NEW u \in Url \cup {None}, NEW a \in Change,
             NEW k \in Overlap \cup {None}, CallOperation(o, a, u, k)
      PROVE  EndpointTypeOK'
  <2>1. /\ UNCHANGED <<now, hook, trail, accepts, senderVars, rotationVars>>
        /\ calls < CallBound /\ calls' = calls + 1
    BY <1>3 DEF CallOperation
  <2>2. \E p \in {"resolving", "writing"}, v \in {u, None}, i \in {k, None} :
          call' = [call EXCEPT ![o] = [phase |-> p, action |-> a, url |-> v,
                                       overlap |-> i, at |-> now]]
    BY <1>3 DEF CallOperation, AskedNow
  <2>3. now \in Nat
    BY EndpointAssumption DEF EndpointTypeOK
  <2>4. \A p \in {"resolving", "writing"}, v \in {u, None}, i \in {k, None} :
          [phase |-> p, action |-> a, url |-> v, overlap |-> i, at |-> now] \in Call
    BY <2>3 DEF Call
  <2>5. call' \in [Operator -> Call]
    BY <2>2, <2>4 DEF EndpointTypeOK
  <2>6. calls' \in 0..CallBound
    BY <2>1, EndpointAssumption DEF EndpointTypeOK
  <2> QED
    BY <2>1, <2>5, <2>6 DEF EndpointTypeOK, senderVars
<1>4. ASSUME NEW o \in Operator, ResolveNewUrl(o) \/ AbandonOperation(o)
      PROVE  EndpointTypeOK'
  <2>1. /\ UNCHANGED <<now, hook, calls, accepts, senderVars, rotationVars>>
        /\ \/ call' = [call EXCEPT ![o].phase = "writing"]
           \/ call' = [call EXCEPT ![o] = NoCall]
        /\ \/ UNCHANGED trail
           \/ \E a \in AuditAction : trail' = [trail EXCEPT ![a] = @ + 1]
    BY <1>4 DEF ResolveNewUrl, AbandonOperation, Audited, RefusalOf, AuditAction, Refusal
  <2>2. NoCall \in Call
    BY DEF NoCall, Call
  <2>3. [call[o] EXCEPT !.phase = "writing"] \in Call
    BY DEF Call, EndpointTypeOK
  <2>4. call' \in [Operator -> Call]
    BY <2>1, <2>2, <2>3 DEF EndpointTypeOK
  <2>5. trail' \in [AuditAction -> Nat]
    BY <2>1 DEF EndpointTypeOK
  <2> QED
    BY <2>1, <2>4, <2>5 DEF EndpointTypeOK, senderVars
<1>5. ASSUME NEW o \in Operator, WriteOperation(o)
      PROVE  EndpointTypeOK'
  <2>1. /\ call[o].action \in AuditAction
        /\ \/ hook' \in Hook /\ trail' = [trail EXCEPT ![call[o].action] = @ + 1]
           \/ UNCHANGED <<hook, trail>>
    BY <1>5, WriteShape DEF AuditAction
  <2>5. hook' \in Hook /\ trail' \in [AuditAction -> Nat]
    BY <2>1 DEF EndpointTypeOK
  <2>2. call' = [call EXCEPT ![o] = NoCall] /\ UNCHANGED <<now, calls, accepts, senderVars>>
    BY <1>5 DEF WriteOperation
  <2>3. call' \in [Operator -> Call]
    BY <2>2 DEF EndpointTypeOK, NoCall, Call
  <2>4. hasty' \in BOOLEAN
    BY <1>5 DEF WriteOperation, EndpointTypeOK
  <2>6. overlaps' \subseteq Overlap
    <3>1. call[o].overlap \in Overlap \cup {None}
      BY <1>5, WriteShape DEF Call
    <3>2. overlaps' \in {overlaps, overlaps \cup ({call[o].overlap} \ {None})}
      BY <1>5 DEF WriteOperation
    <3> QED
      BY <3>1, <3>2 DEF EndpointTypeOK
  <2> QED
    BY <2>2, <2>3, <2>4, <2>5, <2>6 DEF EndpointTypeOK, senderVars
<1>6. CASE AdoptSecret \/ (\E s \in accepts : RetireSecret(s)) \/ Tick
  <2>1. UNCHANGED <<operatorVars, senderVars, rotationVars>>
    BY <1>6 DEF AdoptSecret, RetireSecret, Tick
  <2>2. hook.current \in Nat
    BY DEF EndpointTypeOK, Hook
  <2>3. accepts' \subseteq Nat
    BY <1>6, <2>2 DEF AdoptSecret, RetireSecret, Tick, EndpointTypeOK
  <2>4. now' \in 0..EndOfTime
    BY <1>6, EndpointAssumption DEF AdoptSecret, RetireSecret, Tick, EndpointTypeOK
  <2> QED
    BY <2>1, <2>3, <2>4 DEF EndpointTypeOK, operatorVars, senderVars
<1>7. ASSUME NEW n \in Notice, CreateNotice(n)
      PROVE  EndpointTypeOK'
  <2> DEFINE row == [NoNotice EXCEPT !.phase = "pending", !.created = now, !.due = now]
  <2>1. now \in Nat
    BY EndpointAssumption DEF EndpointTypeOK
  <2>2. row \in NoticeState
    BY <2>1 DEF NoNotice, NoticeState
  <2>3. notice' = [notice EXCEPT ![n] = row]
          /\ UNCHANGED <<now, operatorVars, accepts, tries, posts, rotationVars>>
    BY <1>7 DEF CreateNotice
  <2> HIDE DEF row
  <2>4. notice' \in [Notice -> NoticeState]
    BY <2>2, <2>3, RowShape
  <2> QED
    BY <2>3, <2>4 DEF EndpointTypeOK, operatorVars
<1>8. ASSUME NEW n \in Notice, ClaimNotice(n)
      PROVE  EndpointTypeOK'
  BY <1>8, ClaimShape DEF EndpointTypeOK, operatorVars, ClaimNotice
<1>9. ASSUME NEW n \in Notice, ResolveTarget(n) \/ PostNotice(n) \/ RequestFails(n)
      PROVE  EndpointTypeOK'
  <2>1. notice' \in [Notice -> NoticeState] /\ tries' \in [Notice -> Seq(Try)]
    <3>1. CASE /\ notice' = [notice EXCEPT ![n].phase = "resolved", ![n].address = "public"]
               /\ UNCHANGED tries
      <4>1. [notice[n] EXCEPT !.phase = "resolved", !.address = "public"] \in NoticeState
        BY DEF EndpointTypeOK, NoticeState, Reach
      <4> QED
        BY <3>1, <4>1 DEF EndpointTypeOK
    <3>2. ASSUME NEW a \in Answer, NEW k \in RetryAfter \cup {None}, Answered(n, a, k)
          PROVE  notice' \in [Notice -> NoticeState] /\ tries' \in [Notice -> Seq(Try)]
      <4>1. Len(tries[n]) > 0
        BY <1>2, <1>9 DEF TriesMatch, UnderWay, ResolveTarget, PostNotice, RequestFails
      <4> QED
        BY <3>2, <4>1, AnsweredShape DEF LastBecomes
    <3> QED
      BY <1>9, <3>1, <3>2, AnswerCases
  <2>2. posts' \subseteq Post
    <3>1. CASE PostNotice(n)
      <4>1. PICK r \in ConnectsTo(n) :
              posts' = posts \cup {[address |-> r, verified |-> Verified(n),
                                     took |-> now - LastTry(n).at]}
        BY <3>1 DEF PostNotice
      <4>2. Verified(n) \in BOOLEAN
        BY DEF Verified
      <4>3. r \in Reach
        <5>1. notice[n].address = "public"
          BY <3>1 DEF PostNotice, EndpointInv, SignPart, RequestsSound, UnderWay
        <5> QED
          BY <4>1, <5>1 DEF ConnectsTo, Reach
      <4>4. now - LastTry(n).at \in 0..RequestTime
        <5>1. LastTry(n).at <= now /\ now <= LastTry(n).at + RequestTime
          BY <3>1 DEF PostNotice, EndpointInv, SignPart, RequestsSound, UnderWay
        <5>2. Len(tries[n]) > 0
          BY <1>2, <3>1 DEF TriesMatch, UnderWay, PostNotice
        <5>3. LastTry(n).at \in Nat
          BY <5>2, LastTyped DEF EndpointTypeOK, Try
        <5>4. now \in Nat /\ RequestTime \in Nat
          BY EndpointAssumption DEF EndpointTypeOK
        <5> DEFINE at == LastTry(n).at
        <5> HIDE DEF at
        <5>5. \A a \in Nat : a <= now /\ now <= a + RequestTime => now - a \in 0..RequestTime
          BY <5>4
        <5> QED
          BY <5>1, <5>3, <5>5
      <4> QED
        BY <4>1, <4>2, <4>3, <4>4 DEF Post, EndpointTypeOK
    <3>2. CASE ResolveTarget(n) \/ RequestFails(n)
      BY <3>2 DEF ResolveTarget, RequestFails, EndpointTypeOK
    <3> QED
      BY <1>9, <3>1, <3>2
  <2>3. UNCHANGED <<now, operatorVars, accepts, rotationVars>>
    BY <1>9 DEF ResolveTarget, PostNotice, RequestFails
  <2> QED
    BY <2>1, <2>2, <2>3 DEF EndpointTypeOK, operatorVars
<1>10. ASSUME NEW n \in Notice, RetryNotice(n)
       PROVE  EndpointTypeOK'
  <2>1. notice' \in [Notice -> NoticeState] /\ tries' \in [Notice -> Seq(Try)]
    BY <1>2, <1>10, RetryShape DEF LastBecomes, EndpointTypeOK
  <2>2. UNCHANGED <<now, operatorVars, accepts, posts, rotationVars>>
    BY <1>10 DEF RetryNotice
  <2> QED
    BY <2>1, <2>2 DEF EndpointTypeOK, operatorVars
<1>11. ASSUME NEW n \in Notice, ConcludeNotice(n)
       PROVE  EndpointTypeOK'
  <2>1. UNCHANGED <<now, call, calls, accepts, tries, posts, rotationVars>>
    BY <1>11 DEF ConcludeNotice
  <2>2. \E p \in {"succeeded", "failed"} :
          notice' = [notice EXCEPT ![n] = [NoNotice EXCEPT !.phase = p,
                                                           !.created = notice[n].created]]
    BY <1>11 DEF ConcludeNotice, Settled
  <2>3. notice[n].created \in Nat
    BY DEF EndpointTypeOK, NoticeState
  <2>4. \A p \in {"succeeded", "failed"} :
          [NoNotice EXCEPT !.phase = p, !.created = notice[n].created] \in NoticeState
    BY <2>3 DEF NoNotice, NoticeState
  <2>5. notice' \in [Notice -> NoticeState]
    BY <2>2, <2>4 DEF EndpointTypeOK
  <2>6. /\ hook' \in {hook, [hook EXCEPT !.status = "disabled"]}
        /\ \/ UNCHANGED trail
           \/ \E a \in AuditAction : trail' = [trail EXCEPT ![a] = @ + 1]
    BY <1>11 DEF ConcludeNotice, Audited, DisablingEvent, AuditAction, Change
  <2>7. hook' \in Hook
    BY <2>6 DEF EndpointTypeOK, Hook
  <2>8. trail' \in [AuditAction -> Nat]
    BY <2>6 DEF EndpointTypeOK
  <2> QED
    BY <2>1, <2>5, <2>7, <2>8 DEF EndpointTypeOK
<1>12. CASE UNCHANGED hookVars
  BY <1>12 DEF hookVars, operatorVars, senderVars, EndpointTypeOK
<1> QED
  BY <1>3, <1>4, <1>5, <1>6, <1>7, <1>8, <1>9, <1>10, <1>11, <1>12, EndpointStepCases DEF Change

-----------------------------------------------------------------------------
(* The audit trail *)

\* A step that leaves the endpoint, its trail and its calls alone.
LEMMA TrailUntouched ==
  ASSUME TrailTellsEndpoint, UNCHANGED <<hook, trail>>
  PROVE  TrailTellsEndpoint'
  BY DEF TrailTellsEndpoint

LEMMA TrailStep ==
  ASSUME EndpointInv, [EndpointNext]_hookVars
  PROVE  TrailTellsEndpoint'
<1>1. EndpointTypeOK /\ CallsSound /\ NothingBefore /\ TrailTellsEndpoint
  BY DEF EndpointInv, TrailPart
<1>2. hook \in Hook /\ \A a \in AuditAction : trail[a] \in Nat
  BY <1>1 DEF EndpointTypeOK
<1>3. hook.current \in Nat /\ hook.status \in {"absent", "enabled", "disabled"}
  BY <1>2 DEF Hook
<1>4. {"provisioned", "url_updated", "secret_rotated", "disabled", "delivery_target_rejected"}
        \subseteq AuditAction
  BY DEF AuditAction, Change
<1>5. ASSUME NEW o \in Operator, ResolveNewUrl(o)
      PROVE  TrailTellsEndpoint'
  <2>1. /\ UNCHANGED hook
        /\ \/ UNCHANGED trail
           \/ \E a \in Refusal : trail' = [trail EXCEPT ![a] = @ + 1]
    BY <1>5 DEF ResolveNewUrl, Audited, RefusalOf, Refusal
  <2>2. \A a \in {"provisioned", "secret_rotated", "disabled", "delivery_target_rejected"} :
          trail'[a] = trail[a]
    BY <1>1, <1>4, <2>1 DEF Refusal, EndpointTypeOK
  <2> QED
    BY <1>1, <2>1, <2>2 DEF TrailTellsEndpoint
<1>6. ASSUME NEW o \in Operator, WriteOperation(o)
      PROVE  TrailTellsEndpoint'
  <2>1. /\ call[o] \in Call /\ call[o].action \in Change
        /\ call[o].action # "provisioned" => Exists
        /\ \/ Writes(o) /\ hook' = WrittenRow(o)
              /\ trail' = [trail EXCEPT ![call[o].action] = @ + 1]
           \/ ~Writes(o) /\ UNCHANGED <<hook, trail, rotationVars>>
    BY <1>1, <1>6, WriteShape
  <2>2. CASE ~Writes(o)
    BY <1>1, <2>1, <2>2, TrailUntouched
  <2>3. CASE Writes(o)
    <3> DEFINE a == call[o].action
    <3>1. hook' = WrittenRow(o) /\ a \in Change
      BY <2>1, <2>3
    <3>2. \A b \in AuditAction : trail'[b] = IF b = a THEN trail[b] + 1 ELSE trail[b]
      BY <1>1, <2>1, <2>3 DEF EndpointTypeOK
    <3>3. CASE a = "provisioned"
      <4>1. ~Exists
        BY <2>3, <3>3 DEF Writes, Exists
      <4>2. /\ trail["provisioned"] = 0 /\ trail["secret_rotated"] = 0
            /\ trail["disabled"] = 0 /\ trail["delivery_target_rejected"] = 0
        BY <1>1, <4>1 DEF NothingBefore, Change
      <4>3. hook'.status = "enabled" /\ hook'.current = 1
        BY <3>1, <3>3 DEF WrittenRow, Provisioned, NoHook
      <4>4. /\ trail'["provisioned"] = 1 /\ trail'["secret_rotated"] = 0
            /\ trail'["disabled"] = 0 /\ trail'["delivery_target_rejected"] = 0
        BY <1>4, <3>2, <3>3, <4>2
      <4> QED
        BY <4>3, <4>4 DEF TrailTellsEndpoint
    <3>4. CASE a # "provisioned"
      <4>1. Exists
        BY <2>1, <3>4
      <4>2. /\ trail["provisioned"] = 1 /\ hook.current = 1 + trail["secret_rotated"]
            /\ hook.status = "disabled" <=>
                 trail["disabled"] + trail["delivery_target_rejected"] > 0
        BY <1>1, <4>1 DEF TrailTellsEndpoint, Exists
      <4>3. trail'["provisioned"] = 1
              /\ trail'["delivery_target_rejected"] = trail["delivery_target_rejected"]
        BY <1>4, <3>1, <3>2, <3>4, <4>2 DEF Change
      <4>4. CASE a = "url_updated"
        <5>1. hook'.status = hook.status /\ hook'.current = hook.current
          BY <1>2, <3>1, <4>4 DEF WrittenRow, Hook
        <5>2. trail'["secret_rotated"] = trail["secret_rotated"]
                /\ trail'["disabled"] = trail["disabled"]
          BY <1>4, <3>2, <4>4
        <5> QED
          BY <4>1, <4>2, <4>3, <5>1, <5>2 DEF TrailTellsEndpoint, Exists
      <4>5. CASE a = "secret_rotated"
        <5>1. hook'.status = hook.status /\ hook'.current = hook.current + 1
          BY <1>2, <3>1, <4>5 DEF WrittenRow, Rotated, Hook
        <5>2. trail'["secret_rotated"] = trail["secret_rotated"] + 1
                /\ trail'["disabled"] = trail["disabled"]
          BY <1>4, <3>2, <4>5
        <5>3. hook'.current = 1 + trail'["secret_rotated"]
          BY <1>2, <1>3, <1>4, <4>2, <5>1, <5>2
        <5> QED
          BY <4>1, <4>2, <4>3, <5>1, <5>2, <5>3 DEF TrailTellsEndpoint, Exists
      <4>6. CASE a = "disabled"
        <5>1. hook'.status = "disabled" /\ hook'.current = hook.current
          BY <1>2, <3>1, <4>6 DEF WrittenRow, Hook
        <5>2. trail'["secret_rotated"] = trail["secret_rotated"]
                /\ trail'["disabled"] = trail["disabled"] + 1
          BY <1>4, <3>2, <4>6
        <5>3. trail'["disabled"] + trail'["delivery_target_rejected"] > 0
          BY <1>2, <1>4, <4>3, <5>2
        <5> QED
          BY <4>2, <4>3, <5>1, <5>2, <5>3 DEF TrailTellsEndpoint
      <4> QED
        BY <3>1, <3>4, <4>4, <4>5, <4>6 DEF Change
    <3> QED
      BY <3>3, <3>4
  <2> QED
    BY <2>2, <2>3
<1>7. ASSUME NEW n \in Notice, ConcludeNotice(n)
      PROVE  TrailTellsEndpoint'
  <2>1. Exists
    BY <1>1, <1>7 DEF NothingBefore, ConcludeNotice
  <2>2. CASE notice[n].answer \notin {"gone", "rejected"}
    BY <1>1, <1>7, <2>2, TrailUntouched DEF ConcludeNotice
  <2>3. CASE notice[n].answer \in {"gone", "rejected"}
    <3> DEFINE a == DisablingEvent(notice[n].answer)
    <3>1. hook' = [hook EXCEPT !.status = "disabled"] /\ trail' = [trail EXCEPT ![a] = @ + 1]
      BY <1>7, <2>3 DEF ConcludeNotice, Disables, Audited
    <3>2. a \in {"disabled", "delivery_target_rejected"}
      BY DEF DisablingEvent
    <3> HIDE DEF a
    <3>3. \A b \in AuditAction : trail'[b] = IF b = a THEN trail[b] + 1 ELSE trail[b]
      BY <1>1, <1>4, <3>1, <3>2 DEF EndpointTypeOK
    <3>4. hook'.status = "disabled" /\ hook'.current = hook.current
      BY <1>2, <3>1 DEF Hook
    <3>5. trail'["provisioned"] = trail["provisioned"]
            /\ trail'["secret_rotated"] = trail["secret_rotated"]
      BY <1>4, <3>2, <3>3
    <3>6. trail'["disabled"] + trail'["delivery_target_rejected"] > 0
      BY <1>2, <1>4, <3>2, <3>3
    <3> QED
      BY <1>1, <2>1, <3>4, <3>5, <3>6 DEF TrailTellsEndpoint, Exists
  <2> QED
    BY <2>2, <2>3
<1>8. CASE UNCHANGED <<hook, trail>>
  BY <1>1, <1>8, TrailUntouched
<1>9. \/ UNCHANGED <<hook, trail>>
      \/ \E o \in Operator : ResolveNewUrl(o) \/ WriteOperation(o)
      \/ \E n \in Notice : ConcludeNotice(n)
  BY EndpointStepCases DEF CallOperation, AbandonOperation, AdoptSecret, RetireSecret, Tick,
                   CreateNotice, ClaimNotice, ResolveTarget, PostNotice, RequestFails,
                   RetryNotice, operatorVars, hookVars
<1> QED
  BY <1>5, <1>6, <1>7, <1>8, <1>9

LEMMA CallsStep ==
  ASSUME EndpointInv, [EndpointNext]_hookVars
  PROVE  CallsSound'
<1>1. EndpointTypeOK /\ CallsSound
  BY DEF EndpointInv, TrailPart
<1>2. Exists => Exists'
  <2>1. ASSUME NEW o \in Operator, WriteOperation(o)
        PROVE  Exists => Exists'
    <3>1. CASE hook' = hook
      BY <3>1 DEF Exists
    <3>2. CASE Writes(o) /\ hook' = WrittenRow(o)
      <4>1. call[o].action \in Change /\ hook \in Hook
        BY <1>1, <2>1, WriteShape DEF EndpointTypeOK
      <4> QED
        BY <3>2, <4>1 DEF WrittenRow, Provisioned, Rotated, NoHook, Hook, Exists, Change
    <3> QED
      BY <1>1, <2>1, <3>1, <3>2, WriteShape
  <2>2. ASSUME NEW n \in Notice, ConcludeNotice(n)
        PROVE  Exists => Exists'
    BY <1>1, <2>2 DEF ConcludeNotice, Exists, EndpointTypeOK, Hook
  <2>3. \/ UNCHANGED hook
        \/ \E o \in Operator : WriteOperation(o)
        \/ \E n \in Notice : ConcludeNotice(n)
    BY EndpointStepCases DEF CallOperation, ResolveNewUrl, AbandonOperation, AdoptSecret, RetireSecret,
                     Tick, CreateNotice, ClaimNotice, ResolveTarget, PostNotice, RequestFails,
                     RetryNotice, operatorVars, hookVars
  <2> QED
    BY <2>1, <2>2, <2>3 DEF Exists
<1>3. ASSUME NEW o \in Operator, NEW u \in Url \cup {None}, NEW a \in Change,
             NEW k \in Overlap \cup {None}, CallOperation(o, a, u, k),
             a \in {"provisioned", "url_updated"} => u \in Url,
             a = "secret_rotated" => k \in Overlap
      PROVE  CallsSound'
  <2>1. UNCHANGED <<now, hook>> /\ (a # "provisioned" => Exists)
    BY <1>3 DEF CallOperation, Exists
  <2>2. PICK p \in {"resolving", "writing"}, v \in {u, None}, i \in {k, None} :
          /\ call' = [call EXCEPT ![o] = [phase |-> p, action |-> a, url |-> v,
                                          overlap |-> i, at |-> now]]
          /\ a \in {"provisioned", "url_updated"} => v = u
          /\ a = "secret_rotated" => i = k
    BY <1>3 DEF CallOperation, AskedNow
  <2>3. /\ call'[o].action = a /\ call'[o].at = now /\ call'[o].url = v
        /\ call'[o].overlap = i
        /\ \A q \in Operator : q # o => call'[q] = call[q]
    BY <1>1, <2>2 DEF EndpointTypeOK
  <2> QED
    BY <1>1, <1>3, <2>1, <2>2, <2>3 DEF CallsSound, Exists
<1>4. ASSUME NEW o \in Operator, ResolveNewUrl(o) \/ AbandonOperation(o) \/ WriteOperation(o)
      PROVE  CallsSound'
  <2>1. /\ UNCHANGED now
        /\ \/ call[o].phase = "resolving" /\ call' = [call EXCEPT ![o].phase = "writing"]
           \/ call' = [call EXCEPT ![o] = NoCall]
    BY <1>4 DEF ResolveNewUrl, AbandonOperation, WriteOperation
  <2>2. \A q \in Operator : q # o => call'[q] = call[q]
    BY <1>1, <2>1 DEF EndpointTypeOK
  <2>3. \/ call'[o] = NoCall
        \/ /\ call[o] # NoCall /\ call'[o].action = call[o].action
           /\ call'[o].at = call[o].at /\ call'[o].url = call[o].url
           /\ call'[o].overlap = call[o].overlap
    BY <1>1, <2>1 DEF EndpointTypeOK, Call, NoCall
  <2> QED
    BY <1>1, <1>2, <2>1, <2>2, <2>3 DEF CallsSound
<1>5. CASE Tick
  BY <1>5 DEF Tick, operatorVars, CallsSound
<1>6. CASE UNCHANGED <<now, call>>
  BY <1>1, <1>2, <1>6 DEF CallsSound
<1>7. \/ \E o \in Operator :
           \/ \E u \in Url : CallOperation(o, "provisioned", u, None)
                               \/ CallOperation(o, "url_updated", u, None)
           \/ \E k \in Overlap : CallOperation(o, "secret_rotated", None, k)
           \/ CallOperation(o, "disabled", None, None)
      \/ \E o \in Operator : ResolveNewUrl(o) \/ AbandonOperation(o) \/ WriteOperation(o)
      \/ Tick
      \/ UNCHANGED <<now, call>>
  BY EndpointStepCases DEF AdoptSecret, RetireSecret, CreateNotice, ClaimNotice, ResolveTarget,
                   PostNotice, RequestFails, RetryNotice, ConcludeNotice, operatorVars, hookVars
<1> QED
  BY <1>3, <1>4, <1>5, <1>6, <1>7 DEF Change

\* What becomes of the endpoint's row in a step.
LEMMA HookCases ==
  ASSUME EndpointInv, [EndpointNext]_hookVars
  PROVE  \/ UNCHANGED hook
         \/ Exists /\ hook' = [hook EXCEPT !.status = "disabled"] /\ UNCHANGED <<now, accepts, rotationVars>>
         \/ \E o \in Operator :
              /\ WriteOperation(o) /\ Writes(o) /\ hook' = WrittenRow(o)
              /\ call[o].action \in Change /\ call[o].at = now
              /\ call[o].action # "provisioned" => Exists
              /\ call[o].action = "secret_rotated" => call[o].overlap \in Overlap
<1>1. EndpointTypeOK /\ CallsSound /\ NothingBefore
  BY DEF EndpointInv, TrailPart
<1>2. ASSUME NEW o \in Operator, WriteOperation(o), hook' # hook
      PROVE  /\ Writes(o) /\ hook' = WrittenRow(o)
             /\ call[o].action \in Change /\ call[o].at = now
             /\ call[o].action # "provisioned" => Exists
             /\ call[o].action = "secret_rotated" => call[o].overlap \in Overlap
  BY <1>1, <1>2, WriteShape
<1>3. ASSUME NEW n \in Notice, ConcludeNotice(n), hook' # hook
      PROVE  /\ Exists /\ hook' = [hook EXCEPT !.status = "disabled"]
             /\ UNCHANGED <<now, accepts, rotationVars>>
  BY <1>1, <1>3 DEF ConcludeNotice, NothingBefore
<1>4. \/ UNCHANGED hook
      \/ \E o \in Operator : WriteOperation(o)
      \/ \E n \in Notice : ConcludeNotice(n)
  BY EndpointStepCases DEF CallOperation, ResolveNewUrl, AbandonOperation, AdoptSecret, RetireSecret,
                   Tick, CreateNotice, ClaimNotice, ResolveTarget, PostNotice, RequestFails,
                   RetryNotice, operatorVars, hookVars
<1> QED
  BY <1>2, <1>3, <1>4

LEMMA NothingStep ==
  ASSUME EndpointInv, [EndpointNext]_hookVars
  PROVE  NothingBefore'
<1>1. EndpointTypeOK /\ CallsSound /\ NothingBefore
  BY DEF EndpointInv, TrailPart
<1> SUFFICES ASSUME ~Exists' PROVE NothingBefore'
  BY DEF NothingBefore
<1>2. UNCHANGED hook /\ ~Exists
  <2>1. hook \in Hook
    BY <1>1 DEF EndpointTypeOK
  <2>2. CASE UNCHANGED hook
    BY <2>2 DEF Exists
  <2>3. CASE Exists /\ hook' = [hook EXCEPT !.status = "disabled"]
    BY <2>1, <2>3 DEF Exists, Hook
  <2>4. ASSUME NEW o \in Operator, hook' = WrittenRow(o), call[o].action \in Change,
               call[o].action # "provisioned" => Exists
        PROVE  FALSE
    BY <2>1, <2>4 DEF WrittenRow, Provisioned, Rotated, NoHook, Hook, Exists, Change
  <2> QED
    BY <2>2, <2>3, <2>4, HookCases
<1>3. /\ hook = NoHook /\ accepts = {1}
      /\ \A a \in Change \cup {"delivery_target_rejected"} : trail[a] = 0
      /\ \A n \in Notice : notice[n].phase = "absent"
  BY <1>1, <1>2 DEF NothingBefore
<1>4. UNCHANGED accepts
  BY <1>3, EndpointStepCases DEF CallOperation, ResolveNewUrl, AbandonOperation, WriteOperation,
                   AdoptSecret, RetireSecret, Tick, CreateNotice, ClaimNotice, ResolveTarget,
                   PostNotice, RequestFails, RetryNotice, ConcludeNotice, operatorVars, hookVars,
                   NoHook
<1>5. UNCHANGED notice
  BY <1>3, EndpointStepCases DEF CallOperation, ResolveNewUrl, AbandonOperation, WriteOperation,
                   AdoptSecret, RetireSecret, Tick, CreateNotice, ClaimNotice, ResolveTarget,
                   PostNotice, RequestFails, RetryNotice, ConcludeNotice, senderVars, hookVars,
                   NoHook
<1>6. \A a \in Change \cup {"delivery_target_rejected"} : trail'[a] = trail[a]
  <2>1. \A a \in Change \cup {"delivery_target_rejected"} :
          a \in AuditAction \ Refusal
    BY DEF AuditAction, Change, Refusal
  <2>2. ASSUME NEW o \in Operator, ResolveNewUrl(o)
        PROVE  UNCHANGED trail \/ \E b \in Refusal : trail' = [trail EXCEPT ![b] = @ + 1]
    BY <2>2 DEF ResolveNewUrl, Audited, RefusalOf, Refusal
  <2>3. ASSUME NEW o \in Operator, WriteOperation(o)
        PROVE  UNCHANGED trail
    <3>1. CASE ~Writes(o)
      BY <2>3, <3>1 DEF WriteOperation
    <3>2. CASE Writes(o)
      <4>1. hook' = WrittenRow(o) /\ call[o].action \in Change /\ hook \in Hook
              /\ (call[o].action # "provisioned" => Exists)
        BY <1>1, <2>3, <3>2, WriteShape DEF EndpointTypeOK
      <4>2. hook'.status # "absent"
        BY <1>2, <4>1 DEF WrittenRow, Provisioned, NoHook, Change
      <4> QED
        BY <4>2 DEF Exists
    <3> QED
      BY <3>1, <3>2
  <2>4. \/ UNCHANGED trail
        \/ \E b \in Refusal : trail' = [trail EXCEPT ![b] = @ + 1]
    BY <1>3, <2>2, <2>3, EndpointStepCases DEF CallOperation, AbandonOperation,
                   AdoptSecret, RetireSecret, Tick, CreateNotice, ClaimNotice, ResolveTarget,
                   PostNotice, RequestFails, RetryNotice, ConcludeNotice, operatorVars, hookVars
  <2> QED
    BY <1>1, <2>1, <2>4 DEF EndpointTypeOK
<1> QED
  BY <1>2, <1>3, <1>4, <1>5, <1>6 DEF NothingBefore

-----------------------------------------------------------------------------
(* Signatures *)

\* A rotation outside of another one's window.
LEMMA RotationKeeps ==
  ASSUME EndpointTypeOK, ReceiverKeepsUp, ~hasty, Exists,
         hook.current # 0, ~(hook.previous # 0 /\ now <= hook.until),
         NEW k \in Overlap, hook' = Rotated(now, k), UNCHANGED <<now, accepts>>
  PROVE  /\ hook'.previous = hook.current /\ hook'.previous \in accepts' \ {0}
         /\ hook'.until = now + k /\ now' <= hook'.until
<1>1. hook \in Hook /\ now \in Nat /\ k \in Nat
  BY EndpointAssumption DEF EndpointTypeOK
<1>2. hook'.previous = hook.current /\ hook'.until = now + k
  BY <1>1 DEF Rotated, Hook
<1>3. hook.current \in accepts
  BY DEF ReceiverKeepsUp
<1> QED
  BY <1>1, <1>2, <1>3

\* A rotation is one and outside of other windows, unless hasty says so.
LEMMA WriteEffect ==
  ASSUME EndpointInv, NEW o \in Operator, WriteOperation(o), Writes(o),
         hook' = WrittenRow(o), call[o].action \in Change, call[o].at = now,
         call[o].action # "provisioned" => Exists,
         call[o].action = "secret_rotated" => call[o].overlap \in Overlap
  PROVE  /\ UNCHANGED <<now, accepts, notice, tries, posts>>
         /\ ~hasty' => ~hasty
         /\ overlaps \subseteq overlaps'
         /\ \/ ~Exists /\ hook'.current = 1 /\ hook'.previous = 0
            \/ /\ Exists
               /\ hook'.current = hook.current /\ hook'.previous = hook.previous
               /\ hook'.until = hook.until
            \/ /\ Exists /\ hook.current # 0
               /\ \E k \in Overlap : hook' = Rotated(now, k) /\ k \in overlaps'
               /\ ~hasty' => ~(hook.previous # 0 /\ now <= hook.until)
<1>1. EndpointTypeOK /\ TrailTellsEndpoint
  BY DEF EndpointInv, TrailPart
<1>2. hook \in Hook /\ hasty \in BOOLEAN
  BY <1>1 DEF EndpointTypeOK
<1>3. UNCHANGED <<now, accepts, notice, tries, posts>>
        /\ hasty' = (hasty \/ (/\ call[o].action = "secret_rotated"
                               /\ hook.previous # 0 /\ now <= hook.until))
        /\ overlaps' = overlaps \cup ({call[o].overlap} \ {None})
  BY DEF WriteOperation, senderVars
<1>4. CASE call[o].action = "provisioned"
  BY <1>3, <1>4 DEF WrittenRow, Provisioned, NoHook, Writes, Exists
<1>5. CASE call[o].action = "url_updated"
  BY <1>2, <1>3, <1>5 DEF WrittenRow, Hook
<1>6. CASE call[o].action = "disabled"
  BY <1>2, <1>3, <1>6 DEF WrittenRow, Hook
<1>7. CASE call[o].action = "secret_rotated"
  <2>1. trail["secret_rotated"] \in Nat
    BY <1>1 DEF EndpointTypeOK, AuditAction, Change
  <2>2. hook.current # 0
    BY <1>1, <1>7, <2>1 DEF TrailTellsEndpoint, Exists
  <2>3. hook' = Rotated(now, call[o].overlap)
    BY <1>7 DEF WrittenRow
  <2>4. call[o].overlap \in Overlap /\ call[o].overlap # None
    BY <1>7, EndpointAssumption
  <2> QED
    BY <1>3, <1>7, <2>2, <2>3, <2>4
<1> QED
  BY <1>4, <1>5, <1>6, <1>7 DEF Change

LEMMA ReceiverStep ==
  ASSUME EndpointInv, [EndpointNext]_hookVars
  PROVE  ReceiverKeepsUp'
<1>1. EndpointTypeOK /\ ReceiverKeepsUp /\ NothingBefore
  BY DEF EndpointInv, TrailPart, SignPart
<1>2. hook \in Hook /\ now \in Nat
  BY <1>1, EndpointAssumption DEF EndpointTypeOK
<1>3. hook.until \in Nat
  BY <1>2 DEF Hook
<1>4. ASSUME NEW o \in Operator, WriteOperation(o), Writes(o), hook' = WrittenRow(o),
             call[o].action \in Change, call[o].at = now,
             call[o].action # "provisioned" => Exists,
             call[o].action = "secret_rotated" => call[o].overlap \in Overlap
      PROVE  ReceiverKeepsUp'
  <2> SUFFICES ASSUME ~hasty', Exists' PROVE ReceiverKeepsUp'
    BY DEF ReceiverKeepsUp
  <2>1. UNCHANGED <<now, accepts>> /\ ~hasty
    BY <1>4, WriteEffect
  <2>2. CASE ~Exists /\ hook'.current = 1 /\ hook'.previous = 0
    BY <1>1, <2>1, <2>2 DEF NothingBefore, ReceiverKeepsUp
  <2>3. CASE /\ Exists
             /\ hook'.current = hook.current /\ hook'.previous = hook.previous
             /\ hook'.until = hook.until
    BY <1>1, <2>1, <2>3 DEF ReceiverKeepsUp
  <2>4. CASE /\ Exists /\ hook.current # 0
             /\ \E k \in Overlap : hook' = Rotated(now, k)
             /\ ~hasty' => ~(hook.previous # 0 /\ now <= hook.until)
    <3>1. hook'.previous \in accepts' \ {0} /\ now' <= hook'.until
      BY <1>1, <2>1, <2>4, RotationKeeps
    <3> QED
      BY <3>1 DEF ReceiverKeepsUp
  <2> QED
    BY <1>4, <2>2, <2>3, <2>4, WriteEffect
<1>5. CASE Exists /\ hook' = [hook EXCEPT !.status = "disabled"] /\ UNCHANGED <<now, accepts, rotationVars>>
  BY <1>1, <1>2, <1>5 DEF ReceiverKeepsUp, Hook
<1>6. CASE UNCHANGED hook
  <2>1. CASE AdoptSecret
    BY <1>1, <1>6, <2>1 DEF AdoptSecret, ReceiverKeepsUp, Exists
  <2>2. ASSUME NEW s \in accepts, RetireSecret(s)
        PROVE  ReceiverKeepsUp'
    BY <1>1, <1>2, <1>3, <1>6, <2>2 DEF RetireSecret, ReceiverKeepsUp, Exists
  <2>3. CASE Tick
    BY <1>1, <1>2, <1>3, <1>6, <2>3 DEF Tick, ReceiverKeepsUp, Exists
  <2>4. CASE UNCHANGED <<now, accepts, rotationVars>>
    BY <1>1, <1>6, <2>4 DEF ReceiverKeepsUp, Exists
  <2>5. ASSUME NEW o \in Operator, WriteOperation(o)
        PROVE  ReceiverKeepsUp'
    BY <1>1, <1>6, <2>5 DEF WriteOperation, ReceiverKeepsUp, Exists
  <2> QED
    BY <2>1, <2>2, <2>3, <2>4, <2>5, EndpointStepCases
      DEF CallOperation, ResolveNewUrl, AbandonOperation, CreateNotice, ClaimNotice,
          ResolveTarget, PostNotice, RequestFails, RetryNotice, ConcludeNotice, hookVars
<1> QED
  BY <1>4, <1>5, <1>6, HookCases

\* What RequestsSound says of one notice.
RequestSound(n) ==
  UnderWay(n) =>
    /\ LastTry(n).at <= now /\ now <= LastTry(n).at + RequestTime
    /\ ~hasty => SignedForLong(n)
    /\ notice[n].phase = "resolved" => notice[n].address = "public"

\* A request that is under way stays sound if neither it nor the secrets and
\* the clock change.
LEMMA SoundStays ==
  ASSUME NEW n \in Notice, RequestSound(n), UNCHANGED now, ~hasty' => ~hasty,
         overlaps \subseteq overlaps',
         notice'[n] = notice[n], tries'[n] = tries[n],
         hook'.current = hook.current, hook'.previous = hook.previous, hook'.until = hook.until
  PROVE  RequestSound(n)'
<1>1. UnderWay(n)' => UnderWay(n)
  BY DEF UnderWay
<1>2. LastTry(n)' = LastTry(n)
  BY DEF LastTry
<1> QED
  BY <1>1, <1>2 DEF RequestSound, SignedForLong

\* A step on one notice: the others stay sound.
LEMMA OthersSound ==
  ASSUME \A m \in Notice : RequestSound(m), NEW n \in Notice, OthersUnchanged(n),
         UNCHANGED <<now, hook, rotationVars>>, RequestSound(n)'
  PROVE  \A m \in Notice : RequestSound(m)'
<1>1. ASSUME NEW m \in Notice, m # n PROVE RequestSound(m)'
  BY <1>1, SoundStays DEF OthersUnchanged
<1> QED
  BY <1>1

\* A rotation outside of other windows gives what is under way a window of its
\* own, or finds that it has outlived one.
LEMMA SoundAfterRotation ==
  ASSUME EndpointTypeOK, NEW n \in Notice, Len(tries[n]) > 0, RequestSound(n),
         notice'[n] = notice[n], tries'[n] = tries[n], UNCHANGED now,
         NEW k \in Overlap, k \in overlaps', overlaps \subseteq overlaps',
         hook.current # 0, hook' = Rotated(now, k),
         ~hasty' => ~hasty /\ ~(hook.previous # 0 /\ now <= hook.until)
  PROVE  RequestSound(n)'
<1> SUFFICES ASSUME UnderWay(n)' PROVE RequestSound(n)'
  BY DEF RequestSound
<1>1. UnderWay(n) /\ LastTry(n)' = LastTry(n)
  BY DEF UnderWay, LastTry
<1>2. hook \in Hook /\ now \in Nat /\ Overlap \subseteq Nat /\ overlaps \subseteq Nat
  BY EndpointAssumption DEF EndpointTypeOK
<1> DEFINE claimed == LastTry(n).at
<1>3. LastTry(n) \in Try
  BY LastTyped DEF EndpointTypeOK
<1>4. claimed \in Nat /\ claimed <= now /\ now <= claimed + RequestTime
  BY <1>1, <1>3 DEF Try, RequestSound
<1>5. hook'.previous = hook.current /\ hook'.until = now + k
  BY <1>2 DEF Rotated, Hook
<1>6. ~hasty' => SignedForLong(n)'
  <2> SUFFICES ASSUME ~hasty' PROVE SignedForLong(n)'
    OBVIOUS
  <2>1. SignedForLong(n) /\ ~(hook.previous # 0 /\ now <= hook.until)
    BY <1>1 DEF RequestSound
  <2>2. CASE hook.current \in notice[n].secrets
    <3>1. hook'.until >= claimed + k
      <4> HIDE DEF claimed
      <4> QED
        BY <1>2, <1>4, <1>5
    <3> QED
      BY <1>1, <1>5, <2>2, <3>1 DEF SignedForLong
  <2>3. ASSUME hook.previous \in notice[n].secrets \ {0},
               NEW i \in overlaps, hook.until >= claimed + i
        PROVE  SignedForLong(n)'
    <3>1. hook.until \in Nat /\ i \in Nat
      BY <1>2 DEF Hook
    <3>2. now > claimed + i
      <4> HIDE DEF claimed
      <4> QED
        BY <1>2, <1>4, <2>1, <2>3, <3>1
    <3> QED
      BY <1>1, <3>2 DEF SignedForLong
  <2>4. CASE \E i \in overlaps : now > claimed + i
    BY <1>1, <2>4 DEF SignedForLong
  <2> QED
    BY <2>1, <2>2, <2>3, <2>4 DEF SignedForLong
<1> QED
  BY <1>1, <1>4, <1>6 DEF RequestSound, UnderWay

LEMMA RequestsStep ==
  ASSUME EndpointInv, [EndpointNext]_hookVars
  PROVE  RequestsSound'
<1>1. EndpointTypeOK /\ NothingBefore /\ \A n \in Notice : TriesMatch(n) /\ RequestSound(n)
  BY DEF EndpointInv, TrailPart, SignPart, RetryPart, RequestsSound, RequestSound
<1>2. now \in Nat /\ RequestTime \in Nat /\ hook \in Hook
  BY <1>1, EndpointAssumption DEF EndpointTypeOK
<1> DEFINE Goal == \A n \in Notice : RequestSound(n)'
<1> SUFFICES Goal
  BY DEF RequestsSound, RequestSound
<1>3. ASSUME NEW o \in Operator, WriteOperation(o), Writes(o), hook' = WrittenRow(o),
             call[o].action \in Change, call[o].at = now,
             call[o].action # "provisioned" => Exists,
             call[o].action = "secret_rotated" => call[o].overlap \in Overlap,
             NEW n \in Notice
      PROVE  RequestSound(n)'
  <2>1. UNCHANGED <<now, notice, tries>> /\ (~hasty' => ~hasty)
          /\ overlaps \subseteq overlaps'
    BY <1>3, WriteEffect
  <2>2. CASE ~Exists
    BY <1>1, <2>1, <2>2 DEF NothingBefore, RequestSound, UnderWay
  <2>3. CASE /\ hook'.current = hook.current /\ hook'.previous = hook.previous
             /\ hook'.until = hook.until
    BY <1>1, <2>1, <2>3, SoundStays
  <2>4. CASE /\ hook.current # 0
             /\ \E k \in Overlap : hook' = Rotated(now, k) /\ k \in overlaps'
             /\ ~hasty' => ~(hook.previous # 0 /\ now <= hook.until)
    <3>1. CASE UnderWay(n)
      <4>1. Len(tries[n]) > 0
        BY <1>1, <3>1 DEF TriesMatch
      <4> QED
        BY <1>1, <2>1, <2>4, <4>1, SoundAfterRotation
    <3>2. CASE ~UnderWay(n)
      BY <2>1, <3>2 DEF RequestSound, UnderWay
    <3> QED
      BY <3>1, <3>2
  <2> QED
    BY <1>3, <2>2, <2>3, <2>4, WriteEffect
<1>4. ASSUME NEW n \in Notice, CreateNotice(n)
      PROVE  Goal
  <2> DEFINE row == [NoNotice EXCEPT !.phase = "pending", !.created = now, !.due = now]
  <2>1. row \in NoticeState /\ row.phase = "pending"
    BY <1>2 DEF NoNotice, NoticeState
  <2>2. notice' = [notice EXCEPT ![n] = row] /\ UNCHANGED <<now, hook, rotationVars, tries>>
    BY <1>4 DEF CreateNotice, operatorVars
  <2> HIDE DEF row
  <2>3. notice'[n] = row /\ OthersUnchanged(n)
    BY <1>1, <2>1, <2>2, RowShape
  <2>4. RequestSound(n)'
    BY <2>1, <2>3 DEF RequestSound, UnderWay
  <2> QED
    BY <1>1, <2>2, <2>3, <2>4, OthersSound
<1>5. ASSUME NEW n \in Notice, ClaimNotice(n)
      PROVE  Goal
  <2>1. /\ OthersUnchanged(n)
        /\ notice'[n] = [notice[n] EXCEPT !.phase = "claimed", !.url = hook.url,
                                          !.secrets = Signing]
        /\ Len(tries'[n]) = Len(tries[n]) + 1
        /\ tries'[n][Len(tries[n]) + 1] = [at |-> now, done |-> None, asked |-> None,
                                           next |-> None]
    BY <1>1, <1>5, ClaimShape
  <2>2. UNCHANGED <<now, hook, rotationVars>>
    BY <1>5 DEF ClaimNotice, operatorVars
  <2>3. notice'[n].phase = "claimed" /\ notice'[n].secrets = Signing
    BY <1>1, <2>1 DEF EndpointTypeOK, NoticeState
  <2>4. LastTry(n)'.at = now
    BY <2>1 DEF LastTry
  <2>5. SignedForLong(n)'
    BY <2>2, <2>3, <2>4 DEF SignedForLong, Signing
  <2>6. RequestSound(n)'
    BY <1>2, <2>2, <2>3, <2>4, <2>5 DEF RequestSound
  <2> QED
    BY <1>1, <2>1, <2>2, <2>6, OthersSound
<1>6. ASSUME NEW n \in Notice, ResolveTarget(n) \/ PostNotice(n) \/ RequestFails(n)
      PROVE  Goal
  <2>1. UNCHANGED <<now, hook, rotationVars>> /\ UnderWay(n)
    BY <1>6 DEF ResolveTarget, PostNotice, RequestFails, UnderWay, operatorVars
  <2>2. CASE /\ notice' = [notice EXCEPT ![n].phase = "resolved", ![n].address = "public"]
             /\ UNCHANGED tries
    <3>1. OthersUnchanged(n) /\ LastTry(n)' = LastTry(n)
      BY <1>1, <2>2 DEF OthersUnchanged, LastTry, EndpointTypeOK
    <3>2. notice'[n].secrets = notice[n].secrets /\ notice'[n].address = "public"
      BY <1>1, <2>2 DEF EndpointTypeOK, NoticeState
    <3>3. RequestSound(n)'
      BY <1>1, <2>1, <3>1, <3>2 DEF RequestSound, SignedForLong
    <3> QED
      BY <1>1, <2>1, <3>1, <3>3, OthersSound
  <2>3. ASSUME NEW a \in Answer, NEW k \in RetryAfter \cup {None}, Answered(n, a, k)
        PROVE  Goal
    <3>1. Len(tries[n]) > 0
      BY <1>1, <2>1 DEF TriesMatch
    <3>2. /\ OthersUnchanged(n)
          /\ notice'[n] = [notice[n] EXCEPT !.phase = "answered", !.answer = a]
      BY <1>1, <2>3, <3>1, AnsweredShape
    <3>3. notice'[n].phase = "answered"
      BY <1>1, <3>2 DEF EndpointTypeOK, NoticeState
    <3>4. RequestSound(n)'
      BY <3>3 DEF RequestSound, UnderWay
    <3> QED
      BY <1>1, <2>1, <3>2, <3>4, OthersSound
  <2> QED
    BY <1>1, <1>6, <2>2, <2>3, AnswerCases
<1>7. ASSUME NEW n \in Notice, RetryNotice(n)
      PROVE  Goal
  <2>1. OthersUnchanged(n) /\ notice'[n].phase \in {"pending", "exhausted"}
    BY <1>1, <1>7, RetryShape DEF NoNotice
  <2>2. UNCHANGED <<now, hook, rotationVars>>
    BY <1>7 DEF RetryNotice, operatorVars
  <2>3. RequestSound(n)'
    BY <2>1 DEF RequestSound, UnderWay
  <2> QED
    BY <1>1, <2>1, <2>2, <2>3, OthersSound
<1>8. ASSUME NEW n \in Notice, ConcludeNotice(n)
      PROVE  Goal
  <2>1. UNCHANGED <<now, tries, rotationVars>>
    BY <1>8 DEF ConcludeNotice
  <2>2. hook' \in {hook, [hook EXCEPT !.status = "disabled"]}
    BY <1>8 DEF ConcludeNotice
  <2>3. /\ hook'.current = hook.current /\ hook'.previous = hook.previous
        /\ hook'.until = hook.until
    BY <1>2, <2>2 DEF Hook
  <2>4. /\ notice'[n].phase \in {"succeeded", "failed"}
        /\ \A m \in Notice : m # n => notice'[m] = notice[m]
    BY <1>1, <1>8 DEF ConcludeNotice, Settled, NoNotice, EndpointTypeOK
  <2>5. ASSUME NEW m \in Notice PROVE RequestSound(m)'
    <3>1. CASE m = n
      BY <2>4, <3>1 DEF RequestSound, UnderWay
    <3>2. CASE m # n
      BY <1>1, <2>1, <2>3, <2>4, <3>2, SoundStays
    <3> QED
      BY <3>1, <3>2
  <2> QED
    BY <2>5
<1>9. CASE Tick
  <2>1. UNCHANGED <<notice, tries, hook, rotationVars>> /\ now' = now + 1
    BY <1>9 DEF Tick, operatorVars, senderVars
  <2>2. ASSUME NEW n \in Notice, UnderWay(n)' PROVE RequestSound(n)'
    <3>1. UnderWay(n) /\ LastTry(n)' = LastTry(n)
      BY <2>1, <2>2 DEF UnderWay, LastTry
    <3>2. Len(tries[n]) > 0 /\ now < LastTry(n).at + RequestTime
      BY <1>1, <1>9, <3>1 DEF TriesMatch, Tick
    <3>3. LastTry(n).at \in Nat
      BY <1>1, <3>2, LastTyped DEF EndpointTypeOK, Try
    <3> DEFINE at == LastTry(n).at
    <3>4. at <= now'  /\ now' <= at + RequestTime
      <4>1. at \in Nat /\ at <= now /\ now < at + RequestTime
        BY <1>1, <3>1, <3>2, <3>3 DEF RequestSound
      <4> HIDE DEF at
      <4> QED
        BY <1>2, <2>1, <4>1
    <3>5. (~hasty' => SignedForLong(n)')
      <4>1. overlaps \subseteq Nat
        BY <1>1, EndpointAssumption DEF EndpointTypeOK
      <4>2. \A k \in overlaps : now > LastTry(n).at + k => now' > LastTry(n).at + k
        <5> DEFINE asked == LastTry(n).at
        <5>1. asked \in Nat
          BY <3>3
        <5> HIDE DEF asked
        <5>2. \A k \in overlaps : now > asked + k => now' > asked + k
          BY <1>2, <2>1, <4>1, <5>1
        <5> QED
          BY <5>2 DEF asked
      <4> QED
        BY <1>1, <2>1, <3>1, <4>2 DEF RequestSound, SignedForLong
    <3> QED
      BY <1>1, <2>1, <3>1, <3>4, <3>5 DEF RequestSound
  <2> QED
    BY <2>2 DEF RequestSound
<1>10. CASE UNCHANGED <<now, notice, tries, hook>> /\ (~hasty' => ~hasty)
              /\ overlaps \subseteq overlaps'
  BY <1>1, <1>10, SoundStays
<1>11. ASSUME NEW o \in Operator, WriteOperation(o)
       PROVE  Goal
  <2>1. CASE ~Writes(o)
    <3>1. UNCHANGED <<now, notice, tries, hook, rotationVars>>
      BY <1>11, <2>1 DEF WriteOperation, senderVars
    <3> QED
      BY <1>10, <3>1
  <2>2. CASE Writes(o)
    <3>1. /\ hook' = WrittenRow(o) /\ call[o].action \in Change /\ call[o].at = now
          /\ call[o].action # "provisioned" => Exists
          /\ call[o].action = "secret_rotated" => call[o].overlap \in Overlap
      BY <1>11, <2>2, WriteShape DEF EndpointInv, TrailPart
    <3> QED
      BY <1>3, <1>11, <2>2, <3>1
  <2> QED
    BY <2>1, <2>2
<1>12. \/ \E o \in Operator : WriteOperation(o)
       \/ \E n \in Notice : \/ CreateNotice(n) \/ ClaimNotice(n) \/ RetryNotice(n)
                            \/ ResolveTarget(n) \/ PostNotice(n) \/ RequestFails(n)
                            \/ ConcludeNotice(n)
       \/ Tick
       \/ UNCHANGED <<now, notice, tries, hook, rotationVars>>
  BY EndpointStepCases DEF CallOperation, ResolveNewUrl, AbandonOperation, AdoptSecret, RetireSecret,
                   operatorVars, senderVars, hookVars
<1> QED
  BY <1>4, <1>5, <1>6, <1>7, <1>8, <1>9, <1>10, <1>11, <1>12

\* What is posted within every overlap of its claim can be verified now.
LEMMA VerifiedNow ==
  ASSUME EndpointInv, NEW n \in Notice, UnderWay(n), ~hasty,
         \A k \in overlaps : now - LastTry(n).at <= k
  PROVE  Verified(n)
<1>1. /\ EndpointTypeOK /\ NothingBefore /\ ReceiverKeepsUp /\ TriesMatch(n)
      /\ LastTry(n).at <= now /\ SignedForLong(n)
  BY DEF EndpointInv, TrailPart, SignPart, RetryPart, RequestsSound
<1>2. Exists
  BY <1>1 DEF NothingBefore, UnderWay
<1>3. \/ hook.current \in accepts
      \/ hook.previous \in accepts \ {0} /\ now <= hook.until
  BY <1>1, <1>2 DEF ReceiverKeepsUp
<1>4. now \in Nat /\ overlaps \subseteq Nat /\ hook.until \in Nat
  BY <1>1, EndpointAssumption DEF EndpointTypeOK, Hook
<1> DEFINE claimed == LastTry(n).at
<1>5. claimed \in Nat /\ claimed <= now /\ \A k \in overlaps : now - claimed <= k
  BY <1>1, LastTyped DEF TriesMatch, EndpointTypeOK, Try
<1>6. \A k \in overlaps : now <= claimed + k
  <2> HIDE DEF claimed
  <2> QED
    BY <1>4, <1>5
<1>7. ASSUME hook.previous \in notice[n].secrets \ {0},
             NEW k \in overlaps, hook.until >= claimed + k
      PROVE  Verified(n)
  <2>1. now <= hook.until
    <3> HIDE DEF claimed
    <3> QED
      BY <1>4, <1>5, <1>6, <1>7
  <2>2. hook.previous \in accepts
    BY <1>1, <1>2, <1>7, <2>1 DEF ReceiverKeepsUp
  <2> QED
    BY <1>7, <2>2 DEF Verified
<1>8. CASE /\ hook.current \in notice[n].secrets
           /\ hook.previous # 0 /\ claimed <= hook.until => hook.previous \in notice[n].secrets
  <2>1. CASE hook.current \in accepts
    BY <1>8, <2>1 DEF Verified
  <2>2. CASE hook.previous \in accepts \ {0} /\ now <= hook.until
    <3>1. claimed <= hook.until
      <4> HIDE DEF claimed
      <4> QED
        BY <1>4, <1>5, <2>2
    <3> QED
      BY <1>8, <2>2, <3>1 DEF Verified
  <2> QED
    BY <1>3, <2>1, <2>2
<1>9. ~\E k \in overlaps : now > claimed + k
  <2> HIDE DEF claimed
  <2> QED
    BY <1>4, <1>5, <1>6
<1> QED
  BY <1>1, <1>7, <1>8, <1>9 DEF SignedForLong

LEMMA PostsStep ==
  ASSUME EndpointInv, [EndpointNext]_hookVars
  PROVE  SignaturesVerify' /\ PostsReachPublicTargets'
<1>1. EndpointTypeOK /\ SignaturesVerify /\ PostsReachPublicTargets
  BY DEF EndpointInv, SignPart
<1>2. ASSUME NEW n \in Notice, PostNotice(n)
      PROVE  SignaturesVerify' /\ PostsReachPublicTargets'
  <2>1. UnderWay(n) /\ UNCHANGED rotationVars
    BY <1>2 DEF PostNotice, UnderWay
  <2>2. notice[n].address = "public"
    BY <1>2, <2>1 DEF EndpointInv, SignPart, RequestsSound, PostNotice
  <2> DEFINE took == now - LastTry(n).at
  <2>3. posts' = posts \cup {[address |-> "public", verified |-> Verified(n), took |-> took]}
    BY <1>2, <2>2 DEF PostNotice, ConnectsTo
  <2>4. ~hasty /\ (\A k \in overlaps : took <= k) => Verified(n)
    BY <2>1, VerifiedNow
  <2> HIDE DEF took
  <2> QED
    BY <1>1, <2>1, <2>3, <2>4 DEF SignaturesVerify, PostsReachPublicTargets
<1>3. CASE UNCHANGED posts /\ (~hasty' => ~hasty) /\ overlaps \subseteq overlaps'
  BY <1>1, <1>3 DEF SignaturesVerify, PostsReachPublicTargets
<1>4. ASSUME NEW o \in Operator, WriteOperation(o)
      PROVE  UNCHANGED posts /\ (~hasty' => ~hasty) /\ overlaps \subseteq overlaps'
  <2>1. hasty \in BOOLEAN /\ UNCHANGED posts
    BY <1>1, <1>4 DEF EndpointTypeOK, WriteOperation, senderVars
  <2> QED
    BY <1>4, <2>1 DEF WriteOperation
<1>5. \/ \E n \in Notice : PostNotice(n)
      \/ \E o \in Operator : WriteOperation(o)
      \/ UNCHANGED <<posts, rotationVars>>
  BY EndpointStepCases DEF CallOperation, ResolveNewUrl, AbandonOperation, AdoptSecret, RetireSecret,
                   Tick, CreateNotice, ClaimNotice, ResolveTarget, RequestFails, RetryNotice,
                   ConcludeNotice, senderVars, hookVars
<1> QED
  BY <1>2, <1>3, <1>4, <1>5

-----------------------------------------------------------------------------
(* Retries *)

Kept(n) == TriesMatch(n) /\ RetriesKept(n)

LEMMA KeptStays ==
  ASSUME NEW n \in Notice, Kept(n), notice'[n] = notice[n], tries'[n] = tries[n]
  PROVE  Kept(n)'
<1>1. LastTry(n)' = LastTry(n) /\ UnderWay(n)' = UnderWay(n)
  BY DEF LastTry, UnderWay
<1>2. TriesMatch(n)'
  BY <1>1 DEF Kept, TriesMatch
<1>3. RetriesKept(n)'
  BY <1>1 DEF Kept, RetriesKept, RetryKept
<1> QED
  BY <1>2, <1>3 DEF Kept

LEMMA OthersKept ==
  ASSUME \A m \in Notice : Kept(m), NEW n \in Notice, OthersUnchanged(n), Kept(n)'
  PROVE  \A m \in Notice : Kept(m)'
<1>1. ASSUME NEW m \in Notice, m # n PROVE Kept(m)'
  BY <1>1, KeptStays DEF OthersUnchanged
<1> QED
  BY <1>1

\* A notice that moves on with its attempts as they are.
LEMMA KeptWithTries ==
  ASSUME NEW n \in Notice, Kept(n), tries'[n] = tries[n],
         notice'[n].created = notice[n].created, notice'[n].phase # "exhausted",
         TriesMatch(n)'
  PROVE  Kept(n)'
<1>1. LastTry(n)' = LastTry(n)
  BY DEF LastTry
<1> QED
  BY <1>1 DEF Kept, RetriesKept, RetryKept

\* The last attempt changes, the ones before it are what they were.
LEMMA EarlierKept ==
  ASSUME NEW n \in Notice, NEW t \in Try, Kept(n), tries \in [Notice -> Seq(Try)],
         Len(tries[n]) > 0, LastBecomes(n, t), t.at = LastTry(n).at,
         notice'[n].created = notice[n].created
  PROVE  /\ LastTry(n)' = t /\ Len(tries'[n]) \in Nat \ {0}
         /\ Len(tries'[n]) <= AttemptLimit
         /\ \A k \in 1..(Len(tries'[n]) - 1) : RetryKept(n, k)'
         /\ \A k \in 1..(Len(tries'[n]) - 1) :
              tries'[n][k].next # None /\ tries'[n][k + 1].at >= tries'[n][k].next
<1> DEFINE L == Len(tries[n])
<1>1. L \in Nat \ {0}
  BY LastTyped
<1>2. /\ Len(tries'[n]) = L /\ tries'[n][L] = t
      /\ \A k \in 1..(L - 1) : tries'[n][k] = tries[n][k]
  BY DEF LastBecomes
<1>3. LastTry(n)' = t /\ tries[n][L].at = t.at
  BY <1>2 DEF LastTry
<1>4. /\ L <= AttemptLimit
      /\ \A k \in 1..L : RetryKept(n, k)
      /\ \A k \in 1..(L - 1) :
           tries[n][k].next # None /\ tries[n][k + 1].at >= tries[n][k].next
  BY DEF Kept, RetriesKept
<1> HIDE DEF L
<1>5. ASSUME NEW k \in 1..(L - 1)
      PROVE  /\ RetryKept(n, k)'
             /\ tries'[n][k].next # None /\ tries'[n][k + 1].at >= tries'[n][k].next
  <2>1. tries'[n][k] = tries[n][k] /\ k \in 1..L
    BY <1>1, <1>2, <1>5
  <2>2. RetryKept(n, k)'
    BY <1>4, <2>1 DEF RetryKept
  <2>3. tries'[n][k + 1].at = tries[n][k + 1].at
    <3>1. CASE k + 1 = L
      BY <1>2, <1>3, <3>1
    <3>2. CASE k + 1 # L
      <4>1. k + 1 \in 1..(L - 1)
        BY <1>1, <1>5, <3>2
      <4> QED
        BY <1>2, <4>1
    <3> QED
      BY <3>1, <3>2
  <2> QED
    BY <1>4, <1>5, <2>1, <2>2, <2>3
<1> QED
  BY <1>1, <1>2, <1>3, <1>4, <1>5

LEMMA ClaimKeeps ==
  ASSUME EndpointTypeOK, NEW n \in Notice, Kept(n), ClaimNotice(n)
  PROVE  Kept(n)'
<1> DEFINE L == Len(tries[n])
<1>1. tries[n] \in Seq(Try) /\ L \in Nat /\ AttemptLimit \in Nat /\ now \in Nat
  BY LenProperties, EndpointAssumption DEF EndpointTypeOK
<1>2. /\ notice[n].phase = "pending" /\ notice[n].due \in Nat /\ notice[n].due <= now
      /\ notice[n].due # None
  BY EndpointAssumption DEF ClaimNotice, EndpointTypeOK, NoticeState
<1>3. /\ notice'[n] = [notice[n] EXCEPT !.phase = "claimed", !.url = hook.url,
                                        !.secrets = Signing]
      /\ Len(tries'[n]) = L + 1
      /\ \A k \in 1..L : tries'[n][k] = tries[n][k]
      /\ tries'[n][L + 1] = [at |-> now, done |-> None, asked |-> None, next |-> None]
  BY ClaimShape
<1>4. notice'[n].phase = "claimed" /\ notice'[n].created = notice[n].created
  BY <1>3 DEF EndpointTypeOK, NoticeState
<1>5. /\ L < AttemptLimit
      /\ L > 0 => tries[n][L].next = notice[n].due
  BY <1>2 DEF Kept, TriesMatch, LastTry
<1>6. /\ \A k \in 1..L : RetryKept(n, k)
      /\ \A k \in 1..(L - 1) :
           tries[n][k].next # None /\ tries[n][k + 1].at >= tries[n][k].next
  BY DEF Kept, RetriesKept
<1> HIDE DEF L
<1>7. LastTry(n)'.next = None /\ Len(tries'[n]) > 0
  BY <1>1, <1>3 DEF LastTry
<1>8. TriesMatch(n)'
  BY <1>4, <1>7 DEF TriesMatch, UnderWay
<1>9. ASSUME NEW k \in 1..(L + 1) PROVE RetryKept(n, k)'
  <2>1. CASE k = L + 1
    BY <1>3, <2>1 DEF RetryKept
  <2>2. CASE k # L + 1
    <3>1. k \in 1..L
      BY <1>1, <1>9, <2>2
    <3> QED
      BY <1>3, <1>4, <1>6, <3>1 DEF RetryKept
  <2> QED
    BY <2>1, <2>2
<1>10. ASSUME NEW k \in 1..L
       PROVE  tries'[n][k].next # None /\ tries'[n][k + 1].at >= tries'[n][k].next
  <2>1. CASE k = L
    <3>1. L > 0 /\ tries'[n][k] = tries[n][L] /\ tries'[n][k + 1].at = now
      BY <1>1, <1>3, <1>10, <2>1
    <3>2. tries'[n][k].next = notice[n].due
      BY <1>5, <3>1
    <3> QED
      BY <1>1, <1>2, <3>1, <3>2
  <2>2. CASE k # L
    <3>1. k \in 1..(L - 1) /\ k + 1 \in 1..L
      BY <1>1, <1>10, <2>2
    <3> QED
      BY <1>3, <1>6, <1>10, <3>1
  <2> QED
    BY <2>1, <2>2
<1>11. /\ Len(tries'[n]) <= AttemptLimit
       /\ \A k \in 1..Len(tries'[n]) : RetryKept(n, k)'
       /\ \A k \in 1..(Len(tries'[n]) - 1) :
            tries'[n][k].next # None /\ tries'[n][k + 1].at >= tries'[n][k].next
  <2>1. Len(tries'[n]) - 1 = L /\ L + 1 <= AttemptLimit
    BY <1>1, <1>3, <1>5
  <2> QED
    BY <1>3, <1>9, <1>10, <2>1
<1> QED
  BY <1>4, <1>8, <1>11 DEF Kept, RetriesKept

LEMMA AnswerKeeps ==
  ASSUME EndpointTypeOK, NEW n \in Notice, Kept(n), UnderWay(n),
         NEW a \in Answer, NEW k \in RetryAfter \cup {None}, Answered(n, a, k)
  PROVE  OthersUnchanged(n) /\ Kept(n)'
<1> DEFINE t == [LastTry(n) EXCEPT !.done = now, !.asked = k]
<1>1. Len(tries[n]) > 0 /\ LastTry(n).next = None
  BY DEF Kept, TriesMatch
<1>2. tries \in [Notice -> Seq(Try)] /\ now \in Nat
  BY EndpointAssumption DEF EndpointTypeOK
<1>3. LastTry(n) \in Try
  BY <1>1, <1>2, LastTyped
<1>4. t \in Try /\ t.next = None /\ t.at = LastTry(n).at /\ t.done = now
  BY <1>1, <1>2, <1>3 DEF Try
<1>5. /\ OthersUnchanged(n)
      /\ notice'[n] = [notice[n] EXCEPT !.phase = "answered", !.answer = a]
      /\ LastBecomes(n, t)
  BY <1>1, AnsweredShape
<1>6. notice'[n].phase = "answered" /\ notice'[n].created = notice[n].created
  BY <1>5 DEF EndpointTypeOK, NoticeState
<1> HIDE DEF t
<1>7. /\ LastTry(n)' = t /\ Len(tries'[n]) \in Nat \ {0}
      /\ Len(tries'[n]) <= AttemptLimit
      /\ \A j \in 1..(Len(tries'[n]) - 1) : RetryKept(n, j)'
      /\ \A j \in 1..(Len(tries'[n]) - 1) :
           tries'[n][j].next # None /\ tries'[n][j + 1].at >= tries'[n][j].next
  BY <1>1, <1>2, <1>4, <1>5, <1>6, EarlierKept
<1>8. TriesMatch(n)'
  BY <1>2, <1>4, <1>6, <1>7 DEF TriesMatch, UnderWay
<1>9. ASSUME NEW j \in 1..Len(tries'[n]) PROVE RetryKept(n, j)'
  <2>1. CASE j = Len(tries'[n])
    <3>1. tries'[n][j] = t
      BY <1>7, <2>1 DEF LastTry
    <3> QED
      BY <1>4, <3>1 DEF RetryKept
  <2>2. CASE j # Len(tries'[n])
    <3>1. j \in 1..(Len(tries'[n]) - 1)
      BY <1>7, <2>2
    <3> QED
      BY <1>7, <3>1
  <2> QED
    BY <2>1, <2>2
<1> QED
  BY <1>5, <1>6, <1>7, <1>8, <1>9 DEF Kept, RetriesKept

LEMMA RetryKeeps ==
  ASSUME EndpointTypeOK, NEW n \in Notice, Kept(n), RetryNotice(n)
  PROVE  OthersUnchanged(n) /\ Kept(n)'
<1>1. Len(tries[n]) > 0 /\ LastTry(n).done \in Nat
  BY DEF Kept, TriesMatch, RetryNotice
<1>2. tries \in [Notice -> Seq(Try)] /\ Len(tries[n]) \in Nat \ {0} /\ LastTry(n) \in Try
  BY <1>1, LastTyped DEF EndpointTypeOK
<1>3. PICK next \in Nat :
        /\ next > LastTry(n).done
        /\ LastTry(n).asked # None =>
             next - LastTry(n).done >= Min({LastTry(n).asked, MaximumRetryAfter})
        /\ next <= LastTry(n).done + Max({MaximumRetryAfter, 2 * MaximumBackoff})
        /\ OthersUnchanged(n)
        /\ \/ /\ MayRetry(n, next)
              /\ notice'[n] = [NoNotice EXCEPT !.phase = "pending", !.created = notice[n].created,
                                               !.due = next]
              /\ LastBecomes(n, [LastTry(n) EXCEPT !.next = next])
           \/ /\ ~MayRetry(n, next)
              /\ notice'[n] = [NoNotice EXCEPT !.phase = "exhausted",
                                               !.created = notice[n].created]
              /\ UNCHANGED tries
  BY RetryShape DEF Kept
<1>4. CASE MayRetry(n, next)
  <2> DEFINE t == [LastTry(n) EXCEPT !.next = next]
  <2>1. /\ t \in Try /\ t.next = next /\ t.at = LastTry(n).at
        /\ t.done = LastTry(n).done /\ t.asked = LastTry(n).asked
    BY <1>2, <1>3 DEF Try
  <2>2. /\ notice'[n].phase = "pending" /\ notice'[n].created = notice[n].created
        /\ notice'[n].due = next /\ LastBecomes(n, t)
    BY <1>3, <1>4 DEF NoNotice
  <2> HIDE DEF t
  <2>3. /\ LastTry(n)' = t /\ Len(tries'[n]) \in Nat \ {0}
        /\ Len(tries'[n]) <= AttemptLimit
        /\ \A j \in 1..(Len(tries'[n]) - 1) : RetryKept(n, j)'
        /\ \A j \in 1..(Len(tries'[n]) - 1) :
             tries'[n][j].next # None /\ tries'[n][j + 1].at >= tries'[n][j].next
    BY <1>1, <1>2, <2>1, <2>2, EarlierKept
  <2>4. Len(tries[n]) < AttemptLimit /\ next <= notice[n].created + DeliveryHorizon
    BY <1>4 DEF MayRetry
  <2>5. Len(tries'[n]) = Len(tries[n])
    BY <2>2 DEF LastBecomes
  <2>6. TriesMatch(n)'
    BY <2>1, <2>2, <2>3, <2>4, <2>5 DEF TriesMatch, UnderWay
  <2>7. ASSUME NEW j \in 1..Len(tries'[n]) PROVE RetryKept(n, j)'
    <3>1. CASE j = Len(tries'[n])
      <4>1. tries'[n][j] = t
        BY <2>3, <3>1 DEF LastTry
      <4> QED
        BY <1>1, <1>3, <2>1, <2>2, <2>4, <4>1 DEF RetryKept
    <3>2. CASE j # Len(tries'[n])
      <4>1. j \in 1..(Len(tries'[n]) - 1)
        BY <2>3, <3>2
      <4> QED
        BY <2>3, <4>1
    <3> QED
      BY <3>1, <3>2
  <2> QED
    BY <1>3, <2>2, <2>3, <2>6, <2>7 DEF Kept, RetriesKept
<1>5. CASE ~MayRetry(n, next)
  <2>1. /\ notice'[n].phase = "exhausted" /\ notice'[n].created = notice[n].created
        /\ UNCHANGED tries
    BY <1>3, <1>5 DEF NoNotice
  <2>2. LastTry(n)' = LastTry(n)
    BY <2>1 DEF LastTry
  <2>3. TriesMatch(n)'
    BY <2>1 DEF TriesMatch, UnderWay
  <2>4. Len(tries[n]) < AttemptLimit =>
          LastTry(n).done + Max({MaximumRetryAfter, 2 * MaximumBackoff})
            > notice[n].created + DeliveryHorizon
    <3> DEFINE latest == LastTry(n).done + Max({MaximumRetryAfter, 2 * MaximumBackoff})
               horizon == notice[n].created + DeliveryHorizon
    <3>1. latest \in Nat
      <4>1. MaximumRetryAfter \in Nat /\ 2 * MaximumBackoff \in Nat
        BY EndpointAssumption
      <4>2. MaximumRetryAfter \in Int /\ 2 * MaximumBackoff \in Int
        BY <4>1
      <4>3. Max({MaximumRetryAfter, 2 * MaximumBackoff}) \in {MaximumRetryAfter, 2 * MaximumBackoff}
        BY <4>2, MaxOfTwo
      <4> QED
        BY <1>1, <4>1, <4>3
    <3>2. horizon \in Nat
      BY EndpointAssumption DEF EndpointTypeOK, NoticeState
    <3>3. next <= latest
      BY <1>3
    <3>4. Len(tries[n]) < AttemptLimit => ~(next <= horizon)
      BY <1>5 DEF MayRetry
    <3> HIDE DEF latest, horizon
    <3>5. Len(tries[n]) < AttemptLimit => latest > horizon
      BY <3>1, <3>2, <3>3, <3>4
    <3> QED
      BY <3>5 DEF latest, horizon
  <2> QED
    BY <1>1, <1>3, <2>1, <2>2, <2>3, <2>4 DEF Kept, RetriesKept, RetryKept
<1> QED
  BY <1>4, <1>5

LEMMA RetryStep ==
  ASSUME EndpointInv, [EndpointNext]_hookVars
  PROVE  RetryPart'
<1>1. EndpointTypeOK /\ \A n \in Notice : Kept(n)
  BY DEF EndpointInv, RetryPart, Kept
<1> DEFINE Goal == \A n \in Notice : Kept(n)'
<1> SUFFICES Goal
  BY DEF RetryPart, Kept
<1>2. ASSUME NEW n \in Notice, CreateNotice(n)
      PROVE  Goal
  <2> DEFINE row == [NoNotice EXCEPT !.phase = "pending", !.created = now, !.due = now]
  <2>0. now \in Nat
    BY <1>1, EndpointAssumption DEF EndpointTypeOK
  <2>1. row \in NoticeState /\ row.phase = "pending"
    BY <2>0 DEF NoNotice, NoticeState
  <2>2. notice' = [notice EXCEPT ![n] = row] /\ UNCHANGED tries
    BY <1>2 DEF CreateNotice
  <2> HIDE DEF row
  <2>3. notice'[n].phase = "pending" /\ OthersUnchanged(n)
    BY <1>1, <2>1, <2>2, RowShape
  <2>4. tries'[n] = <<>>
    BY <1>1, <1>2, <2>2 DEF CreateNotice, Kept, TriesMatch
  <2>5. Len(tries'[n]) = 0 /\ AttemptLimit \in Nat \ {0}
    BY <2>4, EmptySeq, EndpointAssumption
  <2>6. TriesMatch(n)'
    BY <2>3, <2>5 DEF TriesMatch, UnderWay
  <2>7. RetriesKept(n)'
    BY <2>3, <2>5 DEF RetriesKept
  <2> QED
    BY <1>1, <2>3, <2>6, <2>7, OthersKept DEF Kept
<1>3. ASSUME NEW n \in Notice, ClaimNotice(n)
      PROVE  Goal
  BY <1>1, <1>3, ClaimShape, ClaimKeeps, OthersKept
<1>4. ASSUME NEW n \in Notice, ResolveTarget(n) \/ PostNotice(n) \/ RequestFails(n)
      PROVE  Goal
  <2>1. UnderWay(n)
    BY <1>4 DEF UnderWay, ResolveTarget, PostNotice, RequestFails
  <2>2. CASE /\ notice' = [notice EXCEPT ![n].phase = "resolved", ![n].address = "public"]
             /\ UNCHANGED tries
    <3>1. /\ OthersUnchanged(n) /\ notice'[n].phase = "resolved"
          /\ notice'[n].created = notice[n].created
      BY <1>1, <2>2 DEF OthersUnchanged, EndpointTypeOK, NoticeState
    <3>2. LastTry(n)' = LastTry(n)
      BY <2>2 DEF LastTry
    <3>3. TriesMatch(n)'
      BY <1>1, <2>1, <2>2, <3>1, <3>2 DEF Kept, TriesMatch, UnderWay
    <3> QED
      BY <1>1, <2>2, <3>1, <3>3, KeptWithTries, OthersKept
  <2>3. ASSUME NEW a \in Answer, NEW k \in RetryAfter \cup {None}, Answered(n, a, k)
        PROVE  Goal
    BY <1>1, <2>1, <2>3, AnswerKeeps, OthersKept
  <2> QED
    BY <1>1, <1>4, <2>2, <2>3, AnswerCases
<1>5. ASSUME NEW n \in Notice, RetryNotice(n)
      PROVE  Goal
  BY <1>1, <1>5, RetryKeeps, OthersKept
<1>6. ASSUME NEW n \in Notice, ConcludeNotice(n)
      PROVE  Goal
  <2>1. /\ UNCHANGED tries /\ OthersUnchanged(n)
        /\ notice'[n].phase \in {"succeeded", "failed"}
        /\ notice'[n].created = notice[n].created
    BY <1>1, <1>6 DEF ConcludeNotice, Settled, NoNotice, EndpointTypeOK, OthersUnchanged
  <2>2. TriesMatch(n)'
    BY <2>1 DEF TriesMatch, UnderWay
  <2> QED
    BY <1>1, <2>1, <2>2, KeptWithTries, OthersKept
<1>7. CASE UNCHANGED <<notice, tries>>
  BY <1>1, <1>7, KeptStays
<1>8. \/ \E n \in Notice : \/ CreateNotice(n) \/ ClaimNotice(n) \/ RetryNotice(n)
                            \/ ResolveTarget(n) \/ PostNotice(n) \/ RequestFails(n)
                            \/ ConcludeNotice(n)
      \/ UNCHANGED <<notice, tries>>
  BY EndpointStepCases DEF CallOperation, ResolveNewUrl, AbandonOperation, WriteOperation, AdoptSecret,
                   RetireSecret, Tick, senderVars, hookVars
<1> QED
  BY <1>2, <1>3, <1>4, <1>5, <1>6, <1>7, <1>8

LEMMA RetryImplies ==
  ASSUME EndpointInv
  PROVE  RetriesKeepTheirWord
<1> SUFFICES ASSUME NEW n \in Notice
             PROVE  LET last == Len(tries[n]) IN
    /\ last <= AttemptLimit
    /\ \A k \in 1..last : tries[n][k].next # None =>
         /\ tries[n][k].next > tries[n][k].done
         /\ tries[n][k].next <= notice[n].created + DeliveryHorizon
         /\ tries[n][k].asked # None =>
              tries[n][k].next - tries[n][k].done >= Min({tries[n][k].asked, MaximumRetryAfter})
         /\ k < last => tries[n][k + 1].at >= tries[n][k].next
    /\ notice[n].phase = "exhausted" /\ last < AttemptLimit =>
         LastTry(n).done + Max({MaximumRetryAfter, 2 * MaximumBackoff})
           > notice[n].created + DeliveryHorizon
  BY DEF RetriesKeepTheirWord
<1>1. RetriesKept(n) /\ Len(tries[n]) \in Nat
  BY LenProperties DEF EndpointInv, RetryPart, EndpointTypeOK
<1>2. \A k \in 1..Len(tries[n]) : k < Len(tries[n]) => k \in 1..(Len(tries[n]) - 1)
  BY <1>1
<1> QED
  BY <1>1, <1>2 DEF RetriesKept, RetryKept

-----------------------------------------------------------------------------
(* The theorems *)

LEMMA EndpointStart == EndpointInit => EndpointInv
<1> SUFFICES ASSUME EndpointInit PROVE EndpointInv
  OBVIOUS
<1>1. EndpointTypeOK
  <2>1. NoHook \in Hook /\ NoCall \in Call /\ NoNotice \in NoticeState
    BY DEF NoHook, Hook, NoCall, Call, NoNotice, NoticeState
  <2>2. <<>> \in Seq(Try)
    BY EmptySeq
  <2>3. 0 \in 0..EndOfTime /\ 0 \in 0..CallBound
    BY EndpointAssumption
  <2>4. tries \in [Notice -> Seq(Try)]
    BY <2>2 DEF EndpointInit
  <2>5. notice \in [Notice -> NoticeState] /\ call \in [Operator -> Call]
    BY <2>1 DEF EndpointInit
  <2>6. trail \in [AuditAction -> Nat] /\ accepts \subseteq Nat
    BY DEF EndpointInit
  <2> QED
    BY <2>1, <2>3, <2>4, <2>5, <2>6 DEF EndpointInit, EndpointTypeOK
<1>2. TrailPart
  BY DEF EndpointInit, TrailPart, TrailTellsEndpoint, CallsSound, NothingBefore, NoHook, NoNotice,
         AuditAction, Change, Exists
<1>3. SignPart
  BY DEF EndpointInit, SignPart, ReceiverKeepsUp, RequestsSound, SignaturesVerify,
         PostsReachPublicTargets, UnderWay, NoNotice, NoHook, Exists
<1>4. RetryPart
  <2> SUFFICES ASSUME NEW n \in Notice PROVE TriesMatch(n) /\ RetriesKept(n)
    BY DEF RetryPart
  <2>1. notice[n].phase = "absent" /\ tries[n] = <<>>
    BY DEF EndpointInit, NoNotice
  <2>2. Len(tries[n]) = 0 /\ AttemptLimit \in Nat
    BY <2>1, EmptySeq, EndpointAssumption
  <2> QED
    BY <2>1, <2>2 DEF TriesMatch, RetriesKept, UnderWay
<1> QED
  BY <1>1, <1>2, <1>3, <1>4 DEF EndpointInv

LEMMA EndpointStep == EndpointInv /\ [EndpointNext]_hookVars => EndpointInv'
  BY TypeStep, TrailStep, CallsStep, NothingStep, ReceiverStep, RequestsStep, PostsStep, RetryStep
  DEF EndpointInv, TrailPart, SignPart

\* Whatever operators, receivers and failing lookups do to an endpoint at the
\* same time, the audit trail accounts for what became of it
\* (webhooks/store/postgres.ts: each change and its event are one transaction).
THEOREM TrailAccountsForEndpoint == EndpointSpec => []TrailTellsEndpoint
<1>1. EndpointInv => TrailTellsEndpoint
  BY DEF EndpointInv, TrailPart
<1> QED
  BY EndpointStart, EndpointStep, <1>1, PTL DEF EndpointSpec

\* For any overlaps, even shorter than a request, any retry policy and any
\* number of notices: a post can be verified as long after its claim as the
\* shortest overlap says, goes to a public address, and comes when it should (webhooks/store/postgres.ts, claim and
\* rotateEndpointSecret; webhooks/delivery, transport and retry policy).
THEOREM PostsStaySound == EndpointSpec => []PostsAreSound
<1>1. EndpointInv => PostsAreSound
  BY RetryImplies DEF EndpointInv, SignPart, PostsAreSound
<1> QED
  BY EndpointStart, EndpointStep, <1>1, PTL DEF EndpointSpec
-----------------------------------------------------------------------------
(* Deliveries (WebhookDelivery) *)

\* An id that is free has no attempts and no messages.
FreeIsBlank ==
  \A d \in Delivery :
    delivery[d].status = "absent" => attempts[d] = <<>> /\ messages[d] = <<>>

\* A delivery that is there announces an event that has been notified.
KnownEvents ==
  \A d \in Delivery :
    delivery[d].status # "absent" =>
      delivery[d].event \in notified /\ delivery[d].endpoint \in Endpoint

\* A worker or a relay that is not idle works on a delivery, a relay on one of
\* its messages.
BusyWorkers == \A w \in Worker : worker[w].phase # "idle" => worker[w].delivery \in Delivery
BusyRelays ==
  \A p \in Relay : relay[p].phase # "idle" =>
    relay[p].delivery \in Delivery /\ relay[p].message \in 1..Len(messages[relay[p].delivery])

\* What AttemptsMatchStatus says of one delivery, that every attempt has its
\* message, and that a delivery that waits has an attempt left.
Told(d) ==
  /\ Len(attempts[d]) <= MaximumAttempts
  /\ \A k \in 1..(Len(attempts[d]) - 1) : attempts[d][k] = "failed"
  /\ delivery[d].status = "delivering" <=>
       Len(attempts[d]) > 0 /\ attempts[d][Len(attempts[d])] = "started"
  /\ delivery[d].claim = IF delivery[d].status = "delivering" THEN Len(attempts[d]) ELSE 0
  /\ delivery[d].status = "succeeded" <=>
       Len(attempts[d]) > 0 /\ attempts[d][Len(attempts[d])] = "succeeded"
  /\ delivery[d].status = "pending" =>
       Len(messages[d]) = Len(attempts[d]) + 1 /\ Len(attempts[d]) < MaximumAttempts
  /\ delivery[d].status = "delivering" => Len(messages[d]) = Len(attempts[d])

\* A worker that is to record an acceptance has met one.
AcceptedIsReceived ==
  \A w \in Worker :
    worker[w].phase = "settling" /\ worker[w].response = "accepted" =>
      received[worker[w].delivery]

\* Among the deliveries of one event to one endpoint one has the largest
\* number: what the model's maximum needs, for any set of deliveries.
Numbered ==
  \A d \in Delivery :
    delivery[d].status # "absent" =>
      \E s \in Siblings(d) : \A t \in Siblings(d) : delivery[t].replay <= delivery[s].replay

\* The tables alone.
TableTypes ==
  /\ endpoint \in [Endpoint -> {"enabled", "disabled"}]
  /\ notified \subseteq Event
  /\ delivery \in [Delivery -> Row]
  /\ attempts \in [Delivery -> Seq({"started", "succeeded", "failed"})]
  /\ messages \in [Delivery -> Seq(Message)]
Tables ==
  /\ TableTypes /\ FreeIsBlank /\ KnownEvents /\ (\A d \in Delivery : Told(d))
  /\ Numbered /\ ReplayNumbersUnique


\* The replays that are open: each has a row as its source, one that has taken
\* its number has taken a larger one than every row of the event and the
\* endpoint, and none of the others works on any of these rows.
Sources ==
  \A r \in Replayer : replaying[r].phase # "idle" =>
    replaying[r].source \in Delivery /\ delivery[replaying[r].source].status # "absent"
NumbersAhead ==
  \A r \in Replayer : replaying[r].phase = "numbered" =>
    \A s \in Siblings(replaying[r].source) : delivery[s].replay < replaying[r].number
RowsHeld ==
  \A r, q \in Replayer :
    r # q /\ replaying[r].phase = "numbered" /\ replaying[q].phase # "idle" =>
      replaying[q].source \notin Siblings(replaying[r].source)
OpenReplays == Sources /\ NumbersAhead /\ RowsHeld

StoreInv == WebhookTypeOK /\ Tables /\ BusyWorkers /\ BusyRelays /\ OpenReplays
DeliveryInv == StoreInv /\ SenderHoldsClaim /\ SucceededMeansReceived /\ AcceptedIsReceived

USE DEF storeVars, workerVars, WorkerOnly, QueueOnly

-----------------------------------------------------------------------------
(* The steps *)

\* The steps, by the part of the state they work on.
StoreStep ==
  \/ \E v \in Event : Notify(v)
  \/ \E d \in Delivery : RetryComes(d)
  \/ \E e \in Endpoint : DisableEndpoint(e)
WorkerStep(w) ==
  \/ \E d \in Delivery : TakeJob(w, d)
  \/ ClaimDelivery(w) \/ Send(w) \/ SettleRetry(w) \/ SettleFinal(w) \/ FinishJob(w)
  \/ CancelJobs(w) \/ Exit(w) \/ WorkerError(w) \/ Crash(w) \/ StartShutdown(w)
RelayStep(p) ==
  \/ \E d \in Delivery : \E k \in DOMAIN messages[d] : RelayClaim(p, d, k)
  \/ RelayLook(p) \/ RelayEnqueue(p) \/ RelayMark(p) \/ RelayFails(p) \/ RelayStops(p)
QueueStep ==
  \/ \E d \in Delivery : StallCheck(d) \/ RemoveFinishedJob(d) \/ LoseLock(d)
  \/ \E d \in Delivery : \E k \in DOMAIN messages[d] : LeaseExpires(d, k)
  \/ FlushQueue

LEMMA DeliveryStepCases ==
  ASSUME [Next]_vars
  PROVE  \/ \E r \in Replayer : ReplayStep(r)
         \/ /\ UNCHANGED replaying
            /\ \/ StoreStep \/ QueueStep \/ UNCHANGED vars
               \/ \E w \in Worker : WorkerStep(w)
               \/ \E p \in Relay : RelayStep(p)
BY DEF vars, Next, Callers, Faults, TimePasses, WorkerProgress, RelayProgress, StoreStep, QueueStep,
       WorkerStep, RelayStep

-----------------------------------------------------------------------------
(* Types *)

LEMMA RowTypes ==
  /\ NoRow \in Row
  /\ \A v \in Event, e \in Endpoint, n \in Nat : NewRow(v, e, n) \in Row
  /\ \A s \in {"waiting", "pending"} : NewMessage(s) \in Message
  /\ NoJob \in Job /\ NewJob \in Job
  /\ IdleWorker \in WorkerState /\ IdleRelay \in RelayState
  /\ NotReplaying \in Replaying
BY WebhookAssumption DEF NoRow, Row, NewRow, NewMessage, Message, NoJob, NewJob, Job, IdleWorker,
       WorkerState, IdleRelay, RelayState, NotReplaying, Replaying, Concluded

\* Changing the last message, or any, keeps how many there are.
LEMMA MessageSet ==
  ASSUME NEW d \in Delivery, messages \in [Delivery -> Seq(Message)],
         NEW k \in 1..Len(messages[d]), NEW m \in Message,
         NEW after, after = [messages EXCEPT ![d][k] = m]
  PROVE  /\ after \in [Delivery -> Seq(Message)]
         /\ \A e \in Delivery : Len(after[e]) = Len(messages[e])
         /\ \A e \in Delivery : messages[e] = <<>> => after[e] = <<>>
<1>1. [messages[d] EXCEPT ![k] = m] \in Seq(Message)
      /\ Len([messages[d] EXCEPT ![k] = m]) = Len(messages[d])
  BY ExceptSeq
<1>2. messages[d] # <<>>
  BY EmptySeq
<1> QED
  BY <1>1, <1>2

\* What every kind of step does to the messages: a step of a queue or a relay
\* never changes how many a delivery has.
SameLengths ==
  /\ messages' \in [Delivery -> Seq(Message)]
  /\ \A d \in Delivery : Len(messages'[d]) = Len(messages[d])
  /\ \A d \in Delivery : messages[d] = <<>> => messages'[d] = <<>>

LEMMA SetMessageKeeps ==
  ASSUME StoreInv, NEW p \in Relay, relay[p].phase # "idle", NEW s \in {"pending", "published"},
         SetMessage(p, s) \/ UNCHANGED storeVars
  PROVE  SameLengths /\ UNCHANGED <<endpoint, notified, delivery, attempts>>
<1>1. CASE SetMessage(p, s)
  <2> DEFINE d == relay[p].delivery  k == relay[p].message
  <2>1. d \in Delivery /\ k \in 1..Len(messages[d])
    BY DEF StoreInv, BusyRelays
  <2>2. messages \in [Delivery -> Seq(Message)]
    BY DEF StoreInv, WebhookTypeOK
  <2>3. messages[d][k] \in Message
    BY <2>1, <2>2, ElementOfSeq
  <2>4. [messages[d][k] EXCEPT !.state = s] \in Message
    BY <2>3 DEF Message
  <2>5. messages' = [messages EXCEPT ![d][k] = [messages[d][k] EXCEPT !.state = s]]
    BY <1>1, <2>1, <2>2 DEF SetMessage
  <2> HIDE DEF d, k
  <2>6. SameLengths
    BY <2>1, <2>2, <2>4, <2>5, MessageSet DEF SameLengths
  <2> QED
    BY <1>1, <2>6 DEF SetMessage
<1>2. CASE UNCHANGED storeVars
  BY <1>2 DEF StoreInv, WebhookTypeOK, SameLengths
<1> QED
  BY <1>1, <1>2

LEMMA RelayStepKeeps ==
  ASSUME StoreInv, NEW p \in Relay, RelayStep(p)
  PROVE  SameLengths /\ UNCHANGED <<endpoint, notified, delivery, attempts, workerVars, received>>
<1>1. ASSUME NEW d \in Delivery, NEW k \in DOMAIN messages[d], RelayClaim(p, d, k)
      PROVE  SameLengths
  <2>1. messages \in [Delivery -> Seq(Message)] /\ k \in 1..Len(messages[d])
    BY LenProperties DEF StoreInv, WebhookTypeOK
  <2>2. messages[d][k] \in Message
    BY <2>1, ElementOfSeq
  <2>3. [state |-> "claimed", token |-> messages[d][k].token + 1] \in Message
    BY <2>2 DEF Message
  <2>4. messages' = [messages EXCEPT ![d][k] = [state |-> "claimed",
                                                token |-> messages[d][k].token + 1]]
    BY <1>1 DEF RelayClaim
  <2> QED
    BY <2>1, <2>3, <2>4, MessageSet DEF SameLengths
<1>2. CASE RelayMark(p) \/ RelayFails(p)
  <2>1. relay[p].phase # "idle" /\ \E s \in {"pending", "published"} :
           SetMessage(p, s) \/ UNCHANGED storeVars
    BY <1>2 DEF RelayMark, RelayFails
  <2> QED
    BY <1>2, <2>1, SetMessageKeeps DEF RelayMark, RelayFails
<1>3. CASE RelayLook(p) \/ RelayEnqueue(p) \/ RelayStops(p)
  BY <1>3 DEF RelayLook, RelayEnqueue, RelayStops, SameLengths, StoreInv, WebhookTypeOK
<1>4. ASSUME NEW d \in Delivery, NEW k \in DOMAIN messages[d], RelayClaim(p, d, k)
      PROVE  UNCHANGED <<endpoint, notified, delivery, attempts, workerVars, received>>
  BY <1>4 DEF RelayClaim
<1> QED
  BY <1>1, <1>2, <1>3, <1>4 DEF RelayStep

LEMMA QueueStepKeeps ==
  ASSUME StoreInv, QueueStep
  PROVE  SameLengths /\ UNCHANGED <<endpoint, notified, delivery, attempts, workerVars, received,
                                    relay>>
<1>1. ASSUME NEW d \in Delivery, NEW k \in DOMAIN messages[d], LeaseExpires(d, k)
      PROVE  SameLengths
  <2>1. messages \in [Delivery -> Seq(Message)] /\ k \in 1..Len(messages[d])
    BY LenProperties DEF StoreInv, WebhookTypeOK
  <2>2. messages[d][k] \in Message
    BY <2>1, ElementOfSeq
  <2>3. [messages[d][k] EXCEPT !.state = "overdue"] \in Message
    BY <2>2 DEF Message
  <2>4. messages' = [messages EXCEPT ![d][k] = [messages[d][k] EXCEPT !.state = "overdue"]]
    BY <1>1, <2>1 DEF LeaseExpires
  <2> QED
    BY <2>1, <2>3, <2>4, MessageSet DEF SameLengths
<1>2. ASSUME NEW d \in Delivery, StallCheck(d) \/ RemoveFinishedJob(d) \/ LoseLock(d)
      PROVE  SameLengths
  BY <1>2 DEF StallCheck, RemoveFinishedJob, LoseLock, SameLengths, StoreInv, WebhookTypeOK
<1>3. CASE FlushQueue
  BY <1>3 DEF FlushQueue, SameLengths, StoreInv, WebhookTypeOK
<1>4. UNCHANGED <<endpoint, notified, delivery, attempts, workerVars, received, relay>>
  BY DEF QueueStep, StallCheck, RemoveFinishedJob, LoseLock, LeaseExpires, FlushQueue
<1> QED
  BY <1>1, <1>2, <1>3, <1>4 DEF QueueStep


-----------------------------------------------------------------------------
(* The tables, one operation after the other *)

\* No delivery loses a message.
NothingShrinks == \A d \in Delivery : Len(messages'[d]) >= Len(messages[d])

\* What every step but a replay's insertion does to the rows that are there.
KnownStay ==
  \A d \in Delivery : delivery[d].status # "absent" =>
    /\ delivery'[d].status # "absent" /\ delivery'[d].replay = delivery[d].replay
    /\ Siblings(d)' = Siblings(d)

LEMMA KnownStayKeepsReplays ==
  ASSUME OpenReplays, KnownStay, UNCHANGED replaying
  PROVE  OpenReplays'
<1>1. Sources'
  BY DEF OpenReplays, Sources, KnownStay
<1>2. NumbersAhead'
  <2>1. ASSUME NEW r \in Replayer, replaying[r].phase = "numbered"
        PROVE  /\ Siblings(replaying[r].source)' = Siblings(replaying[r].source)
               /\ \A s \in Siblings(replaying[r].source) :
                    delivery'[s].replay = delivery[s].replay
    BY <2>1 DEF OpenReplays, Sources, KnownStay, Siblings
  <2> QED
    BY <2>1 DEF OpenReplays, NumbersAhead
<1>3. RowsHeld'
  BY DEF OpenReplays, Sources, RowsHeld, KnownStay
<1> QED
  BY <1>1, <1>2, <1>3 DEF OpenReplays

\* Siblings depend on nothing but the rows.
LEMMA SameRowsSameTables ==
  ASSUME Tables, UNCHANGED <<endpoint, notified, delivery, attempts>>, SameLengths
  PROVE  Tables' /\ NothingShrinks
<1>1. TableTypes' /\ FreeIsBlank' /\ KnownEvents' /\ \A d \in Delivery : Told(d)'
  BY DEF Tables, TableTypes, FreeIsBlank, KnownEvents, Told, SameLengths
<1>2. Numbered' /\ ReplayNumbersUnique'
  BY DEF Tables, Numbered, ReplayNumbersUnique, Siblings
<1>3. NothingShrinks
  BY LenProperties DEF SameLengths, NothingShrinks, Tables, TableTypes
<1> QED
  BY <1>1, <1>2, <1>3 DEF Tables

\* The number of a replay is new.
LEMMA ReplayNumberIsNew ==
  ASSUME Tables, NEW d \in Delivery, delivery[d].status # "absent"
  PROVE  /\ ReplayNumber(d) \in Nat
         /\ \A s \in Siblings(d) : delivery[s].replay < ReplayNumber(d)
<1> DEFINE S == {delivery[s].replay : s \in Siblings(d)}
<1>1. S \subseteq Nat
  BY DEF Tables, TableTypes, Row, Siblings
<1>2. PICK x \in S : \A y \in S : x >= y
  BY <1>1 DEF Tables, Numbered
<1>3. Max(S) \in S /\ \A y \in S : Max(S) >= y
  BY <1>2 DEF Max
<1>4. ReplayNumber(d) = 1 + Max(S)
  BY DEF ReplayNumber
<1> HIDE DEF S
<1>5. ReplayNumber(d) \in Nat /\ \A y \in S : y < ReplayNumber(d)
  <2> DEFINE m == Max(S)
  <2>1. m \in Nat /\ (\A y \in S : y \in Nat /\ m >= y) /\ ReplayNumber(d) = 1 + m
    BY <1>1, <1>3, <1>4
  <2> HIDE DEF m
  <2> QED
    BY <2>1
<1> QED
  BY <1>5 DEF S

LEMMA InsertTables ==
  ASSUME Tables, NEW d \in Delivery, delivery[d].status # "absent",
         NEW n \in Nat, \A s \in Siblings(d) : delivery[s].replay < n,
         NEW new \in Unused,
         delivery' = [delivery EXCEPT ![new] =
                        NewRow(delivery[d].event, delivery[d].endpoint, n)],
         messages' = [messages EXCEPT ![new] = <<NewMessage("pending")>>],
         UNCHANGED <<endpoint, notified, attempts>>
  PROVE  /\ Tables' /\ NothingShrinks
         /\ \A s \in Delivery : delivery[s].status # "absent" =>
              /\ delivery'[s] = delivery[s]
              /\ s \notin Siblings(d) => Siblings(s)' = Siblings(s)
<1>1. /\ delivery' = [delivery EXCEPT ![new] =
                         NewRow(delivery[d].event, delivery[d].endpoint, n)]
      /\ messages' = [messages EXCEPT ![new] = <<NewMessage("pending")>>]
  OBVIOUS
<1>2. new \in Delivery /\ delivery[new].status = "absent" /\ delivery[d].status # "absent"
      /\ attempts[new] = <<>> /\ messages[new] = <<>> /\ new # d
  BY DEF Unused, Tables, FreeIsBlank
<1>3. n \in Nat /\ \A s \in Siblings(d) : delivery[s].replay < n
  OBVIOUS
<1>4. UNCHANGED <<endpoint, notified, attempts>>
  OBVIOUS
<1>5. delivery[d].event \in notified /\ delivery[d].event \in Event
      /\ delivery[d].endpoint \in Endpoint
  BY <1>2 DEF Tables, KnownEvents, TableTypes
<1> DEFINE row == NewRow(delivery[d].event, delivery[d].endpoint, n)
<1>6. row \in Row /\ row.status = "pending" /\ row.event = delivery[d].event
      /\ row.endpoint = delivery[d].endpoint /\ row.replay = n /\ row.claim = 0
  BY <1>3, <1>5, RowTypes DEF NewRow
<1> HIDE DEF row
<1>7. delivery'[new] = row /\ \A s \in Delivery : s # new => delivery'[s] = delivery[s]
  BY <1>1, <1>2 DEF row, Tables, TableTypes
<1>8. messages'[new] = <<NewMessage("pending")>> /\ Len(messages'[new]) = 1
      /\ <<NewMessage("pending")>> \in Seq(Message)
      /\ \A s \in Delivery : s # new => messages'[s] = messages[s]
  BY <1>1, <1>2, RowTypes DEF Tables, TableTypes
<1>9. TableTypes'
  BY <1>1, <1>4, <1>6, <1>8 DEF row, Tables, TableTypes
<1>10. FreeIsBlank' /\ KnownEvents'
  BY <1>4, <1>5, <1>6, <1>7, <1>8 DEF Tables, FreeIsBlank, KnownEvents
<1>11. \A s \in Delivery : Told(s)'
  <2>1. Len(attempts'[new]) = 0 /\ 0 < MaximumAttempts /\ MaximumAttempts \in Nat
    BY <1>2, <1>4, EmptySeq, WebhookAssumption
  <2>2. delivery'[new].status = "pending" /\ delivery'[new].claim = 0
    BY <1>6, <1>7
  <2>3. Told(new)'
    BY <1>8, <2>1, <2>2 DEF Told
  <2>4. \A s \in Delivery : s # new => Told(s)'
    BY <1>4, <1>7, <1>8 DEF Told, Tables
  <2> QED
    BY <2>3, <2>4
<1>12. \A s \in Delivery \ {new} : Siblings(s)' =
         IF delivery[s].event = delivery[d].event /\ delivery[s].endpoint = delivery[d].endpoint
         THEN Siblings(s) \union {new} ELSE Siblings(s)
  BY <1>2, <1>6, <1>7 DEF Siblings
<1>13. Siblings(new)' = Siblings(d) \union {new}
  BY <1>2, <1>6, <1>7 DEF Siblings
<1>14. \A s \in Delivery : delivery[s].status # "absent"
          /\ delivery[s].event = delivery[d].event /\ delivery[s].endpoint = delivery[d].endpoint
            => Siblings(s) = Siblings(d) /\ s \in Siblings(d)
  BY DEF Siblings
<1>15. \A s \in Delivery : new \notin Siblings(s)
  BY <1>2 DEF Siblings
<1>16. Numbered'
  <2> SUFFICES ASSUME NEW s \in Delivery, delivery'[s].status # "absent"
               PROVE  \E x \in Siblings(s)' : \A t \in Siblings(s)' :
                        delivery'[t].replay <= delivery'[x].replay
    BY DEF Numbered
  <2>1. CASE new \in Siblings(s)'
    <3>1. Siblings(s)' = Siblings(d) \union {new}
      BY <1>2, <1>7, <1>12, <1>13, <1>14, <1>15, <2>1
    <3>2. \A t \in Siblings(d) \union {new} : delivery'[t].replay <= delivery'[new].replay
      BY <1>3, <1>6, <1>7, <1>15 DEF Siblings, Tables, TableTypes, Row
    <3> QED
      BY <2>1, <3>1, <3>2
  <2>2. CASE new \notin Siblings(s)'
    <3>1. s # new /\ Siblings(s)' = Siblings(s)
      BY <1>12, <1>13, <2>2
    <3>2. \A t \in Siblings(s) : delivery'[t] = delivery[t]
      BY <1>7, <1>15 DEF Siblings
    <3>3. PICK x \in Siblings(s) : \A t \in Siblings(s) : delivery[t].replay <= delivery[x].replay
      BY <1>7, <3>1 DEF Tables, Numbered
    <3> QED
      BY <3>1, <3>2, <3>3
  <2> QED
    BY <2>1, <2>2
<1>17. ReplayNumbersUnique'
  <2> SUFFICES ASSUME NEW s \in Delivery, NEW t \in Siblings(s)',
                      delivery'[s].status # "absent", t # s
               PROVE  delivery'[t].replay # delivery'[s].replay
    BY DEF ReplayNumbersUnique
  <2>1. CASE s = new
    BY <1>3, <1>6, <1>7, <1>13, <2>1 DEF Siblings, Tables, TableTypes, Row
  <2>2. CASE s # new /\ t = new
    <3>1. s \in Siblings(d)
      BY <1>7, <1>12, <1>14, <1>15, <2>2
    <3> QED
      BY <1>3, <1>6, <1>7, <2>2, <3>1 DEF Siblings, Tables, TableTypes, Row
  <2>3. CASE s # new /\ t # new
    <3>1. t \in Siblings(s)
      BY <1>12, <2>3
    <3> QED
      BY <1>7, <2>3, <3>1 DEF Tables, ReplayNumbersUnique, Siblings
  <2> QED
    BY <2>1, <2>2, <2>3
<1>18. NothingShrinks
  BY <1>2, <1>8, EmptySeq, LenProperties DEF NothingShrinks, Tables, TableTypes
<1>19. \A s \in Delivery : delivery[s].status # "absent" =>
         /\ delivery'[s] = delivery[s]
         /\ s \notin Siblings(d) => Siblings(s)' = Siblings(s)
  BY <1>2, <1>7, <1>12 DEF Siblings
<1> QED
  BY <1>9, <1>10, <1>11, <1>16, <1>17, <1>18, <1>19 DEF Tables

LEMMA NotifyTables ==
  ASSUME Tables, NEW v \in Event, Notify(v)
  PROVE  Tables' /\ NothingShrinks /\ KnownStay
<1>1. PICK id \in Injection(Enabled, Unused) :
        LET target == [d \in Range(id) |-> CHOOSE e \in Enabled : id[e] = d] IN
        /\ delivery' = [d \in Delivery |-> IF d \in Range(id) THEN NewRow(v, target[d], 0)
                                           ELSE delivery[d]]
        /\ messages' = [d \in Delivery |-> IF d \in Range(id) THEN <<NewMessage("pending")>>
                                           ELSE messages[d]]
  BY DEF Notify
<1> DEFINE new == Range(id)
           target == [d \in new |-> CHOOSE e \in Enabled : id[e] = d]
<1>2. v \notin notified /\ notified' = notified \union {v} /\ UNCHANGED <<endpoint, attempts>>
  BY DEF Notify
<1>3. new \subseteq Unused
  BY DEF Injection, Range
<1>4. \A d \in new : target[d] \in Enabled /\ id[target[d]] = d
  BY DEF Injection, Range
<1>5. \A d \in new : target[d] \in Endpoint
  BY <1>4 DEF Enabled
<1>6. delivery' = [d \in Delivery |-> IF d \in new THEN NewRow(v, target[d], 0)
                                      ELSE delivery[d]]
      /\ messages' = [d \in Delivery |-> IF d \in new THEN <<NewMessage("pending")>>
                                         ELSE messages[d]]
  BY <1>1
<1>7. \A d, e \in new : target[d] = target[e] => d = e
  BY <1>4
<1> HIDE DEF new, target
<1>8. \A d \in new : d \in Delivery /\ delivery[d].status = "absent"
        /\ attempts[d] = <<>> /\ messages[d] = <<>>
  BY <1>3 DEF Unused, Tables, FreeIsBlank
<1>9. \A d \in new : /\ delivery'[d] \in Row /\ delivery'[d].status = "pending"
                     /\ delivery'[d].event = v /\ delivery'[d].endpoint = target[d]
                     /\ delivery'[d].replay = 0 /\ delivery'[d].claim = 0
                     /\ messages'[d] = <<NewMessage("pending")>>
  <2>1. \A d \in new : delivery'[d] = NewRow(v, target[d], 0)
                       /\ messages'[d] = <<NewMessage("pending")>>
    BY <1>6, <1>8
  <2>2. \A d \in new : NewRow(v, target[d], 0) \in Row
    BY <1>5, RowTypes
  <2>3. \A e : LET row == NewRow(v, e, 0) IN
          /\ row.status = "pending" /\ row.event = v /\ row.endpoint = e
          /\ row.replay = 0 /\ row.claim = 0
    BY DEF NewRow
  <2> QED
    BY <2>1, <2>2, <2>3
<1>10. \A d \in Delivery \ new : delivery'[d] = delivery[d] /\ messages'[d] = messages[d]
  BY <1>6
<1>11. Len(<<NewMessage("pending")>>) = 1 /\ <<NewMessage("pending")>> \in Seq(Message)
  BY RowTypes
<1>12. TableTypes'
  <2>1. delivery' \in [Delivery -> Row]
    BY <1>6, <1>9, <1>10 DEF Tables, TableTypes
  <2>2. messages' \in [Delivery -> Seq(Message)]
    BY <1>6, <1>9, <1>10, <1>11 DEF Tables, TableTypes
  <2> QED
    BY <1>2, <2>1, <2>2 DEF Tables, TableTypes
<1>13. FreeIsBlank' /\ KnownEvents'
  BY <1>2, <1>5, <1>9, <1>10 DEF Tables, FreeIsBlank, KnownEvents
<1>14. \A d \in Delivery : Told(d)'
  <2>1. ASSUME NEW d \in new PROVE Told(d)'
    <3>1. Len(attempts'[d]) = 0 /\ 0 < MaximumAttempts /\ MaximumAttempts \in Nat
      BY <1>2, <1>8, EmptySeq, WebhookAssumption
    <3>2. Len(messages'[d]) = 1 /\ delivery'[d].status = "pending" /\ delivery'[d].claim = 0
      BY <1>9, <1>11
    <3> QED
      BY <3>1, <3>2 DEF Told
  <2>2. ASSUME NEW d \in Delivery \ new PROVE Told(d)'
    BY <1>2, <1>10 DEF Told, Tables
  <2> QED
    BY <2>1, <2>2
<1>15. \A d \in Delivery \ new : Siblings(d)' \ new = Siblings(d)
         /\ (delivery[d].status # "absent" => Siblings(d)' = Siblings(d))
  BY <1>2, <1>8, <1>9, <1>10 DEF Siblings, Tables, KnownEvents
<1>16. \A d \in new : Siblings(d)' = {d}
  BY <1>2, <1>7, <1>8, <1>9, <1>10 DEF Siblings, Tables, KnownEvents
<1>17. \A d \in new : d \notin UNION {Siblings(s) : s \in Delivery}
  BY <1>8 DEF Siblings
<1>18. Numbered'
  <2>1. ASSUME NEW d \in new
        PROVE  \E s \in Siblings(d)' : \A t \in Siblings(d)' :
                 delivery'[t].replay <= delivery'[s].replay
    BY <1>9, <1>16
  <2>2. ASSUME NEW d \in Delivery \ new, delivery'[d].status # "absent"
        PROVE  \E s \in Siblings(d)' : \A t \in Siblings(d)' :
                 delivery'[t].replay <= delivery'[s].replay
    <3>1. Siblings(d)' = Siblings(d) /\ delivery[d].status # "absent"
      BY <1>10, <1>15, <2>2
    <3>2. \A t \in Siblings(d) : delivery'[t] = delivery[t]
      BY <1>10, <1>17 DEF Siblings
    <3> QED
      BY <3>1, <3>2 DEF Tables, Numbered
  <2> QED
    BY <2>1, <2>2 DEF Numbered
<1>19. ReplayNumbersUnique'
  <2>1. ASSUME NEW d \in Delivery, NEW s \in Siblings(d)', delivery'[d].status # "absent", s # d
        PROVE  delivery'[s].replay # delivery'[d].replay
    <3>1. d \notin new
      BY <1>16, <2>1
    <3>2. s \in Siblings(d) /\ s \notin new /\ delivery[d].status # "absent"
      BY <1>10, <1>15, <1>17, <2>1, <3>1
    <3> QED
      BY <1>10, <2>1, <3>1, <3>2 DEF Tables, ReplayNumbersUnique, Siblings
  <2> QED
    BY <2>1 DEF ReplayNumbersUnique
<1>20. NothingShrinks
  BY <1>8, <1>9, <1>10, <1>11, EmptySeq, LenProperties DEF NothingShrinks, Tables, TableTypes
<1>21. KnownStay
  BY <1>8, <1>10, <1>15 DEF KnownStay
<1> QED
  BY <1>12, <1>13, <1>14, <1>18, <1>19, <1>20, <1>21 DEF Tables

-----------------------------------------------------------------------------
(* The row of one delivery *)

\* A row that keeps its event, its endpoint and its number keeps its siblings.
SameIdentity ==
  \A d \in Delivery :
    /\ delivery'[d].status = "absent" <=> delivery[d].status = "absent"
    /\ delivery'[d].event = delivery[d].event
    /\ delivery'[d].endpoint = delivery[d].endpoint
    /\ delivery'[d].replay = delivery[d].replay

LEMMA SameIdentityStays ==
  ASSUME SameIdentity
  PROVE  KnownStay
BY DEF SameIdentity, KnownStay, Siblings

LEMMA SameSiblings ==
  ASSUME Tables, SameIdentity
  PROVE  /\ Numbered' /\ ReplayNumbersUnique'
         /\ UNCHANGED notified => KnownEvents'
<1>1. \A d \in Delivery : Siblings(d)' = Siblings(d)
  BY DEF SameIdentity, Siblings
<1>2. Numbered'
  BY <1>1 DEF SameIdentity, Tables, Numbered, Siblings
<1>3. ReplayNumbersUnique'
  BY <1>1 DEF SameIdentity, Tables, ReplayNumbersUnique, Siblings
<1>4. UNCHANGED notified => KnownEvents'
  BY DEF SameIdentity, Tables, KnownEvents
<1> QED
  BY <1>2, <1>3, <1>4

LEMMA ClaimTables ==
  ASSUME Tables, NEW d \in Delivery, Claim(d)
  PROVE  Tables' /\ NothingShrinks 
         /\ delivery'[d].status = "delivering" /\ delivery'[d].claim = Len(attempts[d]) + 1
<1> DEFINE n == Len(attempts[d])
<1>1. /\ delivery[d].status = "pending" /\ UNCHANGED <<endpoint, notified, messages>>
      /\ attempts' = [attempts EXCEPT ![d] = Append(@, "started")]
      /\ delivery' = [delivery EXCEPT ![d].status = "delivering", ![d].claim = n + 1]
  BY DEF Claim, Claimable
<1>2. attempts[d] \in Seq({"started", "succeeded", "failed"}) /\ n \in Nat
      /\ delivery[d] \in Row /\ n < MaximumAttempts
  BY <1>1, LenProperties DEF Tables, TableTypes, Told
<1>3. /\ Append(attempts[d], "started") \in Seq({"started", "succeeded", "failed"})
      /\ Len(Append(attempts[d], "started")) = n + 1
      /\ \A k \in 1..n : Append(attempts[d], "started")[k] = attempts[d][k]
      /\ Append(attempts[d], "started")[n + 1] = "started"
  BY <1>2, AppendProperties
<1>4. attempts'[d] = Append(attempts[d], "started")
      /\ \A s \in Delivery : s # d => attempts'[s] = attempts[s] /\ delivery'[s] = delivery[s]
  BY <1>1 DEF Tables, TableTypes
<1>5. /\ delivery'[d] \in Row /\ delivery'[d].status = "delivering" /\ delivery'[d].claim = n + 1
      /\ SameIdentity
  <2>1. delivery'[d] = [delivery[d] EXCEPT !.status = "delivering", !.claim = n + 1]
    BY <1>1 DEF Tables, TableTypes
  <2>3. delivery[d] \in Row /\ n + 1 \in Nat
    BY <1>2
  <2> HIDE DEF n
  <2>2. /\ delivery'[d] \in Row /\ delivery'[d].status = "delivering"
        /\ delivery'[d].claim = n + 1 /\ delivery'[d].event = delivery[d].event
        /\ delivery'[d].endpoint = delivery[d].endpoint
        /\ delivery'[d].replay = delivery[d].replay
    BY <2>1, <2>3 DEF Row, Concluded
  <2> QED
    BY <1>1, <1>4, <2>2 DEF SameIdentity
<1>6. TableTypes'
  BY <1>1, <1>3, <1>5 DEF Tables, TableTypes
<1>7. FreeIsBlank' /\ KnownEvents'
  <2>1. FreeIsBlank'
    BY <1>1, <1>4, <1>5 DEF Tables, FreeIsBlank
  <2>2. KnownEvents'
    BY <1>1, <1>5, SameSiblings
  <2> QED
    BY <2>1, <2>2
<1>8. \A k \in 1..n : attempts[d][k] = "failed"
  <2>1. \A k \in 1..(n - 1) : attempts[d][k] = "failed"
    BY <1>1 DEF Tables, Told
  <2>2. n > 0 => attempts[d][n] \notin {"started", "succeeded"}
    BY <1>1 DEF Tables, Told
  <2>3. n > 0 => attempts[d][n] \in {"started", "succeeded", "failed"}
    BY <1>2, ElementOfSeq
  <2> QED
    BY <1>2, <2>1, <2>2, <2>3
<1>9. \A s \in Delivery : Told(s)'
  <2>1. Told(d)'
    <3> HIDE DEF n
    <3>1. Len(attempts'[d]) = n + 1 /\ attempts'[d][n + 1] = "started"
          /\ \A k \in 1..n : attempts'[d][k] = "failed"
      BY <1>3, <1>4, <1>8
    <3>3. Len(messages'[d]) = n + 1
      BY <1>1 DEF Tables, Told, n
    <3>2. n + 1 <= MaximumAttempts /\ n + 1 > 0 /\ (n + 1) - 1 = n
      BY <1>2, WebhookAssumption
    <3> QED
      BY <1>5, <3>1, <3>2, <3>3 DEF Told
  <2>2. ASSUME NEW s \in Delivery, s # d PROVE Told(s)'
    <3>1. attempts'[s] = attempts[s] /\ delivery'[s] = delivery[s] /\ messages'[s] = messages[s]
      BY <1>1, <1>4, <2>2
    <3>2. Told(s)
      BY DEF Tables
    <3> QED
      BY <3>1, <3>2 DEF Told
  <2> QED
    BY <2>1, <2>2
<1>10. NothingShrinks
  BY <1>1, LenProperties DEF NothingShrinks, Tables, TableTypes
<1> QED
  BY <1>5, <1>6, <1>7, <1>9, <1>10, SameSiblings DEF Tables

\* The last attempt of a delivery that is under a claim ends.
LEMMA AttemptEnds ==
  ASSUME Tables, NEW d \in Delivery, delivery[d].status = "delivering",
         NEW o \in {"succeeded", "failed"},
         attempts' = [attempts EXCEPT ![d][Len(attempts[d])] = o]
  PROVE  /\ attempts' \in [Delivery -> Seq({"started", "succeeded", "failed"})]
         /\ \A s \in Delivery : s # d => attempts'[s] = attempts[s]
         /\ Len(attempts'[d]) = Len(attempts[d]) /\ Len(attempts[d]) \in Nat \ {0}
         /\ attempts'[d][Len(attempts[d])] = o
         /\ \A k \in 1..(Len(attempts[d]) - 1) : attempts'[d][k] = "failed"
<1> DEFINE n == Len(attempts[d])
<1>1. attempts[d] \in Seq({"started", "succeeded", "failed"}) /\ n \in Nat \ {0}
  BY LenProperties DEF Tables, TableTypes, Told
<1>2. /\ [attempts[d] EXCEPT ![n] = o] \in Seq({"started", "succeeded", "failed"})
      /\ Len([attempts[d] EXCEPT ![n] = o]) = n
      /\ \A k \in 1..n : [attempts[d] EXCEPT ![n] = o][k] = IF k = n THEN o ELSE attempts[d][k]
  <2> HIDE DEF n
  <2>1. n \in 1..Len(attempts[d])
    BY <1>1 DEF n
  <2> QED
    BY <1>1, <2>1, ExceptSeq DEF n
<1>3. attempts'[d] = [attempts[d] EXCEPT ![n] = o]
      /\ \A s \in Delivery : s # d => attempts'[s] = attempts[s]
  BY DEF Tables, TableTypes
<1>4. \A k \in 1..(n - 1) : attempts[d][k] = "failed"
  BY DEF Tables, Told
<1>5. attempts' \in [Delivery -> Seq({"started", "succeeded", "failed"})]
  BY <1>2 DEF Tables, TableTypes
<1> HIDE DEF n
<1>6. Len(attempts'[d]) = n /\ attempts'[d][n] = o
      /\ \A k \in 1..(n - 1) : attempts'[d][k] = "failed"
  BY <1>1, <1>2, <1>3, <1>4
<1> QED
  BY <1>1, <1>3, <1>5, <1>6 DEF n

LEMMA ConcludeTables ==
  ASSUME Tables, NEW d \in Delivery, delivery[d].status = "delivering",
         NEW s \in Concluded, NEW disable \in BOOLEAN, Conclude(d, s, disable)
  PROVE  Tables' /\ NothingShrinks
<1> DEFINE o == IF s = "succeeded" THEN "succeeded" ELSE "failed"
           n == Len(attempts[d])
<1>1. /\ UNCHANGED <<notified, messages>>
      /\ attempts' = [attempts EXCEPT ![d][Len(attempts[d])] = o]
      /\ delivery' = [delivery EXCEPT ![d].status = s, ![d].claim = 0]
  BY DEF Conclude
<1>2. o \in {"succeeded", "failed"} /\ (o = "succeeded" <=> s = "succeeded")
  OBVIOUS
<1> HIDE DEF o
<1>3. /\ attempts' \in [Delivery -> Seq({"started", "succeeded", "failed"})]
      /\ \A e \in Delivery : e # d => attempts'[e] = attempts[e]
      /\ Len(attempts'[d]) = n /\ n \in Nat \ {0} /\ attempts'[d][n] = o
      /\ \A k \in 1..(n - 1) : attempts'[d][k] = "failed"
  BY <1>1, <1>2, AttemptEnds
<1>4. delivery[d] \in Row /\ s \in {"succeeded", "failed", "exhausted"}
  BY DEF Tables, TableTypes, Concluded
<1>5. /\ delivery'[d] \in Row /\ delivery'[d].status = s /\ delivery'[d].claim = 0
      /\ \A e \in Delivery : e # d => delivery'[e] = delivery[e]
      /\ SameIdentity
  BY <1>1, <1>4 DEF Tables, TableTypes, Row, SameIdentity, Concluded
<1>6. endpoint' \in [Endpoint -> {"enabled", "disabled"}]
  BY DEF Conclude, Tables, TableTypes
<1>7. TableTypes'
  BY <1>1, <1>3, <1>5, <1>6 DEF Tables, TableTypes
<1>8. FreeIsBlank' /\ KnownEvents'
  <2>1. FreeIsBlank'
    BY <1>1, <1>3, <1>4, <1>5 DEF Tables, FreeIsBlank
  <2>2. KnownEvents'
    BY <1>1, <1>5, SameSiblings
  <2> QED
    BY <2>1, <2>2
<1>9. \A e \in Delivery : Told(e)'
  <2>1. Told(d)'
    <3> HIDE DEF n
    <3>1. n <= MaximumAttempts
      BY DEF Tables, Told, n
    <3>2. delivery'[d].status = s /\ delivery'[d].claim = 0
      BY <1>5
    <3> QED
      BY <1>2, <1>3, <1>4, <3>1, <3>2 DEF Told
  <2>2. ASSUME NEW e \in Delivery, e # d PROVE Told(e)'
    <3>1. attempts'[e] = attempts[e] /\ delivery'[e] = delivery[e] /\ messages'[e] = messages[e]
      BY <1>1, <1>3, <1>5, <2>2
    <3>2. Told(e)
      BY DEF Tables
    <3> QED
      BY <3>1, <3>2 DEF Told
  <2> QED
    BY <2>1, <2>2
<1>10. NothingShrinks
  BY <1>1, LenProperties DEF NothingShrinks, Tables, TableTypes
<1> QED
  BY <1>5, <1>7, <1>8, <1>9, <1>10, SameSiblings DEF Tables

LEMMA RescheduleTables ==
  ASSUME Tables, NEW d \in Delivery, delivery[d].status = "delivering",
         Len(attempts[d]) < MaximumAttempts, Reschedule(d)
  PROVE  Tables' /\ NothingShrinks
<1> DEFINE n == Len(attempts[d])
<1>1. /\ UNCHANGED <<endpoint, notified>>
      /\ attempts' = [attempts EXCEPT ![d][Len(attempts[d])] = "failed"]
      /\ delivery' = [delivery EXCEPT ![d].status = "pending", ![d].claim = 0, ![d].due = FALSE]
      /\ messages' = [messages EXCEPT ![d] = Append(@, NewMessage("waiting"))]
  BY DEF Reschedule
<1>2. /\ attempts' \in [Delivery -> Seq({"started", "succeeded", "failed"})]
      /\ \A e \in Delivery : e # d => attempts'[e] = attempts[e]
      /\ Len(attempts'[d]) = n /\ n \in Nat \ {0} /\ attempts'[d][n] = "failed"
      /\ \A k \in 1..(n - 1) : attempts'[d][k] = "failed"
  BY <1>1, AttemptEnds
<1>3. /\ delivery'[d] \in Row /\ delivery'[d].status = "pending" /\ delivery'[d].claim = 0
      /\ \A e \in Delivery : e # d => delivery'[e] = delivery[e]
      /\ SameIdentity
  BY <1>1 DEF Tables, TableTypes, Row, SameIdentity, Concluded
<1>4. /\ messages' \in [Delivery -> Seq(Message)]
      /\ Len(messages'[d]) = Len(messages[d]) + 1 /\ Len(messages[d]) \in Nat
      /\ \A e \in Delivery : e # d => messages'[e] = messages[e]
  BY <1>1, RowTypes, AppendProperties, LenProperties DEF Tables, TableTypes
<1>5. TableTypes'
  BY <1>1, <1>2, <1>3, <1>4 DEF Tables, TableTypes
<1>6. FreeIsBlank' /\ KnownEvents'
  <2>1. FreeIsBlank'
    BY <1>2, <1>3, <1>4 DEF Tables, FreeIsBlank
  <2> QED
    BY <1>1, <1>3, <2>1, SameSiblings
<1>7. \A e \in Delivery : Told(e)'
  <2>1. Told(d)'
    <3> HIDE DEF n
    <3>1. n < MaximumAttempts /\ MaximumAttempts \in Nat
      BY WebhookAssumption DEF n
    <3>2. Len(messages'[d]) = n + 1
      BY <1>4 DEF Tables, Told, n
    <3>3. delivery'[d].status = "pending" /\ delivery'[d].claim = 0
      BY <1>3
    <3> QED
      BY <1>2, <3>1, <3>2, <3>3 DEF Told
  <2>2. ASSUME NEW e \in Delivery, e # d PROVE Told(e)'
    <3>1. attempts'[e] = attempts[e] /\ delivery'[e] = delivery[e] /\ messages'[e] = messages[e]
      BY <1>2, <1>3, <1>4, <2>2
    <3>2. Told(e)
      BY DEF Tables
    <3> QED
      BY <3>1, <3>2 DEF Told
  <2> QED
    BY <2>1, <2>2
<1>8. NothingShrinks
  <2>1. \A e \in Delivery : Len(messages[e]) \in Nat
    BY LenProperties DEF Tables, TableTypes
  <2> QED
    BY <1>4, <2>1 DEF NothingShrinks
<1> QED
  BY <1>3, <1>5, <1>6, <1>7, <1>8, SameSiblings DEF Tables

LEMMA RetryComesTables ==
  ASSUME Tables, NEW d \in Delivery, RetryComes(d)
  PROVE  Tables' /\ NothingShrinks
<1>1. /\ UNCHANGED <<endpoint, notified, attempts>> /\ delivery[d].status = "pending"
      /\ delivery' = [delivery EXCEPT ![d].due = TRUE]
      /\ messages' = [messages EXCEPT ![d][Len(messages[d])].state = "pending"]
  BY DEF RetryComes
<1>2. messages \in [Delivery -> Seq(Message)] /\ Len(messages[d]) \in 1..Len(messages[d])
  BY <1>1, LenProperties DEF Tables, TableTypes, Told
<1>3. messages[d][Len(messages[d])] \in Message
  BY <1>2, ElementOfSeq
<1>4. [messages[d][Len(messages[d])] EXCEPT !.state = "pending"] \in Message
  BY <1>3 DEF Message
<1>5. messages' = [messages EXCEPT ![d][Len(messages[d])] =
                     [messages[d][Len(messages[d])] EXCEPT !.state = "pending"]]
  BY <1>1, <1>2
<1>6. SameLengths
  BY <1>2, <1>4, <1>5, MessageSet DEF SameLengths
<1>7. /\ delivery'[d] \in Row /\ delivery'[d].status = "pending"
      /\ delivery'[d].claim = delivery[d].claim
      /\ \A e \in Delivery : e # d => delivery'[e] = delivery[e]
      /\ SameIdentity
  BY <1>1 DEF Tables, TableTypes, Row, SameIdentity, Concluded
<1>8. TableTypes'
  BY <1>1, <1>6, <1>7 DEF Tables, TableTypes, SameLengths
<1>9. FreeIsBlank' /\ KnownEvents'
  <2>1. FreeIsBlank'
    BY <1>1, <1>6, <1>7 DEF Tables, FreeIsBlank, SameLengths
  <2> QED
    BY <1>1, <1>7, <2>1, SameSiblings
<1>10. ASSUME NEW e \in Delivery PROVE Told(e)'
  <2>1. attempts'[e] = attempts[e] /\ Len(messages'[e]) = Len(messages[e])
        /\ delivery'[e].status = delivery[e].status /\ delivery'[e].claim = delivery[e].claim
    BY <1>1, <1>6, <1>7 DEF SameLengths
  <2>2. Told(e)
    BY DEF Tables
  <2> QED
    BY <2>1, <2>2 DEF Told
<1>11. NothingShrinks
  BY <1>6, LenProperties DEF NothingShrinks, SameLengths, Tables, TableTypes
<1> QED
  BY <1>7, <1>8, <1>9, <1>10, <1>11, SameSiblings DEF Tables

LEMMA DisableTables ==
  ASSUME Tables, NEW e \in Endpoint, DisableEndpoint(e)
  PROVE  Tables' /\ NothingShrinks
<1>1. TableTypes' /\ UNCHANGED <<notified, delivery, attempts, messages>>
  BY DEF DisableEndpoint, Tables, TableTypes
<1>2. FreeIsBlank' /\ KnownEvents' /\ (\A d \in Delivery : Told(d)') /\ SameIdentity
  BY <1>1 DEF Tables, FreeIsBlank, KnownEvents, Told, SameIdentity
<1>3. NothingShrinks
  BY <1>1, LenProperties DEF NothingShrinks, Tables, TableTypes
<1> QED
  BY <1>1, <1>2, <1>3, SameSiblings DEF Tables

-----------------------------------------------------------------------------
(* Every step keeps the tables and the types *)

LEMMA StoreStepTables ==
  ASSUME Tables, StoreStep
  PROVE  Tables' /\ NothingShrinks /\ KnownStay
<1>1. ASSUME NEW d \in Delivery, RetryComes(d)
      PROVE  SameIdentity
  BY <1>1 DEF RetryComes, SameIdentity, Tables, TableTypes, Row
<1>2. ASSUME NEW e \in Endpoint, DisableEndpoint(e)
      PROVE  SameIdentity
  BY <1>2 DEF DisableEndpoint, SameIdentity
<1> QED
  BY <1>1, <1>2, SameIdentityStays, NotifyTables, RetryComesTables, DisableTables DEF StoreStep

LEMMA TablesStay ==
  ASSUME Tables, UNCHANGED storeVars
  PROVE  Tables' /\ NothingShrinks
<1>1. SameLengths
  BY DEF SameLengths, Tables, TableTypes
<1> QED
  BY <1>1, SameRowsSameTables

\* A worker that settles under its claim is at the claim's attempt.
LEMMA ClaimIsLastAttempt ==
  ASSUME Tables, NEW d \in Delivery, NEW t, HoldsClaim(d, t)
  PROVE  delivery[d].status = "delivering" /\ t = Len(attempts[d]) /\ t > 0
BY DEF Tables, Told, HoldsClaim

LEMMA WorkerStepTables ==
  ASSUME StoreInv, NEW w \in Worker, WorkerStep(w)
  PROVE  Tables' /\ NothingShrinks
<1> DEFINE d == worker[w].delivery  t == worker[w].token  a == worker[w].response
<1>1. worker[w].phase # "idle" => d \in Delivery
  BY DEF StoreInv, BusyWorkers
<1>2. Tables
  BY DEF StoreInv
<1>3. CASE ClaimDelivery(w)
  <2>1. d \in Delivery /\ (Claim(d) \/ UNCHANGED storeVars)
    BY <1>1, <1>3 DEF ClaimDelivery
  <2> QED
    BY <1>2, <2>1, ClaimTables, TablesStay
<1>4. CASE SettleRetry(w)
  <2>1. d \in Delivery /\ t < MaximumAttempts
        /\ IF HoldsClaim(d, t) THEN Reschedule(d) ELSE UNCHANGED storeVars
    BY <1>1, <1>4 DEF SettleRetry, RetryAllowed
  <2>2. CASE HoldsClaim(d, t)
    BY <1>2, <2>1, <2>2, ClaimIsLastAttempt, RescheduleTables
  <2>3. CASE ~HoldsClaim(d, t)
    BY <1>2, <2>1, <2>3, TablesStay
  <2> QED
    BY <2>2, <2>3
<1>5. CASE SettleFinal(w)
  <2>1. d \in Delivery /\ ConclusionOf(a) \in Concluded /\ (a = "gone") \in BOOLEAN
        /\ IF HoldsClaim(d, t) THEN Conclude(d, ConclusionOf(a), a = "gone")
           ELSE UNCHANGED storeVars
    BY <1>1, <1>5 DEF SettleFinal, ConclusionOf, Concluded
  <2>2. CASE HoldsClaim(d, t)
    BY <1>2, <2>1, <2>2, ClaimIsLastAttempt, ConcludeTables
  <2>3. CASE ~HoldsClaim(d, t)
    BY <1>2, <2>1, <2>3, TablesStay
  <2> QED
    BY <2>2, <2>3
<1>6. CASE ~ClaimDelivery(w) /\ ~SettleRetry(w) /\ ~SettleFinal(w)
  <2>1. UNCHANGED storeVars
    BY <1>6 DEF WorkerStep, TakeJob, Send, FinishJob, CancelJobs, Exit, WorkerError, Crash,
                StartShutdown, Vanish
  <2> QED
    BY <1>2, <2>1, TablesStay
<1> QED
  BY <1>3, <1>4, <1>5, <1>6

\* A worker keeps what a row is about.
LEMMA WorkerStepIdentity ==
  ASSUME StoreInv, NEW w \in Worker, WorkerStep(w)
  PROVE  KnownStay
<1>1. TableTypes /\ (worker[w].phase # "idle" => worker[w].delivery \in Delivery)
  BY DEF StoreInv, Tables, BusyWorkers
<1>2. ASSUME NEW d \in Delivery, Claim(d)
      PROVE  SameIdentity
  BY <1>1, <1>2 DEF Claim, Claimable, SameIdentity, TableTypes, Row
<1>3. ASSUME NEW d \in Delivery, delivery[d].status = "delivering", Reschedule(d)
      PROVE  SameIdentity
  BY <1>1, <1>3 DEF Reschedule, SameIdentity, TableTypes, Row
<1>4. ASSUME NEW d \in Delivery, delivery[d].status = "delivering",
             NEW s \in Concluded, NEW off, Conclude(d, s, off)
      PROVE  SameIdentity
  BY <1>1, <1>4 DEF Conclude, Concluded, SameIdentity, TableTypes, Row
<1>5. ASSUME UNCHANGED delivery PROVE SameIdentity
  BY <1>5 DEF SameIdentity
<1>6. CASE ClaimDelivery(w)
  <2>1. worker[w].phase # "idle" /\ (Claim(worker[w].delivery) \/ UNCHANGED delivery)
    BY <1>6 DEF ClaimDelivery
  <2> QED
    BY <1>1, <1>2, <1>5, <2>1, SameIdentityStays
<1>7. CASE SettleRetry(w)
  <2>1. /\ worker[w].phase # "idle"
        /\ \/ delivery[worker[w].delivery].status = "delivering" /\ Reschedule(worker[w].delivery)
           \/ UNCHANGED delivery
    BY <1>7 DEF SettleRetry, HoldsClaim
  <2> QED
    BY <1>1, <1>3, <1>5, <2>1, SameIdentityStays
<1>8. CASE SettleFinal(w)
  <2>1. ConclusionOf(worker[w].response) \in Concluded
    BY DEF ConclusionOf, Concluded
  <2>2. /\ worker[w].phase # "idle"
        /\ \/ /\ delivery[worker[w].delivery].status = "delivering"
              /\ Conclude(worker[w].delivery, ConclusionOf(worker[w].response),
                          worker[w].response = "gone")
           \/ UNCHANGED delivery
    BY <1>8 DEF SettleFinal, HoldsClaim
  <2> QED
    BY <1>1, <1>4, <1>5, <2>1, <2>2, SameIdentityStays
<1>9. CASE ~ClaimDelivery(w) /\ ~SettleRetry(w) /\ ~SettleFinal(w)
  <2>1. UNCHANGED storeVars
    BY <1>9 DEF WorkerStep, TakeJob, Send, FinishJob, CancelJobs, Exit, WorkerError, Crash,
                StartShutdown, Vanish
  <2> QED
    BY <1>5, <2>1, SameIdentityStays
<1> QED
  BY <1>6, <1>7, <1>8, <1>9

-----------------------------------------------------------------------------
(* Replays *)

ReplayTypes == replaying \in [Replayer -> Replaying]

\* The first two statements write nothing; they take rows that no open replay
\* has, and a number that none of the rows has.
LEMMA SelectKeepsReplays ==
  ASSUME StoreInv, NEW r \in Replayer, NEW d \in Delivery, SelectSource(r, d)
  PROVE  ReplayTypes' /\ OpenReplays'
<1>1. ReplayTypes /\ OpenReplays
  BY DEF StoreInv, WebhookTypeOK, ReplayTypes
<1>2. /\ replaying' = [replaying EXCEPT ![r] =
                          [phase |-> "locked", source |-> d, number |-> 0]]
      /\ delivery[d].status \in {"failed", "exhausted"} /\ LocksFree(r, {d})
      /\ UNCHANGED delivery
  BY DEF SelectSource
<1>3. /\ replaying'[r].phase = "locked" /\ replaying'[r].source = d
      /\ \A q \in Replayer : q # r => replaying'[q] = replaying[q]
  BY <1>1, <1>2 DEF ReplayTypes
<1>4. ReplayTypes'
  BY <1>1, <1>2 DEF ReplayTypes, Replaying
<1>5. Sources' /\ NumbersAhead'
  BY <1>1, <1>2, <1>3 DEF OpenReplays, Sources, NumbersAhead, Siblings
<1>6. ASSUME NEW q \in Replayer, q # r, replaying[q].phase = "numbered"
      PROVE  d \notin Siblings(replaying[q].source)
  BY <1>2, <1>6 DEF LocksFree, LockedRows
<1>7. RowsHeld'
  BY <1>1, <1>2, <1>3, <1>6 DEF OpenReplays, RowsHeld, Siblings
<1> QED
  BY <1>4, <1>5, <1>7 DEF OpenReplays

LEMMA NumberKeepsReplays ==
  ASSUME StoreInv, NEW r \in Replayer, NumberReplay(r)
  PROVE  ReplayTypes' /\ OpenReplays'
<1> DEFINE d == replaying[r].source  n == ReplayNumber(d)
<1>1. ReplayTypes /\ OpenReplays /\ Tables
  BY DEF StoreInv, WebhookTypeOK, ReplayTypes
<1>2. /\ replaying[r].phase = "locked" /\ LocksFree(r, Siblings(d)) /\ UNCHANGED delivery
      /\ replaying' = [replaying EXCEPT ![r] = [replaying[r] EXCEPT !.phase = "numbered",
                                                                   !.number = n]]
  BY <1>1 DEF NumberReplay, ReplayTypes
<1>3. d \in Delivery /\ delivery[d].status # "absent"
  BY <1>1, <1>2 DEF OpenReplays, Sources
<1>4. n \in Nat /\ \A s \in Siblings(d) : delivery[s].replay < n
  BY <1>1, <1>3, ReplayNumberIsNew
<1> HIDE DEF n
<1>5. /\ replaying'[r].phase = "numbered" /\ replaying'[r].source = d
      /\ replaying'[r].number = n
      /\ \A q \in Replayer : q # r => replaying'[q] = replaying[q]
  BY <1>1, <1>2 DEF ReplayTypes, Replaying
<1>6. ReplayTypes'
  BY <1>1, <1>2, <1>4 DEF ReplayTypes, Replaying
<1> HIDE DEF d
<1>7. Sources'
  BY <1>1, <1>2, <1>3, <1>5 DEF OpenReplays, Sources
<1>8. NumbersAhead'
  BY <1>1, <1>2, <1>4, <1>5 DEF OpenReplays, NumbersAhead, Siblings
<1>9. ASSUME NEW q \in Replayer, q # r, replaying[q].phase # "idle"
      PROVE  replaying[q].source \notin Siblings(d)
  <2>1. replaying[q].phase \in {"locked", "numbered"}
    BY <1>1, <1>9 DEF ReplayTypes, Replaying
  <2>2. replaying[q].source \in Siblings(replaying[q].source)
    BY <1>1, <1>9 DEF OpenReplays, Sources, Siblings
  <2> QED
    BY <1>2, <1>9, <2>1, <2>2 DEF LocksFree, LockedRows
<1>10. ASSUME NEW q \in Replayer, q # r, replaying[q].phase = "numbered"
       PROVE  d \notin Siblings(replaying[q].source)
  BY <1>1, <1>2, <1>10 DEF OpenReplays, RowsHeld, d
<1>11. RowsHeld'
  BY <1>1, <1>2, <1>5, <1>9, <1>10 DEF OpenReplays, RowsHeld, Siblings
<1> QED
  BY <1>6, <1>7, <1>8, <1>11 DEF OpenReplays

LEMMA EndKeepsReplays ==
  ASSUME ReplayTypes, OpenReplays, NEW r \in Replayer,
         replaying' = [replaying EXCEPT ![r] = NotReplaying],
         \A q \in Replayer : q # r /\ replaying[q].phase # "idle" =>
           LET d == replaying[q].source IN
           /\ delivery'[d].status # "absent" /\ Siblings(d)' = Siblings(d)
           /\ \A s \in Siblings(d) : delivery'[s].replay = delivery[s].replay
  PROVE  ReplayTypes' /\ OpenReplays'
<1>1. /\ replaying'[r].phase = "idle"
      /\ \A q \in Replayer : q # r => replaying'[q] = replaying[q]
  BY DEF ReplayTypes, NotReplaying
<1>2. ReplayTypes'
  BY RowTypes DEF ReplayTypes
<1>3. Sources'
  BY <1>1 DEF OpenReplays, Sources
<1>4. NumbersAhead'
  BY <1>1 DEF OpenReplays, NumbersAhead
<1>5. RowsHeld'
  BY <1>1 DEF OpenReplays, RowsHeld
<1> QED
  BY <1>2, <1>3, <1>4, <1>5 DEF OpenReplays

LEMMA InsertKeepsReplays ==
  ASSUME StoreInv, NEW r \in Replayer, InsertReplay(r)
  PROVE  Tables' /\ NothingShrinks /\ ReplayTypes' /\ OpenReplays'
<1> DEFINE d == replaying[r].source  n == replaying[r].number
<1>1. ReplayTypes /\ OpenReplays /\ Tables
  BY DEF StoreInv, WebhookTypeOK, ReplayTypes
<1>2. replaying[r].phase = "numbered" /\ UNCHANGED <<endpoint, notified, attempts>>
      /\ replaying' = [replaying EXCEPT ![r] = NotReplaying]
  BY DEF InsertReplay, ReplayOnly
<1>3. PICK new \in Unused :
        /\ delivery' = [delivery EXCEPT ![new] =
                          NewRow(delivery[d].event, delivery[d].endpoint, n)]
        /\ messages' = [messages EXCEPT ![new] = <<NewMessage("pending")>>]
  BY DEF InsertReplay
<1>4. /\ d \in Delivery /\ delivery[d].status # "absent" /\ n \in Nat
      /\ \A s \in Siblings(d) : delivery[s].replay < n
  BY <1>1, <1>2 DEF OpenReplays, Sources, NumbersAhead, ReplayTypes, Replaying
<1>5. \A q \in Replayer : q # r /\ replaying[q].phase # "idle" =>
        /\ replaying[q].source \in Delivery /\ replaying[q].source \notin Siblings(d)
        /\ delivery[replaying[q].source].status # "absent"
  BY <1>1, <1>2 DEF OpenReplays, Sources, RowsHeld
<1> HIDE DEF d, n
<1>6. /\ Tables' /\ NothingShrinks
      /\ \A s \in Delivery : delivery[s].status # "absent" =>
           /\ delivery'[s] = delivery[s]
           /\ s \notin Siblings(d) => Siblings(s)' = Siblings(s)
  BY <1>1, <1>2, <1>3, <1>4, InsertTables
<1>7. \A q \in Replayer : q # r /\ replaying[q].phase # "idle" =>
        LET e == replaying[q].source IN
        /\ delivery'[e].status # "absent" /\ Siblings(e)' = Siblings(e)
        /\ \A s \in Siblings(e) : delivery'[s].replay = delivery[s].replay
  <2>1. \A e : \A s \in Siblings(e) : s \in Delivery /\ delivery[s].status # "absent"
    BY DEF Siblings
  <2>2. ASSUME NEW q \in Replayer, q # r, replaying[q].phase # "idle"
        PROVE  LET e == replaying[q].source IN
               /\ delivery'[e].status # "absent" /\ Siblings(e)' = Siblings(e)
               /\ \A s \in Siblings(e) : delivery'[s].replay = delivery[s].replay
    <3> DEFINE e == replaying[q].source
    <3>1. e \in Delivery /\ e \notin Siblings(d) /\ delivery[e].status # "absent"
      BY <1>5, <2>2
    <3>5. e' = e
      BY <1>1, <1>2, <2>2 DEF ReplayTypes
    <3> HIDE DEF e
    <3>2. delivery'[e].status # "absent" /\ Siblings(e)' = Siblings(e)
      BY <1>6, <3>1, <3>5
    <3>3. \A s \in Siblings(e) : delivery'[s].replay = delivery[s].replay
      BY <1>6, <2>1
    <3> QED
      BY <3>2, <3>3 DEF e
  <2> QED
    BY <2>2
<1> QED
  BY <1>1, <1>2, <1>6, <1>7, EndKeepsReplays

LEMMA ReplayStepKeeps ==
  ASSUME StoreInv, NEW r \in Replayer, ReplayStep(r)
  PROVE  /\ Tables' /\ NothingShrinks /\ ReplayTypes' /\ OpenReplays'
         /\ UNCHANGED <<job, workerVars, relay, received, faults>>
<1>1. Tables /\ ReplayTypes /\ OpenReplays
  BY DEF StoreInv, WebhookTypeOK, ReplayTypes
<1>2. ASSUME UNCHANGED storeVars PROVE Tables' /\ NothingShrinks
  BY <1>1, <1>2, TablesStay
<1>3. ASSUME NEW d \in Delivery, SelectSource(r, d)
      PROVE  Tables' /\ NothingShrinks /\ ReplayTypes' /\ OpenReplays'
  BY <1>2, <1>3, SelectKeepsReplays DEF SelectSource, ReplayOnly
<1>4. CASE NumberReplay(r)
  <2>1. UNCHANGED storeVars /\ UNCHANGED <<job, workerVars, relay, received, faults>>
    BY <1>4 DEF NumberReplay, ReplayOnly
  <2> QED
    BY <1>2, <1>4, <2>1, NumberKeepsReplays
<1>5. CASE RollBackReplay(r)
  <2>1. replaying' = [replaying EXCEPT ![r] = NotReplaying] /\ UNCHANGED storeVars
        /\ UNCHANGED <<job, workerVars, relay, received, faults>>
    BY <1>5 DEF RollBackReplay, ReplayOnly
  <2>2. \A q \in Replayer : q # r /\ replaying[q].phase # "idle" =>
          LET d == replaying[q].source IN
          /\ delivery'[d].status # "absent" /\ Siblings(d)' = Siblings(d)
          /\ \A s \in Siblings(d) : delivery'[s].replay = delivery[s].replay
    BY <1>1, <2>1 DEF OpenReplays, Sources, Siblings
  <2> QED
    BY <1>1, <1>2, <2>1, <2>2, EndKeepsReplays
<1>6. CASE InsertReplay(r)
  BY <1>6, InsertKeepsReplays DEF InsertReplay, ReplayOnly
<1>7. ASSUME NEW d \in Delivery, SelectSource(r, d)
      PROVE  UNCHANGED <<job, workerVars, relay, received, faults>>
  BY <1>7 DEF SelectSource, ReplayOnly
<1> QED
  BY <1>3, <1>4, <1>5, <1>6, <1>7 DEF ReplayStep

\* A replay changes no row that is there.
LEMMA ReplayStepRows ==
  ASSUME StoreInv, NEW r \in Replayer, ReplayStep(r), NEW d \in Delivery
  PROVE  /\ \/ delivery'[d] = delivery[d]
            \/ delivery[d].status = "absent" /\ delivery'[d].status = "pending"
         /\ attempts' = attempts
<1>1. TableTypes
  BY DEF StoreInv, Tables
<1>2. CASE InsertReplay(r)
  <2>1. \A v, e, n : NewRow(v, e, n).status = "pending"
    BY DEF NewRow
  <2> QED
    BY <1>1, <1>2, <2>1 DEF InsertReplay, ReplayOnly, Unused, TableTypes
<1>3. CASE NumberReplay(r) \/ RollBackReplay(r) \/ \E x \in Delivery : SelectSource(r, x)
  BY <1>3 DEF NumberReplay, RollBackReplay, SelectSource, ReplayOnly
<1> QED
  BY <1>2, <1>3 DEF ReplayStep

\* The types of everything that is not a table.
ProcessTypes ==
  /\ job \in [Delivery -> Job]
  /\ worker \in [Worker -> WorkerState]
  /\ closing \in [Worker -> {"no", "draining", "cancelled"}]
  /\ relay \in [Relay -> RelayState]
  /\ received \in [Delivery -> BOOLEAN]
  /\ faults \in 0..FaultBound

LEMMA TypeParts == WebhookTypeOK <=> TableTypes /\ ProcessTypes /\ ReplayTypes
BY DEF WebhookTypeOK, TableTypes, ProcessTypes, ReplayTypes

LEMMA FaultCounts ==
  ASSUME faults \in 0..FaultBound, Fault \/ UNCHANGED faults
  PROVE  faults' \in 0..FaultBound
BY WebhookAssumption DEF Fault

LEMMA WorkerStepTypes ==
  ASSUME StoreInv, NEW w \in Worker, WorkerStep(w)
  PROVE  ProcessTypes' /\ BusyWorkers' /\ UNCHANGED relay
<1> USE DEF ProcessTypes
<1>1. ProcessTypes /\ BusyWorkers
  BY TypeParts DEF StoreInv
<1>2. faults' \in 0..FaultBound
  <2>1. Fault \/ UNCHANGED faults
    BY DEF WorkerStep, TakeJob, ClaimDelivery, Send, SettleRetry, SettleFinal, FinishJob,
           CancelJobs, Exit, WorkerError, Crash, StartShutdown, Then
  <2> QED
    BY <1>1, <2>1, FaultCounts
<1>3. ASSUME NEW d \in Delivery, TakeJob(w, d)
      PROVE  ProcessTypes' /\ BusyWorkers' /\ UNCHANGED relay
  <2>1. job' \in [Delivery -> Job]
    BY <1>1, <1>3 DEF TakeJob, SetJob, Job
  <2>2. [IdleWorker EXCEPT !.phase = "taken", !.delivery = d] \in WorkerState
        /\ [IdleWorker EXCEPT !.phase = "taken", !.delivery = d].delivery = d
    BY RowTypes DEF WorkerState, IdleWorker
  <2>3. worker' \in [Worker -> WorkerState] /\ BusyWorkers'
    BY <1>1, <1>3, <2>2 DEF TakeJob, BusyWorkers
  <2> QED
    BY <1>1, <1>2, <1>3, <2>1, <2>3 DEF TakeJob
<1>4. CASE ClaimDelivery(w)
  <2>1. Len(attempts[worker[w].delivery]) + 1 \in Nat
    BY <1>4, LenProperties DEF ClaimDelivery, StoreInv, BusyWorkers, WebhookTypeOK
  <2>3. ASSUME NEW n \in Nat
        PROVE  /\ [worker[w] EXCEPT !.phase = "sending", !.token = n] \in WorkerState
               /\ [worker[w] EXCEPT !.phase = "finishing"] \in WorkerState
    BY <1>1 DEF WorkerState
  <2>4. \E x \in WorkerState : x.delivery = worker[w].delivery /\ worker' = [worker EXCEPT ![w] = x]
    <3>1. CASE Claim(worker[w].delivery) /\ worker' =
            [worker EXCEPT ![w] = [@ EXCEPT !.phase = "sending",
                                            !.token = Len(attempts[worker[w].delivery]) + 1]]
      BY <1>1, <2>1, <2>3, <3>1 DEF WorkerState
    <3>2. CASE worker' = [worker EXCEPT ![w] = [@ EXCEPT !.phase = "finishing"]]
      BY <1>1, <2>3, <3>2 DEF WorkerState
    <3> QED
      BY <1>1, <1>4, <3>1, <3>2 DEF ClaimDelivery
  <2>2. worker' \in [Worker -> WorkerState] /\ BusyWorkers'
    BY <1>1, <1>4, <2>4 DEF ClaimDelivery, BusyWorkers
  <2> QED
    BY <1>1, <1>2, <1>4, <2>2 DEF ClaimDelivery
<1>5. CASE Send(w)
  <2>1. PICK r \in Responses(w) : \E accepted \in Acceptance(r) :
          /\ worker' = [worker EXCEPT ![w].phase = "settling", ![w].response = r]
          /\ received' = [received EXCEPT ![worker[w].delivery] = @ \/ accepted]
    BY <1>5 DEF Send
  <2>2. r \in Response
    BY <2>1 DEF Responses, Response
  <2>5. [worker[w] EXCEPT !.phase = "settling", !.response = r] \in WorkerState
    BY <1>1, <2>2 DEF WorkerState
  <2>6. worker' = [worker EXCEPT ![w] =
                     [worker[w] EXCEPT !.phase = "settling", !.response = r]]
    BY <1>1, <2>1
  <2>3. worker' \in [Worker -> WorkerState] /\ BusyWorkers'
    BY <1>1, <1>5, <2>5, <2>6 DEF Send, BusyWorkers, WorkerState
  <2>4. received' \in [Delivery -> BOOLEAN]
    BY <1>1, <2>1 DEF Acceptance
  <2> QED
    BY <1>1, <1>2, <1>5, <2>3, <2>4 DEF Send
<1>6. CASE SettleRetry(w) \/ SettleFinal(w) \/ WorkerError(w)
  <2>1. \E p \in {"finishing", "failing"} : worker' = [worker EXCEPT ![w].phase = p]
    BY <1>6 DEF SettleRetry, SettleFinal, WorkerError, Then
  <2>2. worker[w].phase # "idle"
    BY <1>6 DEF SettleRetry, SettleFinal, WorkerError
  <2>3. worker' \in [Worker -> WorkerState] /\ BusyWorkers'
    BY <1>1, <2>1, <2>2 DEF BusyWorkers, WorkerState
  <2> QED
    BY <1>1, <1>2, <1>6, <2>3 DEF SettleRetry, SettleFinal, WorkerError
<1>7. CASE FinishJob(w)
  <2>1. job' \in [Delivery -> Job]
    BY <1>1, <1>7 DEF FinishJob, SetJob, Job
  <2>2. worker' \in [Worker -> WorkerState] /\ BusyWorkers'
    BY <1>1, <1>7, RowTypes DEF FinishJob, BusyWorkers, IdleWorker
  <2> QED
    BY <1>1, <1>2, <1>7, <2>1, <2>2 DEF FinishJob
<1>8. CASE CancelJobs(w) \/ StartShutdown(w)
  BY <1>1, <1>2, <1>8 DEF CancelJobs, StartShutdown, BusyWorkers
<1>9. CASE Exit(w) \/ Crash(w)
  <2>1. Vanish(w)
    BY <1>9 DEF Exit, Crash
  <2>2. job' \in [Delivery -> Job]
    BY <1>1, <2>1 DEF Vanish, Job
  <2>3. worker' \in [Worker -> WorkerState] /\ BusyWorkers'
    BY <1>1, <2>1, RowTypes DEF Vanish, BusyWorkers, IdleWorker
  <2> QED
    BY <1>1, <1>2, <2>1, <2>2, <2>3 DEF Vanish
<1> QED
  BY <1>3, <1>4, <1>5, <1>6, <1>7, <1>8, <1>9 DEF WorkerStep

LEMMA RelayStepTypes ==
  ASSUME StoreInv, NEW p \in Relay, RelayStep(p)
  PROVE  ProcessTypes' /\ BusyRelays'
<1> USE DEF ProcessTypes
<1>1. ProcessTypes /\ BusyRelays /\ SameLengths
  BY TypeParts, RelayStepKeeps DEF StoreInv
<1>2. UNCHANGED <<workerVars, received>>
  BY RelayStepKeeps
<1>3. faults' \in 0..FaultBound
  <2>1. Fault \/ UNCHANGED faults
    BY DEF RelayStep, RelayClaim, RelayLook, RelayEnqueue, RelayMark, RelayFails, RelayStops
  <2> QED
    BY <1>1, <2>1, FaultCounts
<1>4. ASSUME NEW d \in Delivery, NEW k \in DOMAIN messages[d], RelayClaim(p, d, k)
      PROVE  ProcessTypes' /\ BusyRelays'
  <2>1. messages[d] \in Seq(Message) /\ k \in 1..Len(messages[d])
    BY LenProperties DEF StoreInv, WebhookTypeOK
  <2>2. messages[d][k] \in Message
    BY <2>1, ElementOfSeq
  <2>3. k \in Nat /\ messages[d][k].token + 1 \in Nat
    BY <2>1, <2>2, LenProperties DEF Message
  <2>4. relay' \in [Relay -> RelayState]
    BY <1>1, <1>4, <2>3 DEF RelayClaim, RelayState
  <2>5. BusyRelays'
    BY <1>1, <1>4, <2>1 DEF RelayClaim, BusyRelays, SameLengths
  <2> QED
    BY <1>1, <1>2, <1>3, <1>4, <2>4, <2>5 DEF RelayClaim
<1>5. CASE RelayLook(p)
  <2>1. QueueState(relay[p].delivery) \in {"unknown", "missing", "finished", "present"}
    BY DEF QueueState
  <2>4. [relay[p] EXCEPT !.phase = "enqueuing", !.queue = QueueState(relay[p].delivery)]
          \in RelayState
    BY <1>1, <2>1 DEF RelayState
  <2>2. relay' \in [Relay -> RelayState]
    BY <1>1, <1>5, <2>4 DEF RelayLook
  <2>3. BusyRelays'
    BY <1>1, <1>5 DEF RelayLook, BusyRelays, SameLengths
  <2> QED
    BY <1>1, <1>2, <1>3, <1>5, <2>2, <2>3 DEF RelayLook
<1>6. CASE RelayEnqueue(p)
  <2>1. job' \in [Delivery -> Job]
    BY <1>1, <1>6, RowTypes DEF RelayEnqueue, Enqueue
  <2>2. relay' \in [Relay -> RelayState]
    BY <1>1, <1>6 DEF RelayEnqueue, RelayState
  <2>3. BusyRelays'
    BY <1>1, <1>6 DEF RelayEnqueue, BusyRelays, SameLengths
  <2> QED
    BY <1>1, <1>2, <1>3, <2>1, <2>2, <2>3
<1>7. CASE RelayMark(p) \/ RelayFails(p) \/ RelayStops(p)
  <2>1. relay' = [relay EXCEPT ![p] = IdleRelay] /\ UNCHANGED job
    BY <1>7 DEF RelayMark, RelayFails, RelayStops
  <2>2. relay' \in [Relay -> RelayState]
    BY <1>1, <2>1, RowTypes
  <2>3. BusyRelays'
    BY <1>1, <2>1 DEF BusyRelays, SameLengths, IdleRelay
  <2> QED
    BY <1>1, <1>2, <1>3, <2>1, <2>2, <2>3
<1> QED
  BY <1>4, <1>5, <1>6, <1>7 DEF RelayStep

LEMMA QueueStepTypes ==
  ASSUME StoreInv, QueueStep
  PROVE  ProcessTypes'
<1> USE DEF ProcessTypes
<1>1. ProcessTypes /\ UNCHANGED <<workerVars, received, relay>>
  BY TypeParts, QueueStepKeeps DEF StoreInv
<1>2. faults' \in 0..FaultBound
  <2>1. Fault \/ UNCHANGED faults
    BY DEF QueueStep, StallCheck, RemoveFinishedJob, LoseLock, LeaseExpires, FlushQueue
  <2> QED
    BY <1>1, <2>1, FaultCounts
<1>3. job' \in [Delivery -> Job]
  <2>1. ASSUME NEW d \in Delivery, StallCheck(d) PROVE job' \in [Delivery -> Job]
    <3>1. job[d] \in Job
      BY <1>1
    <3>2. job[d].stalls < MaxStalledCount =>
            [NewJob EXCEPT !.stalls = job[d].stalls + 1] \in Job
      <4>1. job[d].stalls \in 0..MaxStalledCount /\ MaxStalledCount \in Nat
        BY <3>1, WebhookAssumption DEF Job
      <4>2. job[d].stalls < MaxStalledCount => job[d].stalls + 1 \in 0..MaxStalledCount
        BY <4>1
      <4>3. \A n \in 0..MaxStalledCount : [NewJob EXCEPT !.stalls = n] \in Job
        BY RowTypes DEF Job
      <4> QED
        BY <4>2, <4>3
    <3>3. [job[d] EXCEPT !.state = "failed", !.owner = Nothing] \in Job
      BY <3>1 DEF Job
    <3> QED
      BY <1>1, <2>1, <3>2, <3>3 DEF StallCheck, SetJob, Job
  <2>2. ASSUME NEW d \in Delivery, RemoveFinishedJob(d) \/ LoseLock(d)
        PROVE  job' \in [Delivery -> Job]
    BY <1>1, <2>2, RowTypes DEF RemoveFinishedJob, LoseLock, SetJob, Job
  <2>3. CASE FlushQueue
    BY <2>3, RowTypes DEF FlushQueue
  <2>4. ASSUME NEW d \in Delivery, NEW k \in DOMAIN messages[d], LeaseExpires(d, k)
        PROVE  job' \in [Delivery -> Job]
    BY <1>1, <2>4 DEF LeaseExpires
  <2> QED
    BY <2>1, <2>2, <2>3, <2>4 DEF QueueStep
<1> QED
  BY <1>1, <1>2, <1>3

LEMMA StoreInvStep == StoreInv /\ [Next]_vars => StoreInv'
<1> SUFFICES ASSUME StoreInv, [Next]_vars PROVE StoreInv'
  OBVIOUS
<1>0. TableTypes' /\ ProcessTypes' /\ ReplayTypes' => WebhookTypeOK'
  BY DEF TableTypes, ProcessTypes, ReplayTypes, WebhookTypeOK
<1>1. /\ Tables /\ ProcessTypes /\ ReplayTypes /\ BusyWorkers /\ BusyRelays /\ OpenReplays
  BY TypeParts DEF StoreInv
<1>2. ASSUME NothingShrinks, UNCHANGED relay PROVE BusyRelays'
  <2>1. \A d \in Delivery : Len(messages[d]) \in Nat
    BY <1>1, LenProperties DEF Tables, TableTypes
  <2> QED
    BY <1>1, <1>2, <2>1 DEF BusyRelays, NothingShrinks
<1>3. ASSUME UNCHANGED replaying, KnownStay PROVE ReplayTypes' /\ OpenReplays'
  BY <1>1, <1>3, KnownStayKeepsReplays DEF ReplayTypes
<1>4. ASSUME NEW r \in Replayer, ReplayStep(r) PROVE StoreInv'
  <2>1. /\ Tables' /\ NothingShrinks /\ ReplayTypes' /\ OpenReplays'
        /\ UNCHANGED <<job, workerVars, relay, received, faults>>
    BY <1>4, ReplayStepKeeps
  <2>2. ProcessTypes' /\ BusyWorkers'
    BY <1>1, <2>1 DEF ProcessTypes, BusyWorkers
  <2> QED
    BY <1>0, <1>2, <2>1, <2>2 DEF StoreInv, Tables
<1>5. ASSUME UNCHANGED replaying, StoreStep PROVE StoreInv'
  <2>1. UNCHANGED <<job, workerVars, relay, received, faults>>
    BY <1>5 DEF StoreStep, Notify, RetryComes, DisableEndpoint
  <2>2. ProcessTypes' /\ BusyWorkers'
    BY <1>1, <2>1 DEF ProcessTypes, BusyWorkers
  <2>3. Tables' /\ NothingShrinks /\ KnownStay
    BY <1>1, <1>5, StoreStepTables
  <2> QED
    BY <1>0, <1>2, <1>3, <1>5, <2>1, <2>2, <2>3 DEF StoreInv, Tables
<1>6. ASSUME UNCHANGED replaying, NEW w \in Worker, WorkerStep(w) PROVE StoreInv'
  BY <1>0, <1>2, <1>3, <1>6, WorkerStepTables, WorkerStepTypes, WorkerStepIdentity
     DEF StoreInv, Tables
<1>7. ASSUME UNCHANGED delivery PROVE KnownStay
  BY <1>7 DEF KnownStay, Siblings
<1>8. ASSUME UNCHANGED replaying, NEW p \in Relay, RelayStep(p) PROVE StoreInv'
  BY <1>0, <1>1, <1>3, <1>7, <1>8, RelayStepKeeps, RelayStepTypes, SameRowsSameTables
     DEF StoreInv, Tables, BusyWorkers
<1>9. ASSUME UNCHANGED replaying, QueueStep PROVE StoreInv'
  BY <1>0, <1>1, <1>2, <1>3, <1>7, <1>9, QueueStepKeeps, QueueStepTypes, SameRowsSameTables
     DEF StoreInv, Tables, BusyWorkers
<1>10. CASE UNCHANGED vars
  BY <1>0, <1>1, <1>2, <1>3, <1>7, <1>10, TablesStay
     DEF StoreInv, Tables, BusyWorkers, ProcessTypes, vars
<1> QED
  BY <1>4, <1>5, <1>6, <1>8, <1>9, <1>10, DeliveryStepCases

-----------------------------------------------------------------------------
(* Workers and their claims *)

Posting(w) == worker[w].phase \in {"sending", "settling"}

\* What the steps of others leave to the workers that post, and to the rows
\* that have succeeded.
ClaimsStay ==
  /\ UNCHANGED <<worker, received>>
  /\ \A d \in Delivery :
       /\ delivery[d].status = "delivering" =>
            delivery'[d].status = "delivering" /\ delivery'[d].claim = delivery[d].claim
       /\ delivery'[d].status = "succeeded" => delivery[d].status = "succeeded"

LEMMA StoreStepClaims ==
  ASSUME Tables, StoreStep
  PROVE  ClaimsStay
<1>1. UNCHANGED <<worker, received>>
  BY DEF StoreStep, Notify, RetryComes, DisableEndpoint
<1>2. ASSUME NEW v \in Event, Notify(v), NEW d \in Delivery
      PROVE  \/ delivery'[d] = delivery[d]
             \/ delivery[d].status = "absent" /\ delivery'[d].status = "pending"
  <2>1. \E new \in SUBSET Unused : \E target :
          delivery' = [x \in Delivery |-> IF x \in new THEN NewRow(v, target[x], 0)
                                          ELSE delivery[x]]
    <3>1. PICK id \in Injection(Enabled, Unused) :
            LET target == [x \in Range(id) |-> CHOOSE e \in Enabled : id[e] = x] IN
            delivery' = [x \in Delivery |-> IF x \in Range(id) THEN NewRow(v, target[x], 0)
                                            ELSE delivery[x]]
      BY <1>2 DEF Notify
    <3>2. Range(id) \in SUBSET Unused
      BY DEF Injection, Range
    <3> QED
      BY <3>1, <3>2
  <2>2. \A x \in Unused : delivery[x].status = "absent"
    BY DEF Unused
  <2>3. \A e : NewRow(v, e, 0).status = "pending"
    BY DEF NewRow
  <2> QED
    BY <2>1, <2>2, <2>3
<1>4. ASSUME NEW e \in Delivery, RetryComes(e), NEW d \in Delivery
      PROVE  delivery'[d].status = delivery[d].status /\ delivery'[d].claim = delivery[d].claim
  BY <1>4 DEF RetryComes, Tables, TableTypes, Row
<1>5. ASSUME NEW e \in Endpoint, DisableEndpoint(e) PROVE UNCHANGED delivery
  BY <1>5 DEF DisableEndpoint
<1>6. ASSUME NEW d \in Delivery
      PROVE  \/ delivery'[d] = delivery[d]
             \/ delivery[d].status = "absent" /\ delivery'[d].status = "pending"
             \/ delivery'[d].status = delivery[d].status /\ delivery'[d].claim = delivery[d].claim
  BY <1>2, <1>4, <1>5, <1>6 DEF StoreStep
<1> QED
  BY <1>1, <1>6 DEF ClaimsStay

LEMMA ReplayStepClaims ==
  ASSUME StoreInv, NEW r \in Replayer, ReplayStep(r)
  PROVE  ClaimsStay
BY ReplayStepKeeps, ReplayStepRows DEF ClaimsStay

LEMMA ClaimsStayKept ==
  ASSUME DeliveryInv, ClaimsStay
  PROVE  SenderHoldsClaim' /\ SucceededMeansReceived' /\ AcceptedIsReceived'
<1>1. \A w \in Worker : Posting(w) => worker[w].delivery \in Delivery
  BY DEF Posting, DeliveryInv, StoreInv, BusyWorkers
<1>2. SenderHoldsClaim'
  BY <1>1 DEF ClaimsStay, DeliveryInv, SenderHoldsClaim, HoldsClaim, Posting
<1>3. SucceededMeansReceived' /\ AcceptedIsReceived'
  BY DEF ClaimsStay, DeliveryInv, SucceededMeansReceived, AcceptedIsReceived
<1> QED
  BY <1>2, <1>3

\* A worker that claims finds no one else posting.
LEMMA ClaimingClaims ==
  ASSUME DeliveryInv, NEW w \in Worker, ClaimDelivery(w)
  PROVE  SenderHoldsClaim' /\ SucceededMeansReceived' /\ AcceptedIsReceived'
<1> DEFINE d == worker[w].delivery  n == Len(attempts[d]) + 1
<1>1. /\ WebhookTypeOK /\ Tables /\ d \in Delivery /\ UNCHANGED received
  BY DEF DeliveryInv, StoreInv, BusyWorkers, ClaimDelivery, WorkerOnly
<1>2. \A x \in Worker : x # w => worker'[x] = worker[x]
  BY <1>1 DEF ClaimDelivery, WebhookTypeOK
<1>3. CASE Claim(d) /\ worker' = [worker EXCEPT ![w].phase = "sending", ![w].token = n]
  <2>1. delivery[d].status = "pending" /\ \A e \in Delivery : e # d => delivery'[e] = delivery[e]
    BY <1>1, <1>3 DEF Claim, Claimable, WebhookTypeOK
  <2>2. delivery'[d].status = "delivering" /\ delivery'[d].claim = n
    BY <1>1, <1>3, ClaimTables
  <2>3. worker'[w].phase = "sending" /\ worker'[w].delivery = d /\ worker'[w].token = n
    BY <1>1, <1>3 DEF WebhookTypeOK, WorkerState
  <2>4. \A x \in Worker : Posting(x) =>
          worker[x].delivery \in Delivery /\ delivery[worker[x].delivery].status = "delivering"
    BY DEF Posting, DeliveryInv, StoreInv, BusyWorkers, SenderHoldsClaim, HoldsClaim
  <2>5. SenderHoldsClaim'
    <3> HIDE DEF d, n
    <3>1. ASSUME NEW x \in Worker, Posting(x)', x # w
          PROVE  HoldsClaim(worker[x].delivery, worker[x].token)' /\ worker[x].delivery # d
      BY <1>2, <2>1, <2>4, <3>1 DEF Posting, DeliveryInv, SenderHoldsClaim, HoldsClaim
    <3>2. ASSUME NEW x \in Worker, NEW y \in Worker, Posting(x)', Posting(y)', x # y
          PROVE  worker'[x].delivery # worker'[y].delivery
      <4>1. CASE x # w /\ y # w
        BY <1>2, <3>2, <4>1 DEF Posting, DeliveryInv, SenderHoldsClaim
      <4>2. CASE x = w \/ y = w
        BY <1>2, <2>3, <3>1, <3>2, <4>2
      <4> QED
        BY <4>1, <4>2
    <3>3. HoldsClaim(worker[w].delivery, worker[w].token)'
      BY <2>2, <2>3 DEF HoldsClaim
    <3> QED
      BY <3>1, <3>2, <3>3 DEF SenderHoldsClaim, Posting
  <2>6. SucceededMeansReceived'
    BY <1>1, <2>1, <2>2 DEF DeliveryInv, SucceededMeansReceived
  <2>7. AcceptedIsReceived'
    BY <1>1, <1>2, <2>3 DEF DeliveryInv, AcceptedIsReceived
  <2> QED
    BY <2>5, <2>6, <2>7
<1>4. CASE UNCHANGED storeVars /\ worker' = [worker EXCEPT ![w].phase = "finishing"]
  <2>1. worker'[w].phase = "finishing" /\ UNCHANGED delivery
    BY <1>1, <1>4 DEF WebhookTypeOK, WorkerState
  <2>2. SenderHoldsClaim'
    BY <1>2, <2>1 DEF DeliveryInv, SenderHoldsClaim, HoldsClaim
  <2>3. SucceededMeansReceived' /\ AcceptedIsReceived'
    BY <1>1, <1>2, <2>1 DEF DeliveryInv, SucceededMeansReceived, AcceptedIsReceived
  <2> QED
    BY <2>2, <2>3
<1> QED
  BY <1>3, <1>4 DEF ClaimDelivery

\* A worker that settles gives up its claim, and nobody else's.
LEMMA SettlingClaims ==
  ASSUME DeliveryInv, NEW w \in Worker, SettleRetry(w) \/ SettleFinal(w)
  PROVE  SenderHoldsClaim' /\ SucceededMeansReceived' /\ AcceptedIsReceived'
<1> DEFINE d == worker[w].delivery  a == worker[w].response
<1>1. WebhookTypeOK /\ UNCHANGED received /\ worker[w].phase = "settling"
  BY DEF DeliveryInv, StoreInv, SettleRetry, SettleFinal
<1>2. d \in Delivery /\ \A x \in Worker : Posting(x) => worker[x].delivery \in Delivery
  BY <1>1 DEF Posting, DeliveryInv, StoreInv, BusyWorkers
<1>3. /\ worker'[w].phase \in {"finishing", "failing"}
      /\ \A x \in Worker : x # w => worker'[x] = worker[x]
  BY <1>1 DEF SettleRetry, SettleFinal, Then, WebhookTypeOK, WorkerState
<1>4. /\ \A e \in Delivery : e # d => delivery'[e] = delivery[e]
      /\ \/ delivery'[d] = delivery[d] \/ delivery'[d].status = "pending"
         \/ delivery'[d].status = ConclusionOf(a)
  BY <1>1, <1>2 DEF SettleRetry, SettleFinal, Reschedule, Conclude, WebhookTypeOK, Row
<1>5. \A x \in Worker : Posting(x) /\ x # w => worker[x].delivery # d
  BY <1>1 DEF DeliveryInv, SenderHoldsClaim, Posting
<1> HIDE DEF d
<1>6. SenderHoldsClaim'
  BY <1>2, <1>3, <1>4, <1>5 DEF DeliveryInv, SenderHoldsClaim, HoldsClaim, Posting
<1>7. SucceededMeansReceived'
  <2>1. delivery'[d].status = ConclusionOf(a) /\ delivery'[d].status = "succeeded" => received[d]
    BY <1>1 DEF ConclusionOf, DeliveryInv, AcceptedIsReceived, d
  <2> QED
    BY <1>1, <1>4, <2>1 DEF DeliveryInv, SucceededMeansReceived
<1>8. AcceptedIsReceived'
  BY <1>1, <1>3 DEF DeliveryInv, AcceptedIsReceived
<1> QED
  BY <1>6, <1>7, <1>8

LEMMA OtherWorkerClaims ==
  ASSUME DeliveryInv, NEW w \in Worker, WorkerStep(w),
         ~ClaimDelivery(w), ~SettleRetry(w), ~SettleFinal(w)
  PROVE  SenderHoldsClaim' /\ SucceededMeansReceived' /\ AcceptedIsReceived'
<1>1. WebhookTypeOK /\ UNCHANGED delivery
  BY DEF DeliveryInv, StoreInv, WorkerStep, TakeJob, Send, FinishJob, CancelJobs, Exit, WorkerError,
         Crash, StartShutdown, Vanish
<1>2. CASE Send(w)
  <2>1. PICK r \in Responses(w) : \E accepted \in Acceptance(r) :
          /\ worker' = [worker EXCEPT ![w].phase = "settling", ![w].response = r]
          /\ received' = [received EXCEPT ![worker[w].delivery] = @ \/ accepted]
    BY <1>2 DEF Send
  <2>2. /\ worker'[w].phase = "settling" /\ worker'[w].delivery = worker[w].delivery
        /\ worker'[w].token = worker[w].token /\ worker'[w].response = r
        /\ \A x \in Worker : x # w => worker'[x] = worker[x]
    BY <1>1, <2>1 DEF WebhookTypeOK, WorkerState
  <2>3. worker[w].phase = "sending" /\ worker[w].delivery \in Delivery
    BY <1>2 DEF Send, DeliveryInv, StoreInv, BusyWorkers
  <2>4. \A d \in Delivery : received[d] => received'[d]
    BY <1>1, <2>1 DEF WebhookTypeOK
  <2>5. r = "accepted" => received'[worker[w].delivery]
    BY <1>1, <2>1, <2>3 DEF Acceptance, WebhookTypeOK
  <2>6. SenderHoldsClaim'
    BY <1>1, <2>2, <2>3 DEF DeliveryInv, SenderHoldsClaim, HoldsClaim
  <2>7. SucceededMeansReceived'
    BY <1>1, <2>4 DEF DeliveryInv, SucceededMeansReceived
  <2>8. AcceptedIsReceived'
    BY <2>2, <2>3, <2>4, <2>5 DEF DeliveryInv, StoreInv, BusyWorkers, AcceptedIsReceived
  <2> QED
    BY <2>6, <2>7, <2>8
<1>3. CASE ~Send(w)
  <2>1. /\ UNCHANGED received
        /\ \/ worker'[w] = worker[w]
           \/ worker'[w].phase \in {"idle", "taken", "failing"}
        /\ \A x \in Worker : x # w => worker'[x] = worker[x]
    <3>1. ASSUME NEW d \in Delivery, TakeJob(w, d)
          PROVE  /\ UNCHANGED received /\ worker'[w].phase = "taken"
                 /\ \A x \in Worker : x # w => worker'[x] = worker[x]
      BY <1>1, <3>1 DEF TakeJob, WebhookTypeOK, IdleWorker
    <3>2. CASE FinishJob(w) \/ Exit(w) \/ Crash(w)
      BY <1>1, <3>2 DEF FinishJob, Exit, Crash, Vanish, WebhookTypeOK, IdleWorker
    <3>3. CASE WorkerError(w)
      BY <1>1, <3>3 DEF WorkerError, WebhookTypeOK, WorkerState
    <3>4. CASE CancelJobs(w) \/ StartShutdown(w)
      BY <3>4 DEF CancelJobs, StartShutdown
    <3> QED
      BY <1>3, <3>1, <3>2, <3>3, <3>4 DEF WorkerStep
  <2>2. SenderHoldsClaim'
    BY <1>1, <2>1 DEF DeliveryInv, SenderHoldsClaim, HoldsClaim
  <2>3. SucceededMeansReceived' /\ AcceptedIsReceived'
    BY <1>1, <2>1 DEF DeliveryInv, SucceededMeansReceived, AcceptedIsReceived
  <2> QED
    BY <2>2, <2>3
<1> QED
  BY <1>2, <1>3

LEMMA DeliveryInvStep == DeliveryInv /\ [Next]_vars => DeliveryInv'
<1> SUFFICES ASSUME DeliveryInv, [Next]_vars PROVE DeliveryInv'
  OBVIOUS
<1>1. StoreInv /\ Tables /\ StoreInv'
  BY StoreInvStep DEF DeliveryInv, StoreInv
<1>2. SenderHoldsClaim' /\ SucceededMeansReceived' /\ AcceptedIsReceived'
  <2>1. CASE StoreStep
    BY <1>1, <2>1, StoreStepClaims, ClaimsStayKept
  <2>6. ASSUME NEW r \in Replayer, ReplayStep(r) PROVE ClaimsStay
    BY <1>1, <2>6, ReplayStepClaims
  <2>2. ASSUME NEW w \in Worker, WorkerStep(w)
        PROVE  SenderHoldsClaim' /\ SucceededMeansReceived' /\ AcceptedIsReceived'
    BY <2>2, ClaimingClaims, SettlingClaims, OtherWorkerClaims
  <2>3. ASSUME NEW p \in Relay, RelayStep(p) PROVE ClaimsStay
    BY <1>1, <2>3, RelayStepKeeps DEF ClaimsStay
  <2>4. CASE QueueStep
    <3>1. ClaimsStay
      BY <1>1, <2>4, QueueStepKeeps DEF ClaimsStay
    <3> QED
      BY <3>1, ClaimsStayKept
  <2>5. CASE UNCHANGED vars
    <3>1. ClaimsStay
      BY <2>5 DEF ClaimsStay, vars
    <3> QED
      BY <3>1, ClaimsStayKept
  <2> QED
    BY <2>1, <2>2, <2>3, <2>4, <2>5, <2>6, DeliveryStepCases, ClaimsStayKept
<1> QED
  BY <1>1, <1>2 DEF DeliveryInv

LEMMA DeliveryInvInit == Init => DeliveryInv
<1> SUFFICES ASSUME Init PROVE DeliveryInv
  OBVIOUS
<1> USE DEF Init
<1>1. WebhookTypeOK
  BY RowTypes, EmptySeq, WebhookAssumption DEF WebhookTypeOK
<1>2. \A d \in Delivery : delivery[d].status = "absent" /\ delivery[d].claim = 0
                          /\ Len(attempts[d]) = 0
  BY DEF NoRow
<1>3. \A d \in Delivery : Told(d)
  BY <1>2, WebhookAssumption DEF Told
<1>4. FreeIsBlank /\ KnownEvents /\ Numbered /\ ReplayNumbersUnique /\ SucceededMeansReceived
  BY <1>2 DEF FreeIsBlank, KnownEvents, Numbered, ReplayNumbersUnique, SucceededMeansReceived
<1>5. BusyWorkers /\ BusyRelays /\ SenderHoldsClaim /\ AcceptedIsReceived
  BY DEF IdleWorker, IdleRelay, BusyWorkers, BusyRelays, SenderHoldsClaim, AcceptedIsReceived
<1>6. OpenReplays
  BY DEF NotReplaying, OpenReplays, Sources, NumbersAhead, RowsHeld
<1> QED
  BY <1>1, <1>3, <1>4, <1>5, <1>6, TypeParts DEF DeliveryInv, StoreInv, Tables

LEMMA ToldMeansMatch == Tables => AttemptsMatchStatus
<1> SUFFICES ASSUME Tables, NEW d \in Delivery
             PROVE  LET n == Len(attempts[d])
                        LastIs(o) == n > 0 /\ attempts[d][n] = o IN
                    /\ n <= MaximumAttempts
                    /\ \A k \in 1..(n - 1) : attempts[d][k] = "failed"
                    /\ (delivery[d].status = "delivering") <=> LastIs("started")
                    /\ delivery[d].claim = IF LastIs("started") THEN n ELSE 0
                    /\ (delivery[d].status = "succeeded") <=> LastIs("succeeded")
                    /\ delivery[d].status = "pending" => Len(messages[d]) = n + 1
  BY DEF AttemptsMatchStatus
<1> QED
  BY DEF Tables, Told

-----------------------------------------------------------------------------
(* The theorems *)

LEMMA DeliveryInvAlways == Spec => []DeliveryInv
BY DeliveryInvInit, DeliveryInvStep, PTL DEF Spec

\* Rows, attempts, messages and posting workers agree, for any number of
\* deliveries, workers, relays, retries and faults: no stalled, duplicated or
\* restarted job makes two workers post one delivery, and an outcome is only
\* recorded by the attempt that had it (webhooks/store/postgres.ts, claim,
\* complete, reschedule; webhooks/worker/index.ts, process).
THEOREM DeliveriesStayConsistent == Spec => []DeliveriesConsistent
<1>1. DeliveryInv => DeliveriesConsistent
  BY ToldMeansMatch DEF DeliveryInv, StoreInv, DeliveriesConsistent
<1> QED
  BY <1>1, DeliveryInvAlways, PTL

\* No replay is ever refused for its number, whoever replays what how often
\* (webhooks/store/postgres.ts, replay).
THEOREM ReplaysAreNumberedApart == Spec => []ReplayNumbersUnique
<1>1. DeliveryInv => ReplayNumbersUnique
  BY DEF DeliveryInv, StoreInv, Tables
<1> QED
  BY <1>1, DeliveryInvAlways, PTL

\* A concluded delivery stays as it is (webhooks/store/postgres.ts: every
\* update names the claim it belongs to).
THEOREM ConclusionsAreFinal == Spec => ConcludedIsFinal
<1> DEFINE Final(d) == delivery[d].status \in Concluded =>
                         delivery'[d] = delivery[d] /\ attempts'[d] = attempts[d]
<1>1. ASSUME DeliveryInv, [Next]_vars, NEW d \in Delivery PROVE Final(d)
  <2>0. StoreInv /\ Tables /\ WebhookTypeOK
    BY <1>1 DEF DeliveryInv, StoreInv
  <2>1. CASE StoreStep
    <3>1. ASSUME NEW v \in Event, Notify(v) PROVE Final(d)
      BY <3>1 DEF Notify, Injection, Range, Unused, Concluded
    <3>2. ASSUME NEW e \in Delivery, RetryComes(e) PROVE Final(d)
      BY <2>0, <3>2 DEF RetryComes, WebhookTypeOK, Concluded
    <3>3. ASSUME NEW e \in Endpoint, DisableEndpoint(e) PROVE Final(d)
      BY <3>3 DEF DisableEndpoint
    <3> QED
      BY <2>1, <3>1, <3>2, <3>3 DEF StoreStep
  <2>2. ASSUME NEW w \in Worker, WorkerStep(w) PROVE Final(d)
    <3>1. CASE ClaimDelivery(w)
      BY <2>0, <3>1 DEF ClaimDelivery, Claim, Claimable, WebhookTypeOK, Concluded
    <3>2. CASE SettleRetry(w)
      BY <2>0, <3>2 DEF SettleRetry, HoldsClaim, Reschedule, WebhookTypeOK, Concluded
    <3>3. CASE SettleFinal(w)
      BY <2>0, <3>3 DEF SettleFinal, HoldsClaim, Conclude, WebhookTypeOK, Concluded
    <3>4. CASE ~ClaimDelivery(w) /\ ~SettleRetry(w) /\ ~SettleFinal(w)
      BY <2>2, <3>4 DEF WorkerStep, TakeJob, Send, FinishJob, CancelJobs, Exit, WorkerError,
                        Crash, StartShutdown, Vanish
    <3> QED
      BY <3>1, <3>2, <3>3, <3>4
  <2>3. ASSUME NEW p \in Relay, RelayStep(p) PROVE Final(d)
    BY <2>0, <2>3, RelayStepKeeps
  <2>4. CASE QueueStep
    BY <2>0, <2>4, QueueStepKeeps
  <2>5. CASE UNCHANGED vars
    BY <2>5 DEF vars
  <2>6. ASSUME NEW r \in Replayer, ReplayStep(r) PROVE Final(d)
    BY <2>0, <2>6, ReplayStepRows DEF Concluded
  <2> QED
    BY <1>1, <2>1, <2>2, <2>3, <2>4, <2>5, <2>6, DeliveryStepCases
<1>2. DeliveryInv /\ [Next]_vars => [\A d \in Delivery : Final(d)]_vars
  BY <1>1
<1> QED
  BY <1>2, DeliveryInvAlways, PTL DEF Spec, ConcludedIsFinal
=============================================================================
