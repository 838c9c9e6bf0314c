---------------------------- MODULE AgentService ----------------------------
(* The conversation service with its in-memory adapters, as the local agent  *)
(* service composes them in one Node process: HTTP handlers, the atomic      *)
(* store, the in-memory queue and its drain, the worker, the tool ledger and *)
(* the caller's image in the owned resource service.                         *)
(*                                                                           *)
(* Handlers interleave at their awaits.  One caller; what another caller     *)
(* sees is "not found".  The store runs each of its calls in one step.  A    *)
(* turn is started once, so only the turn at work has ledger records in use. *)
EXTENDS Naturals, FiniteSets, Sequences

CONSTANTS ServiceKey,                    \* idempotency keys of the caller
          Sent,                   \* the request bodies the caller may send
          Handler,                \* HTTP requests handled at the same time
          MaxServiceTurns,               \* Registration limit per conversation
          MaxHistoryTurns,        \* Registration limit on the context
          MaxCallsPerTurn, MaxPricedPerTurn,  \* the ledger's budgets
          ResourceFaults,         \* bound: failed calls of the resource service
          Nothing

ASSUME AgentServiceAssumption ==
    /\ IsFiniteSet(ServiceKey)
    /\ {MaxServiceTurns, MaxHistoryTurns, MaxCallsPerTurn} \subseteq Nat \ {0}
    /\ {MaxPricedPerTurn, ResourceFaults} \subseteq Nat

VARIABLES conversations,  \* the turns of each conversation, oldest first
          deleted,        \* conversations with a tombstone
          idempotency,    \* key -> the request it accepted and the turn
          image,          \* is the caller's source image still there?
          serviceFaults,         \* failed resource-service calls so far
          request,        \* what each handler is doing
          queue, closed,  \* the in-memory queue of turns
          draining, drainRequested,  \* the flags of drainSoon
          drain,          \* where the drain loop is, and its turn
          acquired,       \* images handed out and not released yet
          records,        \* the ledger's records of the turn at work
          published,      \* was a priced output registered for that turn?
          charged         \* was a priced process charged for it?

serviceStoreVars == <<conversations, deleted, idempotency>>
queueVars == <<queue, closed, draining, drainRequested>>
workVars  == <<drain, acquired, records, published, charged>>
serviceVars == <<serviceStoreVars, image, serviceFaults, request, queueVars, workVars>>

-----------------------------------------------------------------------------
(* Values *)

Conv   == 1..Cardinality(ServiceKey)
Turn   == Conv \X (1..MaxServiceTurns)
Body   == [op : {"open"}, conv : {0}, after : {0}, image : BOOLEAN]
             \cup [op : {"continue"}, conv : Conv, after : 1..MaxServiceTurns,
                   image : BOOLEAN]
ASSUME SentAssumption == Sent \subseteq Body

StoredTurn == [key : ServiceKey, image : BOOLEAN,
               status : {"queued", "running", "succeeded", "failed"},
               output : {Nothing, "text", "image"}]
StoredConversation == Seq(StoredTurn)
IdempotencyRecord == [body : Body, turn : Turn]
ToolRecord == [effect : {"free", "priced"},
               status : {"succeeded", "failed", "after_commit"}]

Active == {"queued", "running"}
Source == <<0, 0>>              \* the caller's image, beside those of turns
Codes  == {"AGENT_FAILURE", "RESOURCE_UNAVAILABLE", "INVALID_OUTPUT",
           "DEPENDENCY_FAILURE_AFTER_COMMIT"}
Idle        == [at |-> "idle"]
Failed(c)   == [status |-> "failed", code |-> c, output |-> Nothing]
Succeeded(o) == [status |-> "succeeded", code |-> Nothing, output |-> o]

AnswerCode == {"ACCEPTED", "IDEMPOTENCY_CONFLICT", "CONVERSATION_NOT_FOUND",
               "CONVERSATION_BUSY", "CONVERSATION_SEQUENCE_CONFLICT",
               "CONVERSATION_TURN_LIMIT_REACHED"}
Accepted(t) == [code |-> "ACCEPTED", turn |-> t]
Refused(c)  == [code |-> c, turn |-> Nothing]

(* What it stands for is none of the values it stands beside. *)
ASSUME NothingAssumption ==
    /\ Nothing \notin IdempotencyRecord
    /\ Nothing \notin [code : AnswerCode, turn : Turn \cup {Nothing}]
    /\ Nothing \notin {"text", "image"}
    /\ Nothing \notin Codes

Known(c)      == conversations[c] # <<>>
TurnOf(t)     == conversations[t[1]][t[2]]
Exists(t)     == t[2] <= Len(conversations[t[1]])
Busy(c)       == \E i \in DOMAIN conversations[c] :
                    conversations[c][i].status \in Active
Unused        == {c \in Conv : ~Known(c) /\ c \notin deleted}
FreshConversation == CHOOSE c \in Unused : \A d \in Unused : c <= d

-----------------------------------------------------------------------------
(* The store (store.ts): each call is one step *)

NewTurn(b, k) == [key |-> k, image |-> b.image, status |-> "queued",
                  output |-> Nothing]

BrokenReplay(b, k) ==
    IF idempotency[k] = Nothing \/ idempotency[k].body # b THEN Nothing
    ELSE Accepted(idempotency[k].turn)

(* replayFor: None when the key is new, otherwise the answer it gets. *)
Replay(b, k) ==
    CASE idempotency[k] = Nothing -> Nothing
      [] idempotency[k] # Nothing /\ idempotency[k].body # b ->
            Refused("IDEMPOTENCY_CONFLICT")
      [] OTHER -> IF Exists(idempotency[k].turn) THEN Accepted(idempotency[k].turn)
                  ELSE Refused("CONVERSATION_NOT_FOUND")

(* What acceptTurn answers without writing, None when it accepts. *)
Refusal(b) ==
    CASE b.op = "open" -> Nothing
      [] ~Known(b.conv) -> Refused("CONVERSATION_NOT_FOUND")
      [] Busy(b.conv)   -> Refused("CONVERSATION_BUSY")
      [] Len(conversations[b.conv]) # b.after ->
            Refused("CONVERSATION_SEQUENCE_CONFLICT")
      [] Len(conversations[b.conv]) >= MaxServiceTurns ->
            Refused("CONVERSATION_TURN_LIMIT_REACHED")
      [] OTHER -> Nothing

StoreAccepted(b, k, t) ==
    /\ conversations' = [conversations EXCEPT ![t[1]] =
                            Append(@, NewTurn(b, k))]
    /\ idempotency' = [idempotency EXCEPT ![k] = [body |-> b, turn |-> t]]

SetTurn(t, outcome) ==
    conversations' = [conversations EXCEPT ![t[1]][t[2]] =
        [@ EXCEPT !.status = outcome.status, !.output = outcome.output]]

(* deleteOwned, or the expiry that any read of the conversation notices.     *)
(* The tombstone keeps the idempotency records.                              *)
Forget(c) ==
    /\ Known(c)
    /\ conversations' = [conversations EXCEPT ![c] = <<>>]
    /\ deleted' = deleted \cup {c}
    /\ UNCHANGED <<idempotency, image, serviceFaults, request, queueVars, workVars>>

-----------------------------------------------------------------------------
(* The resource service *)

(* A call of the service finds the image, does not, or fails (throws). *)
Inspect(answer) ==
    \/ answer = (IF image THEN "found" ELSE "missing") /\ UNCHANGED serviceFaults
    \/ answer = "throws" /\ serviceFaults < ResourceFaults /\ serviceFaults' = serviceFaults + 1

(* The caller's source is removed; images are never changed in place. *)
SourceRemoved ==
    /\ image
    /\ image' = FALSE
    /\ UNCHANGED <<serviceStoreVars, serviceFaults, request, queueVars, workVars>>

-----------------------------------------------------------------------------
(* The handlers of POST /agent-conversations and .../turns.  A response      *)
(* leaves with the step that settles it; a refused request leaves nothing.   *)

(* Up to the store call: continue looks the conversation up, the             *)
(* registration accepts the shape, and resolveContent asks the resource      *)
(* service about the image, before any record of the key is looked at.       *)
Resolved(b) == b.image => image

Receive(h, k, b) ==
    /\ request[h] = Idle
    /\ Resolved(b)
    /\ request' = [request EXCEPT ![h] = [at |-> "storing", key |-> k, body |-> b]]
    /\ UNCHANGED <<serviceStoreVars, image, serviceFaults, queueVars, workVars>>

Open(h, k, b)     == b.op = "open" /\ Receive(h, k, b)
Continue(h, k, b) == b.op = "continue" /\ Known(b.conv) /\ Receive(h, k, b)

(* The resource service fails: 503, the caller may come again. *)
ReceiveFails(h, b) ==
    /\ request[h] = Idle
    /\ b.image
    /\ serviceFaults < ResourceFaults
    /\ serviceFaults' = serviceFaults + 1
    /\ UNCHANGED <<serviceStoreVars, image, request, queueVars, workVars>>

(* The turn the accepted request becomes. *)
Rank(b) == IF b.op = "open" THEN <<FreshConversation, 1>>
           ELSE <<b.conv, Len(conversations[b.conv]) + 1>>

(* What the store answers to a request; None when it becomes a new turn: a   *)
(* known key is answered before anything else.                               *)
StoreAnswer(b, k) == IF Replay(b, k) # Nothing THEN Replay(b, k) ELSE Refusal(b)

(* accept / acceptTurn; a new turn still has to be enqueued. *)
Store(h) ==
    /\ request[h].at = "storing"
    /\ LET k == request[h].key
           b == request[h].body
       IN  IF StoreAnswer(b, k) # Nothing
           THEN /\ request' = [request EXCEPT ![h] = Idle]
                /\ UNCHANGED <<conversations, idempotency>>
           ELSE /\ StoreAccepted(b, k, Rank(b))
                /\ request' = [request EXCEPT ![h] =
                      [at |-> "enqueuing", turn |-> Rank(b)]]
    /\ UNCHANGED <<deleted, image, serviceFaults, queueVars, workVars>>

(* source.enqueue: a closed queue throws, which the route answers with 503   *)
(* although the turn is stored.                                              *)
Enqueue(h) ==
    /\ request[h].at = "enqueuing"
    /\ IF closed
       THEN /\ request' = [request EXCEPT ![h] = Idle]
            /\ UNCHANGED queue
       ELSE /\ queue' = Append(queue, request[h].turn)
            /\ request' = [request EXCEPT ![h] = [at |-> "waking"]]
    /\ UNCHANGED <<serviceStoreVars, image, serviceFaults, closed, draining, drainRequested,
                   workVars>>

BrokenDrainSoon ==
    /\ UNCHANGED drainRequested
    /\ IF closed \/ draining THEN UNCHANGED <<draining, drain>>
       ELSE draining' = TRUE /\ drain' = [at |-> "taking"]

(* drainSoon: note the request; start the loop unless it runs already. *)
DrainSoon ==
    /\ drainRequested' = TRUE
    /\ IF closed \/ draining THEN UNCHANGED <<draining, drain>>
       ELSE draining' = TRUE /\ drain' = [at |-> "asking"]

Wake(h) ==
    /\ request[h].at = "waking"
    /\ DrainSoon
    /\ request' = [request EXCEPT ![h] = Idle]
    /\ UNCHANGED <<serviceStoreVars, image, serviceFaults, queue, closed, acquired, records,
                   published, charged>>

(* queue.close of the local service. *)
Close ==
    /\ ~closed
    /\ closed' = TRUE
    /\ UNCHANGED <<serviceStoreVars, image, serviceFaults, request, queue, draining,
                   drainRequested, workVars>>

-----------------------------------------------------------------------------
(* The drain: while (takeRequest()) while (drainOne() is not empty); then    *)
(* the finally clause.                                                       *)

TakeRequest ==
    /\ drain.at = "asking"
    /\ drainRequested' = FALSE
    /\ drain' = [at |-> IF drainRequested THEN "taking" ELSE "leaving"]
    /\ UNCHANGED <<serviceStoreVars, image, serviceFaults, request, queue, closed, draining,
                   acquired, records, published, charged>>

BrokenLeaveDrain ==
    /\ drain.at = "leaving"
    /\ draining' = FALSE /\ drain' = Idle
    /\ UNCHANGED <<drainRequested, serviceStoreVars, image, serviceFaults, request, queue,
                   closed, acquired, records, published, charged>>

LeaveDrain ==
    /\ drain.at = "leaving"
    /\ IF drainRequested /\ ~closed
       THEN draining' = TRUE /\ drain' = [at |-> "asking"]
       ELSE draining' = FALSE /\ drain' = Idle
    /\ UNCHANGED <<drainRequested, serviceStoreVars, image, serviceFaults, request, queue,
                   closed, acquired, records, published, charged>>

(* The succeeded turns the context shows: the last MaxHistoryTurns of them. *)
History(t) ==
    LET done == {i \in 1..(t[2] - 1) :
                    conversations[t[1]][i].status = "succeeded"}
    IN  {i \in done : Cardinality({j \in done : j >= i}) <= MaxHistoryTurns}

(* imageResources: the images of the input and of the history. *)
Wanted(t) ==
    {Source : i \in {i \in {t[2]} \cup History(t) :
                          conversations[t[1]][i].image}}
    \cup {<<t[1], i>> : i \in {i \in History(t) :
                          conversations[t[1]][i].output = "image"}}

(* drainOne: take() and the store's start.  A turn that is gone is ignored. *)
AgentTakesTurn ==
    /\ drain.at = "taking"
    /\ IF queue = <<>>
       THEN /\ drain' = [at |-> "asking"]
            /\ UNCHANGED <<conversations, queue>>
       ELSE LET t == Head(queue) IN
            /\ queue' = Tail(queue)
            /\ IF Exists(t) /\ TurnOf(t).status = "queued"
               THEN /\ conversations' =
                          [conversations EXCEPT ![t[1]][t[2]].status = "running"]
                    /\ drain' = [at |-> "acquiring", turn |-> t,
                                 wanted |-> Wanted(t)]
               ELSE UNCHANGED <<conversations, drain>>
    /\ UNCHANGED <<deleted, idempotency, image, serviceFaults, request, closed,
                   draining, drainRequested, acquired, records, published,
                   charged>>

-----------------------------------------------------------------------------
(* executeAgentTurn *)

PricedRecord(r) == r.effect = "priced"

BrokenProtectPricedCommit(outcome) ==
    IF outcome.status = "failed"
       /\ \E i \in DOMAIN records : PricedRecord(records[i])
                                     /\ records[i].status = "succeeded"
    THEN Failed("DEPENDENCY_FAILURE_AFTER_COMMIT") ELSE outcome

ProtectPricedCommit(outcome) ==
    IF outcome.status = "failed"
       /\ \E i \in DOMAIN records :
             /\ PricedRecord(records[i])
             /\ records[i].status \in {"succeeded", "after_commit"}
    THEN Failed("DEPENDENCY_FAILURE_AFTER_COMMIT") ELSE outcome

BrokenFinishTurn(outcome) ==
    /\ drain' = [at |-> "completing", turn |-> drain.turn,
                 outcome |-> ProtectPricedCommit(outcome)]
    /\ acquired' = IF outcome.code = "RESOURCE_UNAVAILABLE" THEN acquired
                   ELSE {}

(* The completion, with the finally clause that releases every image. *)
FinishTurn(outcome) ==
    /\ drain' = [at |-> "completing", turn |-> drain.turn,
                 outcome |-> ProtectPricedCommit(outcome)]
    /\ acquired' = {}

(* One image after the other; the first that is not there ends the turn.    *)
(* Images that a turn produced stay in the resource service.                *)
Acquire ==
    /\ drain.at = "acquiring"
    /\ IF drain.wanted = {}
       THEN /\ drain' = [at |-> "responding", turn |-> drain.turn]
            /\ UNCHANGED <<serviceFaults, acquired>>
       ELSE \E w \in drain.wanted, found \in {"found", "missing", "throws"} :
              /\ IF w = Source THEN Inspect(found)
                 ELSE \/ found = "found" /\ UNCHANGED serviceFaults
                      \/ /\ found = "throws" /\ serviceFaults < ResourceFaults
                         /\ serviceFaults' = serviceFaults + 1
              /\ IF found = "found"
                 THEN /\ drain' = [drain EXCEPT !.wanted = @ \ {w}]
                      /\ acquired' = acquired \cup {w}
                 ELSE FinishTurn(Failed("RESOURCE_UNAVAILABLE"))
    /\ UNCHANGED <<serviceStoreVars, image, request, queueVars, records, published,
                   charged>>

(* The budgets of the in-memory ledger; a refused call changes nothing. *)
Allowed(effect) ==
    /\ Len(records) < MaxCallsPerTurn
    /\ effect = "priced" =>
         Cardinality({i \in DOMAIN records : PricedRecord(records[i])})
            < MaxPricedPerTurn

(* execute(): the ledger invokes and records, then a priced result is        *)
(* registered with the resource service; if that throws the tool fails but   *)
(* its record stays.                                                         *)
CallTool ==
    /\ drain.at = "responding"
    /\ \E effect \in {"free", "priced"},
          status \in {"succeeded", "failed", "after_commit"} :
         /\ Allowed(effect)
         /\ effect = "free" => status # "after_commit"
         /\ records' = Append(records, [effect |-> effect, status |-> status])
         /\ charged' = (charged \/ (effect = "priced" /\ status # "failed"))
         /\ IF effect = "priced" /\ status = "succeeded"
            THEN \/ published' = TRUE /\ UNCHANGED serviceFaults
                 \/ /\ serviceFaults < ResourceFaults
                    /\ serviceFaults' = serviceFaults + 1
                    /\ UNCHANGED published
            ELSE UNCHANGED <<published, serviceFaults>>
    /\ UNCHANGED <<serviceStoreVars, image, request, queueVars, drain, acquired>>

(* isAgentOutputDerivedFromTools: text must come from a successful call. *)
Derived(draft) ==
    draft = "text" => \E i \in DOMAIN records : records[i].status = "succeeded"

BrokenProven == charged

(* inspectOutput: an image is this turn's only if it was registered for it. *)
Proven == published

(* run() and resolveAgentTurnCompletion: the agent throws, answers something *)
(* invalid, text, or an image.                                               *)
Respond ==
    /\ drain.at = "responding"
    /\ \E draft \in {"throws", "invalid", "text", "image"} :
         \/ /\ FinishTurn(
                 CASE draft = "throws" -> Failed("AGENT_FAILURE")
                   [] draft = "invalid" \/ ~Derived(draft) ->
                         Failed("INVALID_OUTPUT")
                   [] draft = "image" /\ ~Proven ->
                         Failed("INVALID_OUTPUT")
                   [] OTHER -> Succeeded(draft))
            /\ UNCHANGED serviceFaults
         \/ /\ draft = "image"
            /\ serviceFaults < ResourceFaults
            /\ serviceFaults' = serviceFaults + 1
            /\ FinishTurn(Failed("RESOURCE_UNAVAILABLE"))
    /\ UNCHANGED <<serviceStoreVars, image, request, queueVars, records, published,
                   charged>>

(* store.complete: nothing happens to a turn that was deleted meanwhile. *)
Complete ==
    /\ drain.at = "completing"
    /\ IF Exists(drain.turn) /\ TurnOf(drain.turn).status = "running"
       THEN SetTurn(drain.turn, drain.outcome)
       ELSE UNCHANGED conversations
    /\ drain' = [at |-> "taking"]
    /\ records' = <<>>
    /\ published' = FALSE
    /\ charged' = FALSE
    /\ UNCHANGED <<deleted, idempotency, image, serviceFaults, request, queueVars,
                   acquired>>

-----------------------------------------------------------------------------
AgentServiceInit ==
    /\ conversations = [c \in Conv |-> <<>>]
    /\ deleted = {}
    /\ idempotency = [k \in ServiceKey |-> Nothing]
    /\ image = TRUE
    /\ serviceFaults = 0
    /\ request = [h \in Handler |-> Idle]
    /\ queue = <<>>
    /\ closed = FALSE
    /\ draining = FALSE
    /\ drainRequested = FALSE
    /\ drain = Idle
    /\ acquired = {}
    /\ records = <<>>
    /\ published = FALSE
    /\ charged = FALSE

Work == TakeRequest \/ LeaveDrain \/ AgentTakesTurn \/ Acquire \/ CallTool \/ Respond
          \/ Complete

Handle(h) == Store(h) \/ Enqueue(h) \/ Wake(h)

AgentServiceNext ==
    \/ \E h \in Handler, k \in ServiceKey, b \in Sent :
          Open(h, k, b) \/ Continue(h, k, b)
    \/ \E h \in Handler, b \in Sent : ReceiveFails(h, b)
    \/ \E h \in Handler : Handle(h)
    \/ \E c \in Conv : Forget(c)
    \/ SourceRemoved
    \/ Close
    \/ Work

AgentServiceSpec == AgentServiceInit /\ [][AgentServiceNext]_serviceVars

-----------------------------------------------------------------------------
AgentServiceTypeOK ==
    /\ \A c \in Conv : conversations[c] \in StoredConversation
    /\ deleted \subseteq Conv
    /\ \A k \in ServiceKey : idempotency[k] # Nothing =>
          idempotency[k] \in IdempotencyRecord
    /\ image \in BOOLEAN /\ closed \in BOOLEAN
    /\ draining \in BOOLEAN /\ drainRequested \in BOOLEAN
    /\ serviceFaults \in 0..ResourceFaults
    /\ \A h \in Handler : request[h].at \in
          {"idle", "storing", "enqueuing", "waking"}
    /\ queue \in Seq(Turn)
    /\ drain.at \in {"idle", "asking", "leaving", "taking", "acquiring",
                     "responding", "completing"}
    /\ drain.at = "completing" => drain.outcome.code \in Codes \cup {Nothing}
    /\ records \in Seq(ToolRecord)
    /\ published \in BOOLEAN /\ charged \in BOOLEAN

(* A key has one turn at most, whatever requests with it are handled at the  *)
(* same time, and a repetition of its request that reaches the store gets    *)
(* that turn (index.ts:179-341, replayFor in store.ts:490).                  *)
OneTurnPerKey ==
    \A t \in Turn : Exists(t) =>
        /\ \A u \in Turn : Exists(u) /\ TurnOf(t).key = TurnOf(u).key => t = u
        /\ LET kept == idempotency[TurnOf(t).key] IN
           kept # Nothing /\ StoreAnswer(kept.body, TurnOf(t).key) = Accepted(t)

(* The drain never sleeps on a queued turn: when no drain runs and none is   *)
(* about to be asked for, an open queue is empty (local-agent.ts:66-100, the *)
(* two flags of drainSoon).                                                  *)
SleepsOnlyWhenDrained ==
    ~draining /\ ~closed /\ (\A h \in Handler : request[h].at # "waking")
       => queue = <<>>

(* Between two turns the worker holds no image, whichever way the last turn  *)
(* ended (the finally clause at worker.ts:334).                              *)
ImagesAreReleased ==
    drain.at \notin {"acquiring", "responding"} => acquired = {}

(* A turn that fails after a priced process was charged for it says so       *)
(* (protectPricedCommit, worker.ts:415).                                     *)
ChargesAreAdmitted ==
    drain.at = "completing" /\ charged =>
        \/ drain.outcome.status = "succeeded"
        \/ drain.outcome.code = "DEPENDENCY_FAILURE_AFTER_COMMIT"

(* An image that a succeeded turn shows was registered for that turn, and    *)
(* its text comes from a call that succeeded (tools.ts:244, resource.ts:99,  *)
(* registration.ts:262).                                                     *)
OutputsAreEarned ==
    drain.at = "completing" =>
        /\ drain.outcome.output = "image" => published
        /\ drain.outcome.output = "text" =>
              \E i \in DOMAIN records : records[i].status = "succeeded"

(* The service over the in-memory adapters, at every moment: one turn per    *)
(* key, no turn slept upon, no image kept, no charge hidden, no output that  *)
(* was not earned.                                                           *)
ServiceConsistent ==
    /\ AgentServiceTypeOK /\ OneTurnPerKey /\ SleepsOnlyWhenDrained
    /\ ImagesAreReleased /\ ChargesAreAdmitted /\ OutputsAreEarned
=============================================================================
