---------------------------- MODULE EmojiPlanning ----------------------------
(***************************************************************************)
(* One attempt of character-emoji (src/src/processes/character-emoji/): a  *)
(* planning session of one conversation with a model, which may search the *)
(* web once, offers a candidate, and has one chance to correct it; then    *)
(* one request to the paid image service.  The model, the search and the   *)
(* image service are external.  A candidate is a record of what the checks *)
(* tell apart: its sources, its canvas, its panels, its caption, its marks,*)
(* its scene, and the fields its schema rejects ("faults").                *)
(***************************************************************************)
EXTENDS Integers, Sequences, FiniteSets, Functions

CONSTANTS
  Brief,          \* requests: version, mode, cast, text wishes, search wish
  Candidate,      \* candidates the model may offer
  Reply,          \* replies of the search service: whether they are usable, and their entries
  LocalMaterial,  \* ids of the local cards selected for a request
  MaxModelCalls,  \* budget of requests to the model
  MaxSearchCalls, \* budget of searches
  CallsPerAnswer, \* bound on the tool calls of one answer
  Nothing

ASSUME EmojiAssumption ==
  /\ MaxModelCalls \in Nat \ {0} /\ MaxSearchCalls \in Nat
  /\ CallsPerAnswer \in Nat \ {0}
  /\ Nothing \notin {"cast_mismatch", "canvas_mismatch", "text_forbidden", "none", "auto",
                   "caption_setting_mismatch", "specified_caption_mismatch",
                   "accepted", "schema", "caption", "DEPENDENCY_FAILURE", "AGENT_FAILURE"}

VARIABLES
  brief,      \* the request
  signal,     \* "live", "deadline" (the planning budget) or "caller"
  stage,      \* where the attempt is
  pending,    \* tool calls of the last answer that have not run
  modelCalls, calls, completedSearches, failed, repairing,
  research,   \* results of the searches
  offered,    \* ids in the schema sent with the last request
  answer,     \* the last candidate
  correction, \* what the correction was about: its kind, the candidate, its paths
  planOutcome,    \* what planning ended with: None, "accepted" or a failure's code
  records,    \* observations reported, in order
  paidImage,      \* the image service: "idle", "asked", "charged" or "refused"
  emojiAttempt     \* result of the process

planVars  == <<modelCalls, calls, completedSearches, failed, repairing, research>>
emojiVars == <<brief, signal, stage, pending, planVars, offered, answer,
               correction, planOutcome, records, paidImage, emojiAttempt>>

-----------------------------------------------------------------------------
(* What a candidate must satisfy.                                          *)

Fields == {"sources", "canvas", "panels", "caption", "marks", "scene"}

(* Only fields of the picture can be corrected one by one: never the cast,  *)
(* the number of panels or the sources.                                    *)
RepairablePath == {"canvas", "caption", "scene"}

LocalIds == IF brief.version = "v1" THEN {} ELSE LocalMaterial

(* A failed search leaves nothing to cite, not even the local cards.       *)
BrokenMaterialIds == LocalIds \union UNION {r.ids : r \in research}
MaterialIds ==
  IF \E r \in research : r.status = "failed" THEN {}
  ELSE LocalIds \union UNION {r.ids : r \in research}

MaxSources == IF brief.version = "v1" THEN 1 ELSE 2
SourcesBound(c) == c.sources \subseteq MaterialIds /\ Cardinality(c.sources) <= MaxSources

(* v3 tells the two appearances of a character apart, v1 and v2 do not.    *)
CastId(m)  == IF brief.version = "v3" THEN m ELSE m[1]
CastIds    == {CastId(m) : m \in Range(brief.cast)}
ActorIds(panel) == {CastId(m) : m \in Range(panel.actors)}

MatchesCast(c) ==
  /\ \A panel \in Range(c.panels) :
       /\ Cardinality(ActorIds(panel)) = Len(panel.actors)
       /\ ActorIds(panel) \subseteq CastIds
       /\ {CastId(m) : m \in panel.speakers} \subseteq ActorIds(panel)
  /\ UNION {ActorIds(panel) : panel \in Range(c.panels)} = CastIds

(* The caption setting in force.                                           *)
Setting ==
  CASE brief.noText                                        -> "none"
    [] ~brief.noText /\ brief.setting \notin {Nothing, "auto"} -> brief.setting
    [] OTHER -> IF brief.noDialogue THEN "none" ELSE brief.setting

CaptionAsSet(c) ==
  CASE Setting = "none" -> c.caption = ""
    [] Setting = "auto" -> c.caption # ""
    [] OTHER            -> c.caption = Setting

TextForbidden(c) ==
  \/ brief.noText /\ (c.marks \/ \E p \in Range(c.panels) : p.texts)
  \/ brief.noDialogue /\ \E p \in Range(c.panels) : p.speakers # {}

(* Why a well-formed candidate is refused, or None.                        *)
ComicIssue(c) ==
  IF brief.canvas \notin {Nothing, c.canvas} THEN "canvas_mismatch"
  ELSE IF TextForbidden(c) THEN "text_forbidden" ELSE Nothing

SingleIssue(c) ==
  IF brief.noText
  THEN IF c.caption # "" \/ c.marks THEN "text_forbidden" ELSE Nothing
  ELSE IF Setting # Nothing
  THEN IF CaptionAsSet(c) THEN Nothing ELSE "caption_setting_mismatch"
  ELSE IF brief.literal \notin {Nothing, c.caption} THEN "specified_caption_mismatch"
  ELSE Nothing

BusinessIssue(c) ==
  IF ~MatchesCast(c) THEN "cast_mismatch"
  ELSE IF brief.mode = "comic" THEN ComicIssue(c) ELSE SingleIssue(c)

BrokenUnchanged(c) ==
  \A f \in {"sources", "panels", "caption", "scene"} \ correction.paths :
    c[f] = correction.of[f]
Unchanged(c) == \A f \in Fields \ correction.paths : c[f] = correction.of[f]

(* Findings of the checks, in the order they are made.                     *)
Verdict(c) ==
  IF ~c.json THEN "invalid_json"
  ELSE IF correction.kind = "schema" /\ ~Unchanged(c) THEN "repair_changed_content"
  ELSE IF ~SourcesBound(c) THEN "invalid_source"
  ELSE IF c.faults # {} THEN "invalid_schema"
  ELSE IF correction.kind = "caption" /\ ~Unchanged(c) THEN "repair_changed_content"
  ELSE IF BusinessIssue(c) # Nothing THEN "business_validation"
  ELSE "accepted"

CaptionIssue == {"caption_setting_mismatch", "specified_caption_mismatch"}

(* One correction for the whole session, and none that could rebuild the    *)
(* candidate.                                                              *)
Correctable(c) ==
  /\ ~repairing
  /\ \/ Verdict(c) = "invalid_json"
     \/ Verdict(c) = "invalid_schema" /\ c.faults \subseteq RepairablePath
     \/ Verdict(c) = "business_validation" /\ BusinessIssue(c) \in CaptionIssue

CorrectionOf(c) ==
  CASE Verdict(c) = "invalid_json"   -> [kind |-> "json", of |-> c, paths |-> Fields]
    [] Verdict(c) = "invalid_schema" -> [kind |-> "schema", of |-> c, paths |-> c.faults]
    [] OTHER                         -> [kind |-> "caption", of |-> c, paths |-> {"caption"}]

NoCorrection == [kind |-> Nothing, of |-> Nothing, paths |-> {}]

SourceClass(c) ==
  IF c.sources = {} THEN "original"
  ELSE IF c.sources \subseteq LocalIds THEN "local"
  ELSE IF c.sources \cap LocalIds = {} THEN "research" ELSE "mixed"

-----------------------------------------------------------------------------
(* Ends of the planning.                                                   *)

(* What a reply of the search service is worth: nothing, if it is no        *)
(* complete answer of a complete search; its text as one unverified entry,  *)
(* if the entries cannot be read; else its entries, of which those of       *)
(* background may not be cited.                                            *)
Usable(r) == r.ok /\ ~r.refused /\ r.complete /\ r.searched /\ r.text

FailedResearch == [status |-> "failed", ids |-> {}]

Entries(r) ==
  IF r.readable THEN r.entries ELSE {[id |-> "text", kind |-> "unverified", cited |-> FALSE]}

Citable(r) == {x \in Entries(r) : x.kind # "background"}

Research(r) ==
  IF ~Usable(r) THEN FailedResearch
  ELSE [status |-> IF \E x \in Citable(r) : x.cited THEN "usable"
                   ELSE IF Citable(r) # {} THEN "unverifiable" ELSE "insufficient",
        ids |-> {x.id : x \in Citable(r)}]

SearchAllowed == MaxSearchCalls > 0 /\ brief.asksSearch

CancellationCode == IF signal = "deadline" THEN "timeout" ELSE "cancelled"

(* An error without a code is diagnosed from the caller's signal alone.    *)
PlainCode == IF signal = "caller" THEN "cancelled" ELSE "execution"

PlanningRecord(code) ==
  [stage |-> "planning", outcome |-> IF code = "accepted" THEN "succeeded" ELSE "failed",
   modelCalls |-> modelCalls', repairs |-> repairing',
   source |-> IF code = "accepted" THEN SourceClass(answer) ELSE Nothing]
SkippedRecord == [stage |-> "search", outcome |-> "skipped"]

FailPlanning(code) ==
  /\ planOutcome' = code
  /\ stage' = "ended" /\ emojiAttempt' = "AGENT_FAILURE"
  /\ records' = Append(records, PlanningRecord(code))
  /\ UNCHANGED <<brief, signal, pending, offered, answer, correction, paidImage>>

-----------------------------------------------------------------------------
(* The session.                                                            *)

EmojiInit ==
  /\ brief \in Brief
  /\ signal = "live" /\ stage = "opening" /\ pending = 0
  /\ modelCalls = 0 /\ calls = 0 /\ completedSearches = 0
  /\ failed = FALSE /\ repairing = FALSE /\ research = {}
  /\ offered = {} /\ answer = Nothing /\ correction = NoCorrection
  /\ planOutcome = Nothing /\ records = <<>> /\ paidImage = "idle" /\ emojiAttempt = Nothing

(* The planning deadline, or the caller's signal, which also covers the     *)
(* rendering.                                                              *)
SignalFires ==
  /\ signal = "live" /\ emojiAttempt = Nothing
  /\ \/ signal' = "deadline" /\ planOutcome = Nothing
     \/ signal' = "caller"
  /\ UNCHANGED <<brief, stage, pending, planVars, offered, answer, correction,
                 planOutcome, records, paidImage, emojiAttempt>>

(* Binding the Skills, the model and the session may fail, before there is  *)
(* anything to observe.                                                    *)
OpenSession ==
  /\ stage = "opening"
  /\ \/ signal = "live" /\ stage' = "asking" /\ UNCHANGED <<planOutcome, emojiAttempt>>
     \/ stage' = "ended" /\ planOutcome' = PlainCode /\ emojiAttempt' = "AGENT_FAILURE"
  /\ UNCHANGED <<brief, signal, pending, planVars, offered, answer, correction,
                 records, paidImage>>

(* Every request carries the schema of what may be cited at that moment;    *)
(* the model's budget is counted before the request leaves.                *)
BrokenMayAsk == ~failed /\ modelCalls <= MaxModelCalls
MayAsk == ~failed /\ modelCalls < MaxModelCalls

ToolsOffered == SearchAllowed /\ ~repairing /\ calls # MaxSearchCalls

AskModel ==
  /\ stage = "asking" /\ signal = "live" /\ MayAsk
  /\ modelCalls' = modelCalls + 1
  /\ offered' = MaterialIds
  /\ stage' = "thinking"
  /\ UNCHANGED <<brief, signal, pending, calls, completedSearches, failed,
                 repairing, research, answer, correction, planOutcome, records, paidImage, emojiAttempt>>

(* Beyond the budget the request is refused; the session ends with an error *)
(* message or by raising the refusal.                                      *)
RefuseRequest ==
  /\ stage = "asking" /\ signal = "live" /\ ~MayAsk
  /\ failed' = TRUE
  /\ modelCalls' = IF failed THEN modelCalls ELSE modelCalls + 1
  /\ UNCHANGED <<calls, completedSearches, repairing, research>>
  /\ \E code \in {"model_error", "execution"} : FailPlanning(code)

ModelFails ==
  /\ stage = "thinking" /\ signal = "live"
  /\ UNCHANGED planVars
  /\ \E code \in {"model_error", "incomplete_response", "empty_response"} :
       FailPlanning(code)

(* The signal aborts the session: the prompt raises, or returns and the     *)
(* next check of the signal raises its reason.                             *)
SessionAborted ==
  /\ stage \in {"asking", "thinking", "calling", "answered"} /\ signal # "live"
  /\ UNCHANGED planVars
  /\ \E code \in {CancellationCode, PlainCode} : FailPlanning(code)

ModelCallsTool(n) ==
  /\ stage = "thinking" /\ signal = "live" /\ ToolsOffered
  /\ stage' = "calling" /\ pending' = n
  /\ UNCHANGED <<brief, signal, planVars, offered, answer, correction, planOutcome,
                 records, paidImage, emojiAttempt>>

(* A call of a tool the request did not offer is answered with an error.    *)
ModelCallsUnknownTool ==
  /\ stage = "thinking" /\ signal = "live"
  /\ stage' = "asking"
  /\ UNCHANGED <<brief, signal, pending, planVars, offered, answer, correction,
                 planOutcome, records, paidImage, emojiAttempt>>

ModelOffers(c) ==
  /\ stage = "thinking" /\ signal = "live"
  /\ stage' = "answered" /\ answer' = c
  /\ UNCHANGED <<brief, signal, pending, planVars, offered, correction, planOutcome,
                 records, paidImage, emojiAttempt>>

-----------------------------------------------------------------------------
(* The search tool: the calls of an answer run one after the other.        *)

ToolsDone ==
  /\ stage = "calling" /\ pending = 0 /\ signal = "live"
  /\ stage' = "asking"
  /\ UNCHANGED <<brief, signal, pending, planVars, offered, answer, correction,
                 planOutcome, records, paidImage, emojiAttempt>>

RefuseSearch ==
  /\ stage = "calling" /\ pending > 0 /\ signal = "live"
  /\ failed \/ repairing \/ calls = MaxSearchCalls
  /\ calls' = IF failed \/ repairing THEN calls ELSE calls + 1
  /\ failed' = TRUE /\ pending' = pending - 1
  /\ UNCHANGED <<brief, signal, stage, modelCalls, completedSearches, repairing,
                 research, offered, answer, correction, planOutcome, records, paidImage, emojiAttempt>>

StartSearch ==
  /\ stage = "calling" /\ pending > 0 /\ signal = "live"
  /\ ~failed /\ ~repairing /\ calls < MaxSearchCalls
  /\ calls' = calls + 1
  /\ stage' = "searching"
  /\ UNCHANGED <<brief, signal, pending, modelCalls, completedSearches, failed,
                 repairing, research, offered, answer, correction, planOutcome,
                 records, paidImage, emojiAttempt>>

SearchEnds(result) ==
  /\ stage = "searching" /\ signal = "live"
  /\ completedSearches' = completedSearches + 1
  /\ research' = research \union {result}
  /\ records' = Append(records, [stage |-> "search", outcome |-> result.status])
  /\ stage' = "calling" /\ pending' = pending - 1
  /\ UNCHANGED <<brief, signal, modelCalls, calls, failed, repairing, offered,
                 answer, correction, planOutcome, paidImage, emojiAttempt>>

SearchAnswers(r) == SearchEnds(Research(r))

(* A search that outlives its share of the time is a result too.           *)
SearchTimesOut == SearchEnds(FailedResearch)

SearchAborted ==
  /\ stage = "searching" /\ signal # "live"
  /\ failed' = TRUE
  /\ stage' = "calling" /\ pending' = pending - 1
  /\ UNCHANGED <<brief, signal, modelCalls, calls, completedSearches, repairing,
                 research, offered, answer, correction, planOutcome, records, paidImage, emojiAttempt>>

-----------------------------------------------------------------------------
(* The checks of an answer.                                                *)

SearchesComplete == ~failed /\ completedSearches = calls

RejectIncomplete ==
  /\ stage = "answered" /\ signal = "live" /\ ~SearchesComplete
  /\ UNCHANGED planVars
  /\ FailPlanning("execution")

Repair ==
  /\ stage = "answered" /\ signal = "live" /\ SearchesComplete /\ Correctable(answer)
  /\ repairing' = TRUE
  /\ correction' = CorrectionOf(answer)
  /\ stage' = "asking"
  /\ UNCHANGED <<brief, signal, pending, modelCalls, calls, completedSearches,
                 failed, research, offered, answer, planOutcome, records, paidImage, emojiAttempt>>

Reject ==
  /\ stage = "answered" /\ signal = "live" /\ SearchesComplete
  /\ Verdict(answer) # "accepted" /\ ~Correctable(answer)
  /\ UNCHANGED planVars
  /\ FailPlanning(Verdict(answer))

Accept ==
  /\ stage = "answered" /\ signal = "live" /\ SearchesComplete
  /\ Verdict(answer) = "accepted"
  /\ planOutcome' = "accepted" /\ stage' = "compiling"
  /\ UNCHANGED planVars
  /\ records' = records \o (IF calls = 0 THEN <<SkippedRecord>> ELSE <<>>)
                        \o <<PlanningRecord("accepted")>>
  /\ UNCHANGED <<brief, signal, pending, offered, answer, correction, paidImage, emojiAttempt>>

-----------------------------------------------------------------------------
(* The image.  The registration compiles the plan of this mode and version  *)
(* into a prompt; its own checks of the cast and of the canvas repeat those *)
(* the plan has passed.                                                    *)

CompilePrompt ==
  /\ stage = "compiling"
  /\ stage' = "planned"
  /\ UNCHANGED <<brief, signal, pending, planVars, offered, answer, correction,
                 planOutcome, records, paidImage, emojiAttempt>>

End(result) ==
  /\ emojiAttempt' = result /\ stage' = "ended"
  /\ UNCHANGED <<brief, signal, pending, planVars, offered, answer, correction,
                 planOutcome, records>>

(* An aborted attempt is settled by its runner; nothing is sent for it.    *)
GiveUp ==
  /\ stage = "planned" /\ signal = "caller"
  /\ End("aborted") /\ UNCHANGED paidImage

RequestImage ==
  /\ stage = "planned" /\ signal # "caller"
  /\ stage' = "rendering" /\ paidImage' = "asked"
  /\ UNCHANGED <<brief, signal, pending, planVars, offered, answer, correction,
                 planOutcome, records, emojiAttempt>>

(* The service charges, or refuses before it asks a provider.              *)
ServeImage ==
  /\ stage = "rendering" /\ paidImage = "asked"
  /\ paidImage' \in {"charged", "refused"}
  /\ UNCHANGED <<brief, signal, stage, pending, planVars, offered, answer,
                 correction, planOutcome, records, emojiAttempt>>

ImageArrives ==
  /\ stage = "rendering" /\ paidImage = "charged" /\ End("succeeded") /\ UNCHANGED paidImage

(* Only the service's own refusals prove that nothing was charged; a lost   *)
(* answer, a timeout or an unreadable picture does not.                    *)
BrokenImageCommitted(reply) == reply # "lost" /\ paidImage # "refused"
ImageCommitted(reply) == reply # "refusal"

ImageFails ==
  /\ stage = "rendering"
  /\ \E reply \in {"refusal", "lost", "unreadable"} :
       /\ reply = "refusal" => paidImage = "refused"
       /\ reply = "unreadable" => paidImage = "charged"
       /\ End(IF ImageCommitted(reply) THEN "DEPENDENCY_FAILURE_AFTER_COMMIT"
                                  ELSE "DEPENDENCY_FAILURE")
  /\ UNCHANGED paidImage

-----------------------------------------------------------------------------
EmojiNext ==
  \/ SignalFires \/ OpenSession \/ AskModel \/ RefuseRequest \/ ModelFails
  \/ ModelCallsUnknownTool \/ SessionAborted \/ ToolsDone \/ RefuseSearch \/ StartSearch \/ SearchTimesOut
  \/ SearchAborted
  \/ RejectIncomplete \/ Repair \/ Reject \/ Accept
  \/ CompilePrompt \/ GiveUp \/ RequestImage \/ ServeImage \/ ImageArrives \/ ImageFails
  \/ \E n \in 1..CallsPerAnswer : ModelCallsTool(n)
  \/ \E c \in Candidate : ModelOffers(c)
  \/ \E r \in Reply : SearchAnswers(r)

EmojiSpec == EmojiInit /\ [][EmojiNext]_emojiVars

-----------------------------------------------------------------------------
(* Types.                                                                  *)
AnyResearch == {Research(r) : r \in Reply} \union {FailedResearch}

EmojiTypeOK ==
  /\ brief \in Brief /\ signal \in {"live", "deadline", "caller"}
  /\ stage \in {"opening", "asking", "thinking", "calling", "searching", "answered",
                "compiling", "planned", "rendering", "ended"}
  /\ pending \in 0..CallsPerAnswer
  /\ modelCalls \in 0..(MaxModelCalls + 1) /\ calls \in 0..(MaxSearchCalls + 1)
  /\ completedSearches \in 0..MaxSearchCalls
  /\ failed \in BOOLEAN /\ repairing \in BOOLEAN
  /\ research \subseteq AnyResearch
  /\ paidImage \in {"idle", "asked", "charged", "refused"}

(* A plan that reaches the image service is one the request allows: its     *)
(* sources are among those the model was shown with its last request, none  *)
(* if a search failed, its cast is the request's, its words obey the        *)
(* request's wishes (agent.pi.ts, materials.ts, scene.ts, caption-policy).  *)
PlanIsSound ==
  paidImage # "idle" =>
    /\ answer.json /\ answer.faults = {} /\ MatchesCast(answer)
    /\ answer.sources \subseteq offered
    /\ (\E r \in research : r.status = "failed") => answer.sources = {}
    /\ brief.noText => ~answer.marks /\ (brief.mode = "single" => answer.caption = "")
    /\ brief.mode = "single" /\ Setting \notin {Nothing, "auto", "none"}
         => answer.caption = Setting

(* A corrected plan is the candidate it corrects, but for the fields found  *)
(* at fault; unreadable text has nothing to keep (correction.ts).          *)
CorrectionKeepsTheRest ==
  planOutcome = "accepted" /\ correction.kind \in {"schema", "caption"} =>
    \A f \in Fields : answer[f] # correction.of[f] => f \in correction.paths

(* The session costs at most its budgets, whatever the model asks for: the  *)
(* requests sent, the searches started, and no search after a correction or *)
(* a refused one.  The last request is the last word: what it did not       *)
(* include is not searched for (agent.pi.ts, registration.ts budget).      *)
SessionWithinBudget ==
  /\ stage \in {"thinking", "calling", "searching", "answered", "compiling"}
       => modelCalls <= MaxModelCalls
  /\ Cardinality({i \in DOMAIN records :
                    records[i].stage = "search" /\ records[i].outcome # "skipped"})
       <= MaxSearchCalls
  /\ stage = "searching" => SearchAllowed /\ ~repairing /\ correction = NoCorrection

(* What was charged is never reported as a failure that may be repeated     *)
(* freely (capability.http.ts, registration.ts).                           *)
ChargeIsReported ==
  emojiAttempt \in {"DEPENDENCY_FAILURE", "AGENT_FAILURE"} => paidImage \in {"idle", "refused"}

(* The plan that is accepted is sound, a correction does not spoil what was  *)
(* right, the session keeps its budget and a charge is reported.             *)
PlanConsistent ==
  /\ EmojiTypeOK /\ PlanIsSound /\ CorrectionKeepsTheRest
  /\ SessionWithinBudget /\ ChargeIsReported
=============================================================================
