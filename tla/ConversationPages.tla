-------------------------- MODULE ConversationPages --------------------------
(***************************************************************************)
(* A caller reads a conversation page by page, and continues it with the   *)
(* last turn it was shown, while workers, another session of the same      *)
(* caller and the cleaner go on changing it.                               *)
(*                                                                         *)
(* Each of the two reads of `find` locks the conversation's row, and       *)
(* whatever changes a turn locks it as well: a page is one step.  A        *)
(* conversation past its deadline is fenced by whoever looks at it, so     *)
(* that it is gone as soon as the deadline has passed.                     *)
(***************************************************************************)
EXTENDS Integers, Sequences

CONSTANTS HistoryLimit,    \* the registration's limits.maxTurns
          RegisteredPage,  \* its limits.historyPageSize
          GlobalPage       \* globalAgentLimits.maxHistoryPageSize

ASSUME PageAssumption ==
  /\ HistoryLimit \in Nat \ {0} /\ GlobalPage \in Nat \ {0}
  /\ RegisteredPage \in 1..GlobalPage

VARIABLES
  standing,   \* "busy", "ready", or "gone": deleted or expired
  history,    \* the status of turn 1, 2, ...
  registered, \* does this deployment still know the agent's version?
  reader      \* the caller that reads, and what it was shown

pageVars == <<standing, history, registered, reader>>

Waiting == {"queued", "running"}
Over == {"succeeded", "failed"}

\* after: the cursor (0: none); seen: the turns of the pages so far;
\* existed: how many turns there were when it began; view: the last page's
\* status and lastTurnId; own: the turn it was given for its continuation.
NewReader == [at |-> "idle", after |-> 0, limit |-> 0, seen |-> <<>>, existed |-> 0,
              view |-> [standing |-> "gone", last |-> 0], own |-> 0]

\* What findAgentConversation answers if there is no such conversation; its 400
\* and 503 answers leave the reader where it was.
NotFound == [NewReader EXCEPT !.at = "lost"]

LeastOf(a, b) == IF a <= b THEN a ELSE b

-----------------------------------------------------------------------------
(* GET /agent-conversations/<id>?after=&limit=                             *)

\* What a valid query may ask for; 0: it names no limit.
AskedLimit == 0..GlobalPage

\* That is cut to what the registration allows, or to the global limit if
\* there is no registration.
PageLimit(asked) ==
  LET allowed == IF registered THEN RegisteredPage ELSE GlobalPage
  IN  IF asked = 0 THEN allowed ELSE LeastOf(asked, allowed)

\* findOwnedMetadata.  A new reading begins without a cursor; a reader whose
\* answer was lost asks again with the cursor it has.
FindMetadata(asked) ==
  LET r == IF reader.at \in {"looking", "paging"} THEN reader
           ELSE [NewReader EXCEPT !.existed = Len(history)]
  IN  /\ reader' = IF standing = "gone" THEN NotFound
                   ELSE [r EXCEPT !.at = "looking", !.limit = PageLimit(asked)]
      /\ UNCHANGED <<standing, history, registered>>

\* A turn as its row and its view show it.
Shown(i) == [turn |-> i, status |-> history[i]]

\* One row more than the page tells whether there is a next page.
RowsFrom(after, limit) ==
  [i \in 1..LeastOf(Len(history) - after, limit + 1) |-> Shown(after + i)]

PageOf(rows, limit) == SubSeq(rows, 1, LeastOf(Len(rows), limit))

BrokenNextAfter(rows, page) ==
  IF Len(rows) > Len(page) THEN rows[Len(rows)].turn ELSE 0
NextAfter(rows, page) ==
  IF Len(rows) > Len(page) THEN page[Len(page)].turn ELSE 0

\* The row's status, and the turn of the greatest sequence.
LastTurn == Len(history)
Metadata == [standing |-> standing, last |-> LastTurn]

FindPage ==
  LET rows == RowsFrom(reader.after, reader.limit)
      page == PageOf(rows, reader.limit)
      next == NextAfter(rows, page)
  IN  /\ reader.at = "looking"
      /\ reader' = IF standing = "gone" THEN NotFound
                   ELSE [reader EXCEPT !.at = IF next = 0 THEN "done" ELSE "paging",
                           !.after = next, !.seen = @ \o page, !.view = Metadata]
      /\ UNCHANGED <<standing, history, registered>>

-----------------------------------------------------------------------------
(* Everyone else                                                           *)

BrokenMayFollow(last) == standing = "ready" /\ Len(history) < HistoryLimit
\* acceptTurn: the conversation is ready and the turn named its last one.
MayFollow(last) ==
  standing = "ready" /\ Len(history) = last /\ Len(history) < HistoryLimit

AppendTurn ==
  /\ history' = Append(history, "queued")
  /\ standing' = "busy"
  /\ UNCHANGED registered

\* The reader continues after the last turn it knows of.  It is refused for
\* want of that turn, of readiness or of a registration, or for reasons this
\* module leaves out (capacity, the input), and reads again.
ReaderContinues ==
  /\ reader.at = "done"
  /\ \/ /\ registered /\ MayFollow(reader.view.last) /\ AppendTurn
        /\ reader' = [reader EXCEPT !.at = "continued", !.own = Len(history) + 1]
     \/ reader' = NewReader /\ UNCHANGED <<standing, history, registered>>

OtherContinues ==
  registered /\ MayFollow(Len(history)) /\ AppendTurn /\ UNCHANGED reader

\* Only the last turn can be waiting; claim, completeClaim, releaseClaim.
WorkOnTurn(from, to, after) ==
  /\ standing # "gone" /\ history[Len(history)] = from
  /\ history' = [history EXCEPT ![Len(history)] = to]
  /\ standing' = after
  /\ UNCHANGED <<registered, reader>>
ClaimTurn == WorkOnTurn("queued", "running", "busy")
EndTurn == \E status \in Over : WorkOnTurn("running", status, "ready")
ReleaseTurn == WorkOnTurn("running", "queued", "busy")

\* DELETE, or the deadline of an idle conversation passes.
ConversationGoes ==
  /\ standing # "gone" /\ standing' = "gone" /\ history' = <<>>
  /\ UNCHANGED <<registered, reader>>

\* A deployment without the agent's version, or with it again.
Redeploy == registered' = ~registered /\ UNCHANGED <<standing, history, reader>>

-----------------------------------------------------------------------------
PageInit ==
  /\ standing = "busy" /\ history = <<"queued">>
  /\ registered = TRUE /\ reader = NewReader

PageNext ==
  \/ \E asked \in AskedLimit : FindMetadata(asked)
  \/ FindPage \/ ReaderContinues \/ OtherContinues
  \/ ClaimTurn \/ EndTurn \/ ReleaseTurn \/ ConversationGoes \/ Redeploy

PageSpec == PageInit /\ [][PageNext]_pageVars

-----------------------------------------------------------------------------
PageTypeOK ==
  /\ standing \in {"busy", "ready", "gone"} /\ registered \in BOOLEAN
  /\ history \in Seq(Waiting \cup Over)
  /\ reader.at \in {"idle", "looking", "paging", "done", "lost", "continued"}
  /\ reader.after \in 0..HistoryLimit /\ reader.limit \in 0..GlobalPage

(* The turns of the pages come in order and without a gap, each as it stays, *)
(* except that the last turn of the last page may not be over yet            *)
(* (findOwnedPage, store.postgres.ts:233-274).                               *)
PagesLeaveNoGap ==
  /\ \A i \in DOMAIN reader.seen : reader.seen[i].turn = i
  /\ standing # "gone" => \A i \in DOMAIN reader.seen :
       reader.seen[i].status \in Over => reader.seen[i].status = history[i]
  /\ reader.at \in {"looking", "paging"} =>
       /\ reader.after = Len(reader.seen)
       /\ \A i \in DOMAIN reader.seen : reader.seen[i].status \in Over

(* Who is given no further cursor has every turn that existed when it began, *)
(* the last page names the last of them, and calls the conversation ready    *)
(* exactly if none of them is still to be worked on (findMetadata).          *)
LastPageIsTheEnd ==
  reader.at = "done" =>
    /\ Len(reader.seen) >= reader.existed /\ reader.view.last = Len(reader.seen)
    /\ (reader.view.standing = "ready") =
         (\A i \in DOMAIN reader.seen : reader.seen[i].status \in Over)

(* A continuation is accepted only from a caller that was shown every turn   *)
(* before it: it becomes the turn right after the last one shown, whatever   *)
(* other sessions do meanwhile (acceptTurn, store.postgres.ts:184-192, with  *)
(* what find answered).                                                      *)
ContinuesWhatItSaw ==
  reader.at = "continued" => reader.own = Len(reader.seen) + 1

(* A reader of a conversation that others change is shown a history: nothing *)
(* left out, nothing taken back, and nothing continued unseen.               *)
PagesAreWhole ==
  PageTypeOK /\ PagesLeaveNoGap /\ LastPageIsTheEnd /\ ContinuesWhatItSaw
=============================================================================
