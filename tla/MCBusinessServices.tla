------------------------- MODULE MCBusinessServices -------------------------
(* One run of each kind: an image Process, a composed task, a template       *)
(* production, an emoji plan, an emoji picture, uploads of one picture.  The *)
(* parts share no state; those a scene leaves out stay in one initial state. *)
EXTENDS ImageService, ComposedTask, TemplateProduction, EmojiPlanning,
        EmojiImageRoutes, ObjectUpload

chibi == <<"a", "Chibi">>
girl == <<"a", "Girl">>

BriefFor(version, mode, cast, setting, noText) ==
  [version |-> version, mode |-> mode, cast |-> cast, setting |-> setting,
   noText |-> noText, noDialogue |-> FALSE, canvas |-> Nothing, literal |-> Nothing,
   asksSearch |-> TRUE]

MCBrief ==
  {BriefFor("v2", "single", <<chibi>>, "hi", FALSE),
   BriefFor("v3", "single", <<chibi, girl>>, Nothing, TRUE),
   [BriefFor("v1", "single", <<chibi>>, Nothing, FALSE) EXCEPT !.literal = "hi"],
   [BriefFor("v3", "comic", <<chibi, girl>>, Nothing, FALSE) EXCEPT !.canvas = "2:1"],
   [BriefFor("v2", "comic", <<chibi>>, Nothing, FALSE) EXCEPT !.noDialogue = TRUE,
                                                      !.asksSearch = FALSE]}

Panel(actors, speakers) == [actors |-> actors, speakers |-> speakers, texts |-> speakers # {}]
Plain == [json |-> TRUE, faults |-> {}, sources |-> {}, canvas |-> "2:1",
          panels |-> <<Panel(<<chibi>>, {})>>, caption |-> "hi", marks |-> FALSE,
          scene |-> "s"]

MCCandidate ==
  {Plain, [Plain EXCEPT !.json = FALSE],
   [Plain EXCEPT !.caption = ""], [Plain EXCEPT !.caption = "", !.marks = TRUE],
   [Plain EXCEPT !.faults = {"scene"}, !.scene = "long"],
   [Plain EXCEPT !.faults = {"panels"}],
   [Plain EXCEPT !.sources = {"card"}], [Plain EXCEPT !.sources = {"card", "web"}],
   [Plain EXCEPT !.sources = {"stray"}],
   [Plain EXCEPT !.panels = <<Panel(<<chibi, girl>>, {}), Panel(<<girl>>, {girl})>>],
   [Plain EXCEPT !.panels = <<Panel(<<chibi, girl>>, {}), Panel(<<girl>>, {girl})>>, !.canvas = "1:1"],
   [Plain EXCEPT !.panels = <<Panel(<<chibi, girl>>, {})>>, !.caption = ""],
   [Plain EXCEPT !.panels = <<Panel(<<chibi>>, {chibi}), Panel(<<chibi>>, {})>>]}

Found == [ok |-> TRUE, refused |-> FALSE, complete |-> TRUE, searched |-> TRUE,
          text |-> TRUE, readable |-> TRUE,
          entries |-> {[id |-> "web", kind |-> "community_primary", cited |-> TRUE]}]

MCReply ==
  {Found, [Found EXCEPT !.ok = FALSE], [Found EXCEPT !.readable = FALSE],
   [Found EXCEPT !.entries = {[id |-> "web", kind |-> "background", cited |-> TRUE]}]}

(* Every content has the same size and type. *)
MCShape == [x \in Bytes |-> 1]


(* A completed record, a task's result and a review stay what they are, and  *)
(* no picture is ordered for a caller who has left.                          *)
NothingIsTakenBack ==
  RecordIsFinal /\ ResultIsFinal /\ ReviewIsFinal /\ NothingOrderedTooLate

VARIABLE scene

SceneInit ==
  /\ scene \in {"image", "task", "production", "plan", "picture", "upload"}
  /\ ImageInit /\ ComposedInit /\ ProductionInit /\ EmojiInit /\ RoutesInit /\ UploadInit
  /\ (scene # "image" => process = "crt")
  /\ (scene # "plan" => brief = CHOOSE b \in MCBrief : TRUE)
  /\ (scene # "picture" => configured = {"primary"})
  /\ (scene # "upload" => object = [k \in ObjectKey |-> NoObject])

SceneNext ==
  \/ scene = "image" /\ ImageNext /\ UNCHANGED <<scene, composedVars, productionVars, emojiVars, routeVars, uploadVars>>
  \/ scene = "task" /\ ComposedNext /\ UNCHANGED <<scene, imageVars, productionVars, emojiVars, routeVars, uploadVars>>
  \/ scene = "production" /\ ProductionNext /\ UNCHANGED <<scene, imageVars, composedVars, emojiVars, routeVars, uploadVars>>
  \/ scene = "plan" /\ EmojiNext /\ UNCHANGED <<scene, imageVars, composedVars, productionVars, routeVars, uploadVars>>
  \/ scene = "picture" /\ RoutesNext /\ UNCHANGED <<scene, imageVars, composedVars, productionVars, emojiVars, uploadVars>>
  \/ scene = "upload" /\ UploadNext /\ UNCHANGED <<scene, imageVars, composedVars, productionVars, emojiVars, routeVars>>

SceneSpec == SceneInit /\ [][SceneNext]_<<scene, imageVars, composedVars, productionVars, emojiVars, routeVars, uploadVars>>
=============================================================================
