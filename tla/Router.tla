------------------------------- MODULE Router -------------------------------
(***************************************************************************)
(* The model router of internal/model/router.go: what the environment asks *)
(* for, what is wired, and which model a task is given to.  An environment *)
(* is a record; of it the router reads mode, the text of GG_MODEL_MODE,    *)
(* key, whether GOOGLE_API_KEY is set, and reachable, whether the client   *)
(* of the Gemini API can be built.                                         *)
(***************************************************************************)

ModeGemma  == "gemma"
ModeGemini == "gemini"

\* Texts GG_MODEL_MODE may hold; "" when it is unset.
ModeTexts == {"", "gemma", "gemini", " GEMINI ", "nonsense"}

\* parseMode trims and lowers the text; what it does not know is gemma.
ParseMode(text) == IF text \in {"gemini", " GEMINI "} THEN ModeGemini ELSE ModeGemma

\* NewGemini succeeds.
NewGemini(env) == env.key /\ env.reachable

\* The router: its mode, and whether it holds a Gemini client.
NewRouter(env) ==
  LET wired == ParseMode(env.mode) = ModeGemini /\ NewGemini(env) IN
  [mode |-> IF wired THEN ModeGemini ELSE ModeGemma, gemini |-> wired]

TaskHints == [private : BOOLEAN, hard : BOOLEAN]

ReasonForcedLocal   == "forced_local"
ReasonPrivateLocal  == "private_stays_local"
ReasonHardReasoning == "hard_reasoning"

\* Mutant: hard tasks are escalated before anyone asks whether they are private.
RouteByHardness(router, hint) ==
  IF router.mode = ModeGemini /\ router.gemini /\ hint.hard
  THEN [model |-> ModeGemini, reason |-> ReasonHardReasoning]
  ELSE [model |-> ModeGemma, reason |-> ReasonForcedLocal]

Route(router, hint) ==
  LET Decision(model, reason) == [model |-> model, reason |-> reason] IN
  IF router.mode = ModeGemma \/ ~router.gemini
  THEN Decision(ModeGemma, ReasonForcedLocal)
  ELSE IF hint.private
  THEN Decision(ModeGemma, ReasonPrivateLocal)
  ELSE IF hint.hard
  THEN Decision(ModeGemini, ReasonHardReasoning)
  ELSE Decision(ModeGemma, ReasonForcedLocal)

\* Router.Default, the model of a task without hints.
Default(router) == Route(router, [private |-> FALSE, hard |-> FALSE]).model
=============================================================================
