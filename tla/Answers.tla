------------------------------- MODULE Answers -------------------------------
(* What a card looks like and what an answer to it becomes: the two hosts' *)
(* halves, pending.go for the operator's page and approval.go for the app, *)
(* and the guest's reading of the body they author (normalise).            *)
(*                                                                         *)
(* An ask is a gated tool call, kind "approval", or a question of the kind *)
(* its ask_human declared, "" if it declared none.  A body is a record of  *)
(* its decision, its answer ("" when it has none) and whether its scope is *)
(* batch.  The texts of labels, prompts and reasons are left out.          *)
EXTENDS Naturals, Sequences, FiniteSets

CONSTANTS Offers,    \* the options of a choice
          Typed     \* what a person, or a broken client, may type

ASSUME AnswersAssumption == "" \notin Offers \union Typed

QuestionKinds == {"confirm", "choice", "handoff", "connect", "text"}
AskKinds == QuestionKinds \union {"approval"}
Verdicts == {"approved", "denied"}

NoBody == [decision |-> "none", answer |-> "", batch |-> FALSE]
Deciding(d) == [decision |-> d, answer |-> "", batch |-> FALSE]
Answering(a) == [decision |-> "", answer |-> a, batch |-> FALSE]

-----------------------------------------------------------------------------
(* The operator's page.                                                    *)

\* uiKind and questionPending: a question of no kind, or of one the page does
\* not know, is answered in words.
cardKind(kind) ==
  IF kind \in {"approval", "confirm", "choice", "handoff"} THEN kind ELSE "text"

freeText == "text"

\* What a handoff that was not done says; the agent reads it, nothing else does.
notNow == "not now"

\* The option bodies of a card, which never leave the server.
bodies(kind) ==
  CASE cardKind(kind) = "approval" ->
         [once |-> Deciding("allow"),
          batch |-> [Deciding("allow") EXCEPT !.batch = TRUE],
          deny |-> Deciding("deny")]
    [] cardKind(kind) = "confirm" -> [yes |-> Answering("yes"), no |-> Answering("no")]
    [] cardKind(kind) = "choice" -> [c \in Offers |-> Answering(c)]
    [] cardKind(kind) = "handoff" -> [done |-> Answering("done"), cancel |-> Answering(notNow)]
    [] OTHER -> [skip |-> Deciding("deny")]

\* Every button of any card, and one that none has.
Options == UNION {DOMAIN bodies(k) : k \in AskKinds} \union {freeText, "forged"}

Body_TextAnywhere(kind, option, text) ==
  IF option = freeText
  THEN IF text = "" THEN NoBody ELSE Answering(text)
  ELSE IF option \in DOMAIN bodies(kind) THEN bodies(kind)[option] ELSE NoBody

\* Pending.Body: typed words count on a text card only, and not when empty; any
\* other option must be one the server put on the card.
Body(kind, option, text) ==
  IF option = freeText
  THEN IF cardKind(kind) # "text" \/ text = "" THEN NoBody ELSE Answering(text)
  ELSE IF option \in DOMAIN bodies(kind) THEN bodies(kind)[option] ELSE NoBody

-----------------------------------------------------------------------------
(* The app.                                                                *)

wantsText == {"text", "choice"}

denyBody(kind) ==
  CASE kind = "confirm" -> Answering("no")
    [] kind \in {"handoff", "connect"} -> Answering(notNow)
    [] OTHER -> Deciding("deny")

allowBody(kind, answer) ==
  CASE kind = "approval" -> Deciding("allow")
    [] kind = "confirm" -> Answering("yes")
    [] kind \in {"handoff", "connect"} -> Answering("done")
    [] kind = "text" /\ answer # "" -> Answering(answer)
    [] kind = "choice" /\ answer \in Offers -> Answering(answer)
    [] OTHER -> NoBody

decisionBody_TextAnywhere(kind, verdict, answer) ==
  IF answer # "" THEN Answering(answer)
  ELSE CASE verdict = "denied" -> denyBody(kind)
         [] verdict = "approved" -> allowBody(kind, answer)
         [] OTHER -> NoBody

\* decisionBody: the verdict must be one of the two words, and text is refused,
\* not ignored, where the ask does not want any.
decisionBody(kind, verdict, answer) ==
  IF verdict \notin Verdicts \/ (answer # "" /\ kind \notin wantsText) THEN NoBody
  ELSE IF verdict = "denied" THEN denyBody(kind) ELSE allowBody(kind, answer)

-----------------------------------------------------------------------------
(* The guest.                                                              *)

\* normalise and applyScope: a body without a decision is consent if it carries
\* an answer; an allow of scope batch is a consent to more than one call.
normalise(body) ==
  CASE body.decision = "allow" /\ body.batch -> "batch"
    [] body.decision = "" -> IF body.answer # "" THEN "allow" ELSE "deny"
    [] OTHER -> body.decision

\* The word the app uses for the guest's decision.
verdictOf(decision) == IF decision \in {"allow", "batch"} THEN "approved" ELSE "denied"
=============================================================================
