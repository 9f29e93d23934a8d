--------------------------- MODULE ExtractionRun ---------------------------
(***************************************************************************)
(* Run (internal/app/extraction/run.go): one article is checked, its text  *)
(* prepared (Preprocess), the request checked, and the LLM client called   *)
(* (LlmRetry), whose answer is checked again.                              *)
(***************************************************************************)
EXTENDS Preprocess, LlmRetry

CONSTANT Articles   \* each a sequence of sections, the title first

ASSUME ArticlesAssumption == \A a \in Articles : a \in Seq(Seq(Characters)) /\ Len(a) > 0

VARIABLES
  stage,     \* "article", "request", "calling" or "returned"
  sections,  \* the article; forgotten once its text is on its way
  text,      \* ExtractInput.Text
  outcome    \* why Run returned

runVars == <<stage, sections, text, outcome>>
allVars == <<vars, runVars>>

-----------------------------------------------------------------------------
RunInit ==
  /\ Init
  /\ stage = "article"
  /\ sections \in Articles
  /\ text = <<>>
  /\ outcome = "none"

RunReturn(why) ==
  /\ stage' = "returned"
  /\ outcome' = why
  /\ sections' = <<>> /\ text' = <<>>

(* validateArticle: of the text fields, only the title is required.        *)
RejectArticle ==
  /\ stage = "article"
  /\ TrimSpace(sections[1]) = <<>>
  /\ RunReturn("invalid article")
  /\ UNCHANGED vars

(* BuildInputText and Process. *)
Prepare ==
  /\ stage = "article"
  /\ TrimSpace(sections[1]) # <<>>
  /\ text' = Process(BuildInputText(sections))
  /\ stage' = "request"
  /\ UNCHANGED <<vars, sections, outcome>>

(* ExtractInput.Validate: nothing may be left of the article.              *)
RejectRequest ==
  /\ stage = "request"
  /\ text = <<>>
  /\ RunReturn("invalid request")
  /\ UNCHANGED vars

CallExtract ==
  /\ stage = "request"
  /\ text # <<>>
  /\ stage' = "calling"
  /\ sections' = <<>> /\ text' = <<>>
  /\ born' = ctx
  /\ UNCHANGED <<pc, attempt, ctx, delay, reply, answers, waits, late, outcome>>

Extracting ==
  /\ stage = "calling"
  /\ Step
  /\ UNCHANGED runVars

(* The client's error is wrapped; its result is validated and must name    *)
(* the article ("malformed" otherwise).                                    *)
ExtractDone ==
  /\ stage = "calling"
  /\ pc = "returned"
  /\ RunReturn(IF reply = "ok" THEN "extracted" ELSE "failed")
  /\ UNCHANGED vars

CallerCancels ==
  /\ stage # "returned"
  /\ Cancel
  /\ UNCHANGED runVars

RunStep == RejectArticle \/ Prepare \/ RejectRequest \/ CallExtract \/ Extracting \/ ExtractDone

RunNext == RunStep \/ CallerCancels

RunSpec == RunInit /\ [][RunNext]_allVars

\* Requests end, by the client's timeout at the latest, and timers fire.
FairRunSpec == RunSpec /\ WF_allVars(Extracting \/ ExtractDone)

-----------------------------------------------------------------------------
(* Properties                                                              *)

\* out is all of the text, or a head and a tail of it around the joiner, if that is
\* not too long for a text around it.
HeadAndTail(full, out) ==
  /\ Len(out) <= MaxTotalChars
  /\ \/ out = full
     \/ available <= 0 /\ out = SubSeq(full, 1, MaxTotalChars)
     \/ /\ Len(full) > MaxTotalChars
        /\ Len(out) >= MaxTotalChars - 2 * SentenceCutTolerance - 2
        /\ \E h \in 0..available :
             LET t == Len(out) - h - Len(HeadTailJoiner) IN
             /\ t >= 0 /\ h + t <= Len(full)
             /\ out = SubSeq(full, 1, h) \o HeadTailJoiner
                        \o SubSeq(full, Len(full) - t + 1, Len(full))

\* The text that the LLM is sent fits, and is the cleaned article or a head and a
\* tail of it around the joiner: no character is sent twice, none out of order,
\* and hardly less than what fits, wherever sentence ends are found.
InputIsHeadAndTail ==
  stage = "request" => HeadAndTail(Cleaned(BuildInputText(sections)), text)

\* A text that need not be cut consists of exactly the sentences that were kept,
\* in their order: putting them together neither merges nor splits any, and moves
\* no boilerplate back in.
SentencesSurvive ==
  stage = "request" =>
    LET source == BuildInputText(sections) IN
    Len(Cleaned(source)) <= MaxTotalChars => SplitFragments(text) = KeptFragments(source)

\* Once the client has been called, Run returns.
RunReturns == stage = "calling" ~> stage = "returned"
=============================================================================
