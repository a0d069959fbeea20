------------------------------ MODULE ModelCalls ------------------------------
(***************************************************************************)
(* Calls of model vendors.  The four actor adapters (adapter-anthropic,    *)
(* -openai, -gemini, -grok, made by createAIActor of packages/sdk/src/     *)
(* ai.ts) ask a model once for a decision and turn its answer into a       *)
(* submission or an error; the Perplexity tool adapter asks for text and   *)
(* asks again after some failures.                                         *)
(*                                                                         *)
(* The vendors are external.  What a model answers is reduced to what the  *)
(* parsers look at; confidence is in percent.  Prompts, hashes, usage and  *)
(* citations are left out.                                                 *)
(***************************************************************************)
EXTENDS Integers, Sequences

CONSTANTS
  ModelCallers,   \* calls, each of an adapter of its own
  Signals,        \* signal ids
  NoSignal,       \* an answer without a string signalId
  NoNumber,       \* an answer without a numeric confidence
  Percents,       \* the numbers it may hold
  ModelRetries    \* config.retries of the Perplexity adapter

ASSUME ModelAssumption ==
  /\ NoSignal \notin Signals
  /\ Percents \subseteq Int
  /\ NoNumber \notin Int
  /\ ModelRetries \in Nat

VARIABLES asked   \* call -> its adapter, what it was given, and how it went

modelVars == asked

Actors == {"anthropic", "openai", "gemini", "grok"}
Adapters == Actors \cup {"perplexity"}

(* The content of an answer: no text, text that is no JSON object, or an   *)
(* object, perhaps in a code fence, with the three required fields.        *)
ModelReplies ==
  {[form |-> f, signal |-> NoSignal, reasoning |-> FALSE, confidence |-> NoNumber] :
     f \in {"empty", "broken", "array"}}
  \cup [form : {"object", "fenced"}, signal : Signals \cup {NoSignal},
        reasoning : BOOLEAN, confidence : Percents \cup {NoNumber}]

(* What becomes of one request: an abort by the timer, another rejection   *)
(* of fetch, a status, or a success whose body is no JSON, has a content   *)
(* that is no text, or is good.                                            *)
Fates ==
  {"timeout", "network", "429", "500", "503", "502", "401", "400", "garbled", "textless", "ok"}

NotAsked == [at |-> "none", adapter |-> "none", offered |-> {}, fates |-> <<>>,
             content |-> [form |-> "empty"], result |-> "none", retryable |-> FALSE]

ModelInit == asked = [c \in ModelCallers |-> NotAsked]

-----------------------------------------------------------------------------
(* validateConfig, assertProviderSdkInstalled, getAdapterFactory: a model,  *)
(* a key and the vendor's packages; the Perplexity adapter asks for a key. *)
Configured(a) == IF a \in Actors THEN {"model", "key", "library", "factory"} ELSE {"key"}

(* createAIActor, or createPerplexityAdapter; then a call with a context.  *)
Ask(c, a) ==
  /\ asked[c].at = "none"
  /\ \E given \in SUBSET Configured(a) :
       IF given = Configured(a)
       THEN \E offered \in SUBSET Signals :
              asked' = [asked EXCEPT ![c].adapter = a, ![c].at = "sent", ![c].offered = offered]
       ELSE asked' = [asked EXCEPT ![c].adapter = a, ![c].at = "done", ![c].result = "not configured"]

(* The vendor's library rejects: API_ERROR.                                *)
ActorRefused(c) ==
  /\ asked[c].at = "sent" /\ asked[c].adapter \in Actors
  /\ asked' = [asked EXCEPT ![c].at = "done", ![c].result = "API_ERROR"]

(* The library has a response for Gemini, but response.text() throws: its  *)
(* error leaves createSubmission as it is.                                 *)
GeminiHasNoText(c) ==
  /\ asked[c].at = "sent" /\ asked[c].adapter = "gemini"
  /\ asked' = [asked EXCEPT ![c].at = "done", ![c].result = "no text"]

(* A confidence is a number from 0 to 1.                                   *)

(* Mutant: the upper bound is left out.                                    *)
CertainUnbounded(content) == content.confidence # NoNumber /\ content.confidence >= 0

Certain(content) == content.confidence # NoNumber /\ content.confidence \in 0..100

(* Of a sequence of checks the first that fails decides.                   *)
FirstFailing(checks) ==
  IF \E i \in DOMAIN checks : checks[i].fails
  THEN checks[CHOOSE i \in DOMAIN checks :
                checks[i].fails /\ \A j \in 1..(i-1) : ~checks[j].fails].code
  ELSE "submitted"

Check(fails, code) == [fails |-> fails, code |-> code]

(* The parser of the Anthropic and OpenAI adapters, whose plain errors are *)
(* named here as the other parser names them.                              *)
ParseModelOutput(content, offered) ==
  FirstFailing(<<Check(content.form # "object", "PARSE_FAILED"),
                 Check(content.signal \notin offered, "INVALID_SIGNAL"),
                 Check(~content.reasoning, "PARSE_FAILED"),
                 Check(~Certain(content), "INVALID_CONFIDENCE")>>)

(* The parser of the Grok and Gemini adapters.                             *)
ParseDecision(content, offered) ==
  FirstFailing(<<Check(content.form # "object", "PARSE_FAILED"),
                 Check(content.signal \notin offered, "INVALID_SIGNAL"),
                 Check(~Certain(content), "INVALID_CONFIDENCE"),
                 Check(~content.reasoning, "PARSE_FAILED")>>)

(* buildAIActorEvidence looks at the confidence again.                     *)
WithEvidence(content, result) ==
  IF result = "submitted" /\ content.confidence \notin 0..100 THEN "EVIDENCE_REFUSED" ELSE result

Answered(c, a, content, result) ==
  /\ asked[c].at = "sent" /\ asked[c].adapter = a
  /\ asked' = [asked EXCEPT ![c].at = "done", ![c].content = content, ![c].result = result]

Anthropic(c, content) ==
  Answered(c, "anthropic", content, WithEvidence(content, ParseModelOutput(content, asked[c].offered)))

OpenAI(c, content) ==
  Answered(c, "openai", content, WithEvidence(content, ParseModelOutput(content, asked[c].offered)))

Grok(c, content) == Answered(c, "grok", content, ParseDecision(content, asked[c].offered))

(* cleanGeminiJsonResponse takes an object out of its fence.               *)
Clean(content) == [content EXCEPT !.form = IF @ = "fenced" THEN "object" ELSE @]

Gemini(c, content) == Answered(c, "gemini", content, ParseDecision(Clean(content), asked[c].offered))

-----------------------------------------------------------------------------
(* PerplexityAdapter.invoke.                                               *)

ShouldRetryStatus(fate) == fate \in {"429", "500", "503"}

RetriedAt(fate, attempt) ==
  /\ fate = "timeout" \/ ShouldRetryStatus(fate)
  /\ attempt < ModelRetries

(* What the last attempt makes of the call; an abort is 408, a rejection   *)
(* of fetch 0, and a success without a text 502.                           *)
Outcome(fate) ==
  IF fate = "ok" THEN "text" ELSE IF fate \in {"garbled", "textless"} THEN "502" ELSE fate

Retryable(fate) == fate \in {"timeout", "garbled"} \/ ShouldRetryStatus(fate)

Attempt(c, fate) ==
  /\ asked[c].at = "sent" /\ asked[c].adapter = "perplexity"
  /\ IF RetriedAt(fate, Len(asked[c].fates))
     THEN asked' = [asked EXCEPT ![c].fates = Append(@, fate)]
     ELSE asked' = [asked EXCEPT ![c] =
            [@ EXCEPT !.at = "done", !.fates = Append(asked[c].fates, fate),
                      !.result = Outcome(fate), !.retryable = Retryable(fate)]]

ModelNext ==
  \E c \in ModelCallers :
    \/ \E a \in Adapters : Ask(c, a)
    \/ ActorRefused(c)
    \/ GeminiHasNoText(c)
    \/ \E content \in ModelReplies :
         Anthropic(c, content) \/ OpenAI(c, content) \/ Grok(c, content) \/ Gemini(c, content)
    \/ \E fate \in Fates : Attempt(c, fate)

ModelSpec == ModelInit /\ [][ModelNext]_modelVars

-----------------------------------------------------------------------------

(* What LoopActorPromptContext asks a model for.                           *)
Sound(content, offered) ==
  /\ content.form \in {"object", "fenced"}
  /\ content.signal \in offered
  /\ content.reasoning
  /\ content.confidence \in Percents /\ content.confidence \in 0..100

(* The four adapters, each with its own parser and order of checks, accept *)
(* the same answers: those that name an offered signal, give a reason and  *)
(* a confidence from 0 to 1, a code fence apart; and the Perplexity        *)
(* adapter asks again only after failures that may pass, at most `retries` *)
(* times, and answers by what the last attempt brought.                    *)
ModelAnswersAreSound ==
  \A c \in ModelCallers :
    LET q == asked[c]  n == Len(q.fates) IN
    /\ (/\ q.at = "done" /\ q.adapter \in Actors
        /\ q.result \notin {"API_ERROR", "not configured", "no text"}) =>
         /\ q.result = "submitted" => Sound(q.content, q.offered)
         /\ (Sound(q.content, q.offered) /\ q.result # "submitted") =>
              q.content.form = "fenced" /\ q.adapter # "gemini"
    /\ n <= ModelRetries + 1
    /\ \A i \in 1..(n - 1) :
         q.fates[i] \notin {"ok", "garbled", "textless", "network", "400", "401", "502"}
    /\ q.result = "text" => q.fates[n] = "ok"
=============================================================================
