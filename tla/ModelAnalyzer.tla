----------------------------- MODULE ModelAnalyzer -----------------------------
(***************************************************************************)
(* ModelAnalyzer.Analyze of internal/analyzer/model.go: a listing is sent  *)
(* to the language model at most MaxAttempts times, over one of two        *)
(* providers (google.go, openrouter.go); temporary provider errors and     *)
(* answers that fail the validation are tried again after a wait that the  *)
(* context can end.                                                        *)
(*                                                                         *)
(* An answer keeps what the contract is about: whether it is one complete  *)
(* JSON object of the known fields, its type and eligibility, whether its  *)
(* numbers and texts are in range, and the decision fields.                *)
(***************************************************************************)
EXTENDS Integers, Domain

CONSTANTS MaxAttempts,  \* defaultMaxAttempts
          Providers,    \* {"google", "openrouter"}
          Replies,      \* replies of the provider's server
          Answers,      \* answers in them
          NoAnswer

VARIABLES provider, titled, phase, attempts, error, answer, cancelled
vars == <<provider, titled, phase, attempts, error, answer, cancelled>>

(* analysisJSONSchema and the prompt: what the model is told to answer.    *)
SchemaTypes == {"staj", "uzun_donem_staj", "part_time", "yeni_mezun", "diger"}
InContract(a) ==
    /\ a.complete /\ a.inRange
    /\ a.type \in SchemaTypes /\ a.eligibility \in Eligibilities
    /\ a.needsDecision = (a.eligibility = "karar_bekliyor")
    /\ a.question = a.needsDecision

(* decodeAnalysis and validatePayload: what is taken.                      *)
Valid(a) ==
    /\ a.complete /\ a.inRange
    /\ a.type \in OpportunityTypes /\ a.eligibility \in Eligibilities
    /\ a.needsDecision = (a.eligibility = "karar_bekliyor")
    /\ a.needsDecision => a.question

(* The error of a reply.  Status 0 is a transport error or a timeout;      *)
(* choices counts the non-empty candidates, none in an unreadable body.    *)
OpenRouterError(reply) ==
    IF reply.status = 0 \/ reply.status \in {408, 429} \/ reply.status >= 500 THEN "temporary"
    ELSE IF reply.status \notin 200..299 THEN "permanent"
    ELSE IF reply.choices # 1 THEN "temporary" ELSE "none"

(* The same for Gemini; no call is made with a model name that has a slash.*)
GoogleError(reply) ==
    IF reply.slashed THEN "permanent"
    ELSE IF reply.status = 0 \/ reply.status \in {408, 429} \/ reply.status >= 500 THEN "temporary"
    ELSE IF reply.status \notin 200..299 THEN "permanent"
    ELSE IF reply.choices # 1 THEN "temporary" ELSE "none"

ReplyError(reply) == IF provider = "google" THEN GoogleError(reply) ELSE OpenRouterError(reply)

-------------------------------------------------------------------------------
(* Analyze starts; a listing without a title is refused.                   *)
Start ==
    /\ phase = "called"
    /\ IF titled THEN phase' = "calling" /\ attempts' = 1 /\ UNCHANGED error
       ELSE phase' = "failed" /\ error' = "untitled" /\ UNCHANGED attempts
    /\ UNCHANGED <<provider, titled, answer, cancelled>>

(* A failed attempt: wait and try again, or give up.                       *)
AttemptFails(e) ==
    /\ error' = e
    /\ phase' = IF attempts = MaxAttempts \/ e = "permanent" THEN "failed" ELSE "waiting"

(* The call fails; under a cancelled context like one that never reached   *)
(* the server, which the transport reports as a temporary error too.       *)
ProviderFails(reply) ==
    /\ phase = "calling" /\ ReplyError(reply) # "none"
    /\ AttemptFails(ReplyError(reply))
    /\ UNCHANGED <<provider, titled, attempts, answer, cancelled>>

ModelAnswers(reply, a) ==
    /\ phase = "calling" /\ ReplyError(reply) = "none"
    /\ answer' = a
    /\ IF Valid(a) THEN phase' = "done" /\ error' = "none" ELSE AttemptFails("validation")
    /\ UNCHANGED <<provider, titled, attempts, cancelled>>

(* waitForRetry: the timer fires, or the context ends.                     *)
RetryNow ==
    /\ phase = "waiting"
    /\ phase' = "calling" /\ attempts' = attempts + 1
    /\ UNCHANGED <<provider, titled, error, answer, cancelled>>

WaitCancelled ==
    /\ phase = "waiting" /\ cancelled
    /\ phase' = "failed" /\ error' = "cancelled"
    /\ UNCHANGED <<provider, titled, attempts, answer, cancelled>>

Cancel ==
    /\ ~cancelled /\ phase \notin {"done", "failed"}
    /\ cancelled' = TRUE
    /\ UNCHANGED <<provider, titled, phase, attempts, error, answer>>

Init ==
    /\ provider \in Providers /\ titled \in BOOLEAN
    /\ phase = "called" /\ attempts = 0 /\ error = "none"
    /\ answer = NoAnswer /\ cancelled = FALSE

Next ==
    \/ Start \/ RetryNow \/ WaitCancelled \/ Cancel
    \/ \E reply \in Replies : ProviderFails(reply) \/ \E a \in Answers : ModelAnswers(reply, a)

Spec == Init /\ [][Next]_vars

-------------------------------------------------------------------------------
(* README.md:450 says that the answer is asked for with a JSON Schema and  *)
(* validated by the same strict contract: no analysis fails because of an  *)
(* answer that keeps the contract.  It does not hold: the schema and the   *)
(* prompt name the type part_time, the validation part_time_ogrenci.       *)
ContractIsValidated ==
    phase = "failed" /\ error = "validation" => ~InContract(answer)

(* An analysis fails only for an untitled listing, an error of the         *)
(* provider that no repetition cures, a caller that went away within a     *)
(* wait, or after MaxAttempts attempts; what it was offered last may have  *)
(* kept the contract only with the type that schema and validation do not  *)
(* agree on, and is never an answer that the validation would have taken.  *)
FailsOnlySo ==
    phase = "failed" =>
       /\ \/ ~titled /\ attempts = 0
          \/ error = "permanent"
          \/ error = "cancelled" /\ cancelled
          \/ error \in {"temporary", "validation"} /\ attempts = MaxAttempts
       /\ error = "validation" => /\ ~Valid(answer)
                                  /\ InContract(answer) => answer.type = "part_time"
================================================================================
