------------------------------ MODULE LlmRetry ------------------------------
(***************************************************************************)
(* One call of the LLM client's Extract (internal/llm/client.go): requests *)
(* to the provider, which are repeated after transient failures, and the   *)
(* waits between them.  Answers, client timeouts and the cancellation of   *)
(* the caller's context come in any order.                                 *)
(*                                                                         *)
(* A duration is a signed integer of a fixed width that wraps around, as   *)
(* time.Duration does: DurationLimit stands for 2^63 nanoseconds.          *)
(***************************************************************************)
EXTENDS Integers, Sequences

CONSTANTS
  retryInitialDelay, retryMaxDelay, retryMaxAttempts,   \* set by NewClient
  Second,          \* one second as a duration
  DurationLimit,
  NamedSeconds,    \* waits a provider asks for in a Retry-After header
  NamedDelays,     \* waits it asks for by a date or in the body, already rounded
  Cancellable      \* whether the caller's context may be cancelled

ASSUME RetryAssumption ==
  /\ {retryInitialDelay, retryMaxDelay, retryMaxAttempts, Second, DurationLimit} \subseteq Nat \ {0}
  /\ NamedSeconds \subseteq 1..(DurationLimit - 1) /\ NamedDelays \subseteq Nat
  /\ Cancellable \in BOOLEAN

VARIABLES
  pc,        \* "request", "wait" or "returned"
  attempt,
  ctx,       \* "live" or "canceled"
  born,      \* ctx when the current request was started
  delay,     \* how long the client waits
  reply,     \* why Extract returned
  answers,   \* history: what came of each request
  waits,     \* history: the waits, with what the provider asked for, if anything
  late       \* history: answers handled after the cancellation

vars == <<pc, attempt, ctx, born, delay, reply, answers, waits, late>>

-----------------------------------------------------------------------------
\* "malformed": a 2xx answer that is no valid result for this article;
\* "rejected": a status that is not worth a retry; "broken": any other
\* transport error; "canceled": the transport error of a cancelled context.
Final == {"ok", "malformed", "rejected", "broken", "canceled"}

Transient == {"limited", "unavailable", "timeout"}

Answers == Final \cup Transient

Wrap(x) == ((x + DurationLimit) % (2 * DurationLimit)) - DurationLimit

Lesser(x, y) == IF x < y THEN x ELSE y

\* Mutant: the cap is applied before the jitter only.
BackoffUncapped(k) ==
  LET base == Lesser(retryMaxDelay, retryInitialDelay * 2 ^ (k - 1))
  IN {base + jitter : jitter \in 0..(base \div 5)}

\* nextBackoffDelay: doubled per attempt, up to a fifth of jitter, capped.
nextBackoffDelay(k) ==
  LET base == Lesser(retryMaxDelay, retryInitialDelay * 2 ^ (k - 1))
  IN {Lesser(retryMaxDelay, base + jitter) : jitter \in 0..(base \div 5)}

\* A wait before the request is repeated: its delay, and the time the provider
\* asked for.  A delay that is not positive ends the loop.
Unnamed == 0

\* parseRetryAfter: the seconds are positive, but their product may wrap around.
HeaderWaits == {[delay |-> Wrap(s * Second), asked |-> s * Second] : s \in NamedSeconds}

\* parseOpenAIRetryDelay: what a float beyond the range becomes is up to the
\* machine, the least or the greatest duration.  A date's time is cut to the latter.
Converted(amount) ==
  IF amount < DurationLimit THEN {amount} ELSE {-DurationLimit, DurationLimit - 1}

BodyWaits ==
  UNION {{[delay |-> d, asked |-> amount] : d \in Converted(amount)} : amount \in NamedDelays}

\* Mutant: what the provider asks for is capped as a backoff is.
AskedForCapped ==
  {[delay |-> Lesser(retryMaxDelay, wait.delay), asked |-> wait.asked] :
     wait \in HeaderWaits \cup BodyWaits}

\* The waits that a 429 answer may ask for.
AskedFor == HeaderWaits \cup BodyWaits

OfOwnChoice == {[delay |-> d, asked |-> Unnamed] : d \in nextBackoffDelay(attempt)}

NoRetry == {[delay |-> 0, asked |-> Unnamed]}

\* Mutant: the error of a cancelled context counts as a timeout.
RetryDelaysIgnoringContext(kind) ==
  CASE kind = "limited" -> AskedFor \cup OfOwnChoice
    [] kind \in {"unavailable", "timeout", "canceled"} -> OfOwnChoice
    [] OTHER -> NoRetry

\* Mutant: every answer that is not 2xx is worth a retry.
RetryDelaysOfRejected(kind) ==
  CASE kind = "limited" -> AskedFor \cup OfOwnChoice
    [] kind \in {"unavailable", "timeout", "rejected"} -> OfOwnChoice
    [] OTHER -> NoRetry

RetryDelays(kind) ==
  CASE kind = "limited" -> AskedFor \cup OfOwnChoice
    [] kind = "unavailable" \/ (kind = "timeout" /\ ctx = "live") -> OfOwnChoice
    [] OTHER -> NoRetry

\* Mutant: a request that cannot be sent is not reported.
PossibleIfSent ==
  IF born = "canceled" THEN {} ELSE IF ctx = "canceled" THEN Answers ELSE Answers \ {"canceled"}

\* What may come of the current request: one started with a context that is
\* done is not sent.
Possible ==
  IF born = "canceled" THEN {"canceled"}
  ELSE IF ctx = "canceled" THEN Answers
  ELSE Answers \ {"canceled"}

Init ==
  /\ pc = "request"
  /\ attempt = 1
  /\ ctx = "live" /\ born = "live"
  /\ delay = 0
  /\ reply = "none"
  /\ answers = <<>> /\ waits = <<>> /\ late = 0

Cancel ==
  /\ Cancellable
  /\ pc # "returned"
  /\ ctx = "live"
  /\ ctx' = "canceled"
  /\ UNCHANGED <<pc, attempt, born, delay, reply, answers, waits, late>>

Repeats(wait) == wait.delay > 0 /\ attempt < retryMaxAttempts

(* doOnce returns: the loop of doWithRetry waits or ends.                  *)
Answered(kind) ==
  /\ pc = "request"
  /\ kind \in Possible
  /\ answers' = Append(answers, kind)
  /\ late' = late + (IF ctx = "canceled" THEN 1 ELSE 0)
  /\ \E wait \in RetryDelays(kind) :
       IF Repeats(wait)
       THEN /\ pc' = "wait"
            /\ delay' = wait.delay
            /\ waits' = Append(waits, wait)
            /\ UNCHANGED reply
       ELSE /\ pc' = "returned"
            /\ reply' = kind
            /\ UNCHANGED <<delay, waits>>
  /\ UNCHANGED <<attempt, ctx, born>>

(* The timer fires.  With a context that is done, too, select may pick it. *)
Waited ==
  /\ pc = "wait"
  /\ pc' = "request"
  /\ attempt' = attempt + 1
  /\ born' = ctx
  /\ delay' = 0
  /\ UNCHANGED <<ctx, reply, answers, waits, late>>

WaitCanceled ==
  /\ pc = "wait"
  /\ ctx = "canceled"
  /\ delay > 0
  /\ pc' = "returned"
  /\ reply' = "wait canceled"
  /\ UNCHANGED <<attempt, ctx, born, delay, answers, waits, late>>

Step == (\E kind \in Answers : Answered(kind)) \/ Waited \/ WaitCanceled

Next == Step \/ Cancel

Spec == Init /\ [][Next]_vars

-----------------------------------------------------------------------------
(* Properties                                                              *)

\* Every variable has its type.
TypeOK ==
  /\ pc \in {"request", "wait", "returned"}
  /\ attempt \in 1..retryMaxAttempts
  /\ ctx \in {"live", "canceled"} /\ born \in {"live", "canceled"}
  /\ delay \in Nat
  /\ reply \in Answers \cup {"none", "wait canceled"}
  /\ answers \in Seq(Answers)
  /\ waits \in Seq([delay: Int, asked: Int])
  /\ late \in Nat

\* A request is repeated only after a transient answer, and what Extract
\* returns is the last answer: an article is not paid for twice because of an
\* answer that will not change, and a rate limit shows only if it was the last
\* word (the scheduler throttles on it).
RetriesOnlyTransient ==
  /\ \A k \in 1..(Len(answers) - 1) : answers[k] \in Transient
  /\ reply \in Answers => reply = answers[Len(answers)]

\* A request is not repeated too early: if the provider asked for a time that a
\* duration can hold, the client waits for exactly that, however far beyond its
\* own maximum; if it asked for nothing, for the doubled initial delay at least
\* and the maximum at most.  Times beyond a duration's range promise nothing but
\* a wait: the product may wrap around to a short one, see RetryAfterHonored.
WaitsRespectProvider ==
  \A k \in DOMAIN waits :
    /\ waits[k].delay > 0
    /\ IF waits[k].asked # Unnamed
       THEN /\ waits[k].delay <= waits[k].asked
            /\ waits[k].asked < DurationLimit => waits[k].delay = waits[k].asked
       ELSE /\ waits[k].delay >= Lesser(retryMaxDelay, retryInitialDelay * 2 ^ (k - 1))
            /\ waits[k].delay <= retryMaxDelay

\* What client_test.go says of the header, for any number of seconds.  It does not
\* hold: only the sign of the seconds is tested, not that of their product, and
\* a product that wraps around to a short wait is taken for what was asked.
RetryAfterHonored ==
  \A k \in DOMAIN waits : waits[k].asked # Unnamed => waits[k].delay >= waits[k].asked

\* After the caller has gone away, at most the answer under way and one failed
\* start are handled, whatever the retry budget.
CancelEndsRetries == late <= 2
=============================================================================
