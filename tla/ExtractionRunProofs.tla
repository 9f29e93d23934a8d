------------------------ MODULE ExtractionRunProofs ------------------------
(***************************************************************************)
(* What Run promises of its calls of the LLM client, for every retry       *)
(* budget, every delay a provider names, and every article; and what it    *)
(* promises of the text it sends, for every article, text budget, joiner   *)
(* and notion of noise.                                                    *)
(***************************************************************************)
EXTENDS ExtractionRun, SequenceTheorems, WellFoundedInduction, TLAPS

-----------------------------------------------------------------------------
(* Delays.                                                                 *)

\* A wait that keeps its distance, as the k-th one of a call.
Respectful(wait, k) ==
  /\ wait.delay > 0
  /\ IF wait.asked # Unnamed
     THEN /\ wait.delay <= wait.asked
          /\ wait.asked < DurationLimit => wait.delay = wait.asked
     ELSE /\ wait.delay >= Lesser(retryMaxDelay, retryInitialDelay * 2 ^ (k - 1))
          /\ wait.delay <= retryMaxDelay

Wait == [delay : Int, asked : Int]

LEMMA PowerInt ==
  ASSUME NEW k \in Nat
  PROVE  2 ^ k \in Int
OBVIOUS

\* Wrapping around keeps what is in range, and never adds to a positive duration.
LEMMA WrapShortens ==
  ASSUME NEW x \in Nat
  PROVE  /\ Wrap(x) \in Int /\ Wrap(x) <= x
         /\ x < DurationLimit => Wrap(x) = x
<1> DEFINE m == 2 * DurationLimit
           y == x + DurationLimit
<1>1. DurationLimit \in Nat \ {0} /\ m \in Nat \ {0} /\ y \in Nat
  BY RetryAssumption
<1>2. \A a \in Nat, b \in Nat \ {0} : a % b \in Nat /\ a % b <= a /\ (a < b => a % b = a)
  OBVIOUS
<1>3. y % m \in Nat /\ y % m <= y /\ (y < m => y % m = y)
  BY <1>1, <1>2
<1>4. Wrap(x) = (y % m) - DurationLimit
  BY DEF Wrap
<1> HIDE DEF m
<1>5. x < DurationLimit => y < m
  BY <1>1 DEF m
<1> QED
  BY <1>1, <1>3, <1>4, <1>5

\* What a provider asks for is not exceeded, and waited for if a duration holds it.
LEMMA AskedForKept ==
  ASSUME NEW wait \in AskedFor
  PROVE  /\ wait \in Wait /\ wait.asked \in Nat
         /\ wait.delay > 0 => wait.delay <= wait.asked
         /\ wait.asked < DurationLimit => wait.delay = wait.asked
<1>1. DurationLimit \in Nat \ {0}
  BY RetryAssumption
<1>2. CASE wait \in HeaderWaits
  <2>1. PICK s \in NamedSeconds : wait = [delay |-> Wrap(s * Second), asked |-> s * Second]
    BY <1>2 DEF HeaderWaits
  <2>2. s \in Nat /\ Second \in Nat
    BY RetryAssumption
  <2>3. s * Second \in Nat
    BY <2>2
  <2> QED
    BY <2>1, <2>3, WrapShortens DEF Wait
<1>3. CASE wait \in BodyWaits
  <2>1. PICK amount \in NamedDelays :
          wait \in {[delay |-> d, asked |-> amount] : d \in Converted(amount)}
    BY <1>3 DEF BodyWaits
  <2>2. PICK d \in Converted(amount) : wait = [delay |-> d, asked |-> amount]
    BY <2>1
  <2>3. amount \in Nat
    BY RetryAssumption
  <2>4. d \in Int /\ d <= amount /\ (amount < DurationLimit => d = amount)
    BY <1>1, <2>2, <2>3 DEF Converted
  <2> QED
    BY <2>2, <2>3, <2>4 DEF Wait
<1> QED
  BY <1>2, <1>3 DEF AskedFor

\* nextBackoffDelay is between the doubled initial delay and the maximum.
LEMMA BackoffBounded ==
  ASSUME NEW k \in Nat \ {0}, NEW d \in nextBackoffDelay(k)
  PROVE  /\ d \in Int
         /\ d >= Lesser(retryMaxDelay, retryInitialDelay * 2 ^ (k - 1))
         /\ d <= retryMaxDelay
<1> DEFINE doubled == retryInitialDelay * 2 ^ (k - 1)
           base == Lesser(retryMaxDelay, doubled)
<1>1. doubled \in Int
  BY PowerInt, k - 1 \in Nat, RetryAssumption
<1>2. base \in Int /\ base <= retryMaxDelay
  <2> HIDE DEF doubled
  <2> QED
    BY <1>1, RetryAssumption DEF Lesser
<1>3. PICK jitter \in 0..(base \div 5) : d = Lesser(retryMaxDelay, base + jitter)
  BY DEF nextBackoffDelay
<1> HIDE DEF base
<1>4. jitter \in Int /\ jitter >= 0
  BY <1>2, <1>3
<1>5. d \in Int /\ d >= base /\ d <= retryMaxDelay
  BY <1>2, <1>3, <1>4, RetryAssumption DEF Lesser
<1> QED
  BY <1>5 DEF base

\* A request is repeated only after a transient answer, and after a wait that
\* keeps its distance.
LEMMA RepeatsAreRespectful ==
  ASSUME NEW kind, attempt \in Nat \ {0},
         NEW wait \in RetryDelays(kind), Repeats(wait)
  PROVE  kind \in Transient /\ wait \in Wait /\ Respectful(wait, attempt)
<1>1. wait \in AskedFor \cup OfOwnChoice /\ kind \in Transient
  <2>1. wait \notin NoRetry
    BY DEF Repeats, NoRetry
  <2> QED
    BY <2>1 DEF RetryDelays, Transient
<1>2. CASE wait \in AskedFor
  <2>1. wait.delay > 0
    BY DEF Repeats
  <2>2. /\ wait \in Wait /\ wait.asked \in Nat
        /\ wait.delay > 0 => wait.delay <= wait.asked
        /\ wait.asked < DurationLimit => wait.delay = wait.asked
    BY <1>2, AskedForKept
  <2>3. wait.asked # Unnamed
    BY <2>1, <2>2 DEF Wait, Unnamed
  <2> QED
    BY <1>1, <2>1, <2>2, <2>3 DEF Respectful
<1>3. CASE wait \in OfOwnChoice
  <2>1. PICK d \in nextBackoffDelay(attempt) : wait = [delay |-> d, asked |-> Unnamed]
    BY <1>3 DEF OfOwnChoice
  <2>2. d > 0
    BY <2>1 DEF Repeats
  <2>3. /\ d \in Int
        /\ d >= Lesser(retryMaxDelay, retryInitialDelay * 2 ^ (attempt - 1))
        /\ d <= retryMaxDelay
    BY BackoffBounded
  <2>4. wait \in Wait
    BY <2>1, <2>3 DEF Wait, Unnamed
  <2> QED
    BY <1>1, <2>1, <2>2, <2>3, <2>4 DEF Respectful
<1> QED
  BY <1>1, <1>2, <1>3

-----------------------------------------------------------------------------
(* The inductive invariant.                                                *)

\* What a call has done so far: one answer, and but for the last one wait, per
\* attempt.
Progress ==
  /\ pc \in {"request", "wait", "returned"}
  /\ attempt \in Nat \ {0}
  /\ ctx \in {"live", "canceled"} /\ born \in {"live", "canceled"}
  /\ answers \in Seq(Answers)
  /\ waits \in Seq(Wait)
  /\ late \in Nat
  /\ pc = "request" => Len(waits) = attempt - 1 /\ reply = "none"
  /\ pc = "wait" => Len(waits) = attempt /\ reply = "none"

\* All answers but the last one of a call that has returned were transient.
Repeated ==
  /\ pc # "returned" => \A k \in 1..Len(answers) : answers[k] \in Transient
  /\ pc = "returned" => RetriesOnlyTransient

Patient == \A k \in 1..Len(waits) : Respectful(waits[k], k)

\* A request that was started under a live context is the first one that can be
\* late, and one that was not is the last.
Ending ==
  /\ ctx = "live" => late = 0 /\ born = "live"
  /\ pc = "request" => late <= 1
  /\ pc = "request" /\ born = "live" => late = 0
  /\ pc = "wait" => late <= 1
  /\ late <= 2

IInv == Progress /\ Repeated /\ Patient /\ Ending

LEMMA InitHolds == RunInit => IInv
BY DEF RunInit, Init, IInv, Progress, Repeated, Patient, Ending

LEMMA AnsweredKeeps ==
  ASSUME IInv, NEW kind \in Answers, Answered(kind)
  PROVE  IInv'
<1> USE DEF IInv
<1>1. /\ pc = "request" /\ kind \in Possible
      /\ answers' = Append(answers, kind)
      /\ late' = late + (IF ctx = "canceled" THEN 1 ELSE 0)
      /\ UNCHANGED <<attempt, ctx, born>>
  BY DEF Answered
<1>2. /\ answers' \in Seq(Answers) /\ Len(answers') = Len(answers) + 1
      /\ \A k \in 1..Len(answers) : answers'[k] = answers[k]
      /\ answers'[Len(answers')] = kind
  BY <1>1 DEF Progress
<1>3. PICK wait \in RetryDelays(kind) :
        IF Repeats(wait)
        THEN pc' = "wait" /\ delay' = wait.delay /\ waits' = Append(waits, wait) /\ UNCHANGED reply
        ELSE pc' = "returned" /\ reply' = kind /\ UNCHANGED <<delay, waits>>
  BY DEF Answered
<1>4. late' \in Nat /\ late' <= 2 /\ (ctx = "live" => late' = 0)
  BY <1>1 DEF Progress, Ending
<1>5. CASE Repeats(wait)
  <2>1. pc' = "wait" /\ waits' = Append(waits, wait) /\ reply' = reply
    BY <1>3, <1>5
  <2>2. kind \in Transient /\ wait \in Wait /\ Respectful(wait, attempt)
    BY <1>5, RepeatsAreRespectful DEF Progress
  <2>3. /\ waits' \in Seq(Wait) /\ Len(waits') = Len(waits) + 1
        /\ \A k \in 1..Len(waits) : waits'[k] = waits[k]
        /\ waits'[Len(waits')] = wait
    BY <2>1, <2>2 DEF Progress
  <2>4. Progress'
    BY <1>1, <1>2, <1>4, <2>1, <2>3 DEF Progress
  <2>5. Repeated'
    BY <1>1, <1>2, <2>1, <2>2 DEF Progress, Repeated
  <2>6. \A k \in 1..Len(waits') : Respectful(waits'[k], k)
    <3>1. Len(waits') = attempt /\ Len(waits) = attempt - 1
      BY <1>1, <2>3 DEF Progress
    <3>2. \A k \in 1..Len(waits) : Respectful(waits[k], k)
      BY DEF Patient
    <3> QED
      BY <2>2, <2>3, <3>1, <3>2 DEF Progress
  <2>7. born = "live"
    <3> SUFFICES ASSUME born = "canceled" PROVE FALSE
      BY DEF Progress
    <3> QED
      BY <1>1, <2>2 DEF Possible, Transient
  <2>8. Ending'
    BY <1>1, <1>4, <2>1, <2>7 DEF Ending, Progress
  <2> QED
    BY <2>4, <2>5, <2>6, <2>8 DEF Patient, Respectful
<1>6. CASE ~Repeats(wait)
  <2>1. pc' = "returned" /\ reply' = kind /\ waits' = waits
    BY <1>3, <1>6
  <2>2. Progress'
    BY <1>1, <1>2, <1>4, <2>1 DEF Progress
  <2>3. Repeated'
    BY <1>1, <1>2, <2>1 DEF Progress, Repeated, RetriesOnlyTransient
  <2>4. Patient'
    BY <2>1 DEF Patient, Respectful
  <2>5. Ending'
    BY <1>1, <1>4, <2>1 DEF Ending
  <2> QED
    BY <2>2, <2>3, <2>4, <2>5
<1> QED
  BY <1>5, <1>6

LEMMA WaitEnds ==
  ASSUME IInv, Waited \/ WaitCanceled
  PROVE  IInv'
<1> USE DEF IInv
<1>1. CASE Waited
  <2>1. Progress'
    BY <1>1 DEF Waited, Progress
  <2>2. Repeated'
    BY <1>1 DEF Waited, Repeated
  <2>3. Patient'
    BY <1>1 DEF Waited, Patient, Respectful
  <2>4. Ending'
    BY <1>1 DEF Waited, Ending, Progress
  <2> QED
    BY <2>1, <2>2, <2>3, <2>4
<1>2. CASE WaitCanceled
  <2>1. Progress'
    BY <1>2 DEF WaitCanceled, Progress
  <2>2. Repeated'
    <3>1. pc = "wait" /\ pc' = "returned" /\ reply' = "wait canceled" /\ answers' = answers
      BY <1>2 DEF WaitCanceled
    <3>2. reply' \notin Answers
      BY <3>1 DEF Answers, Final, Transient
    <3>3. \A k \in 1..(Len(answers) - 1) : answers[k] \in Transient
      <4>1. Len(answers) \in Nat
        BY DEF Progress
      <4>2. \A k \in 1..(Len(answers) - 1) : k \in 1..Len(answers)
        BY <4>1
      <4> QED
        BY <3>1, <4>2 DEF Repeated
    <3> QED
      BY <3>1, <3>2, <3>3 DEF Repeated, RetriesOnlyTransient
  <2>3. Patient'
    BY <1>2 DEF WaitCanceled, Patient, Respectful
  <2>4. Ending'
    BY <1>2 DEF WaitCanceled, Ending
  <2> QED
    BY <2>1, <2>2, <2>3, <2>4
<1> QED
  BY <1>1, <1>2

\* The context ends, or the call begins under one that may have ended.
LEMMA ContextEnds ==
  ASSUME IInv,
         UNCHANGED <<pc, attempt, delay, reply, answers, waits, late>>,
         \/ ctx' = "canceled" /\ born' = born
         \/ ctx' = ctx /\ born' = ctx /\ late = 0
  PROVE  IInv'
<1> USE DEF IInv
<1>1. Progress'
  BY DEF Progress
<1>2. Repeated' /\ Patient'
  BY DEF Repeated, RetriesOnlyTransient, Patient, Respectful
<1>3. Ending'
  BY DEF Ending, Progress
<1> QED
  BY <1>1, <1>2, <1>3

\* The client is not at work before the call.
Untouched == stage \in {"article", "request"} => pc = "request" /\ late = 0

LEMMA StepKeeps ==
  ASSUME IInv, Untouched, [RunNext]_allVars
  PROVE  IInv' /\ Untouched'
<1>1. CASE RejectArticle \/ Prepare \/ RejectRequest \/ ExtractDone
  <2>1. UNCHANGED vars
    BY <1>1 DEF RejectArticle, Prepare, RejectRequest, ExtractDone, vars
  <2>2. stage' \in {"request", "returned"} /\ (stage' = "request" => stage = "article")
    BY <1>1 DEF RejectArticle, Prepare, RejectRequest, ExtractDone, RunReturn
  <2>3. IInv'
    BY <2>1 DEF vars, IInv, Progress, Repeated, RetriesOnlyTransient, Patient, Respectful, Ending
  <2> QED
    BY <2>1, <2>2, <2>3 DEF Untouched, vars
<1>2. CASE CallExtract
  <2>1. UNCHANGED <<pc, attempt, ctx, delay, reply, answers, waits, late>> /\ born' = ctx /\ late = 0
    BY <1>2 DEF CallExtract, Untouched
  <2>2. IInv'
    BY <2>1, ContextEnds
  <2> QED
    BY <1>2, <2>2 DEF CallExtract, Untouched
<1>3. CASE Extracting
  <2>1. stage = "calling" /\ stage' = stage /\ Step
    BY <1>3 DEF Extracting, runVars
  <2>2. IInv'
    BY <2>1, AnsweredKeeps, WaitEnds DEF Step
  <2> QED
    BY <2>1, <2>2 DEF Untouched
<1>4. CASE CallerCancels
  <2>1. /\ UNCHANGED <<pc, attempt, born, delay, reply, answers, waits, late>>
        /\ ctx' = "canceled" /\ stage' = stage
    BY <1>4 DEF CallerCancels, Cancel, runVars
  <2>2. IInv'
    BY <2>1, ContextEnds
  <2> QED
    BY <2>1, <2>2 DEF Untouched
<1>5. CASE UNCHANGED allVars
  <2>1. UNCHANGED <<vars, stage>>
    BY <1>5 DEF allVars, runVars
  <2>2. IInv'
    BY <2>1 DEF vars, IInv, Progress, Repeated, RetriesOnlyTransient, Patient, Respectful, Ending
  <2> QED
    BY <2>1, <2>2 DEF Untouched, vars
<1> QED
  BY <1>1, <1>2, <1>3, <1>4, <1>5 DEF RunNext, RunStep

\* What a call has done and may still do, in every reachable state of Run.
THEOREM Inductive == RunSpec => [](IInv /\ Untouched)
<1>1. RunInit => IInv /\ Untouched
  BY InitHolds DEF RunInit, Init, Untouched
<1>2. IInv /\ Untouched /\ [RunNext]_allVars => (IInv /\ Untouched)'
  BY StepKeeps
<1> QED
  BY <1>1, <1>2, PTL DEF RunSpec

\* The client repeats a request after transient answers only, and returns the
\* last answer, whatever the budget and the kinds of answers.
THEOREM TransientRetries == RunSpec => []RetriesOnlyTransient
<1>1. IInv => RetriesOnlyTransient
  <2> SUFFICES ASSUME IInv PROVE RetriesOnlyTransient
    OBVIOUS
  <2>1. CASE pc = "returned"
    BY <2>1 DEF IInv, Repeated
  <2>2. CASE pc # "returned"
    <3>1. \A k \in 1..(Len(answers) - 1) : answers[k] \in Transient
      <4>1. Len(answers) \in Nat
        BY DEF IInv, Progress
      <4>2. \A k \in 1..(Len(answers) - 1) : k \in 1..Len(answers)
        BY <4>1
      <4> QED
        BY <2>2, <4>2 DEF IInv, Repeated
    <3>2. reply = "none"
      BY <2>2 DEF IInv, Progress
    <3>3. reply \notin Answers
      BY <3>2 DEF Answers, Final, Transient
    <3> QED
      BY <3>1, <3>3 DEF RetriesOnlyTransient
  <2> QED
    BY <2>1, <2>2
<1> QED
  BY <1>1, Inductive, PTL

\* Every wait is exactly what the provider asked for, as long as a duration holds
\* it, or within the client's own bounds.  Where the header overflows the wait may
\* be shorter than what was asked for, and no more is promised than a wait.
THEOREM RespectfulWaits == RunSpec => []WaitsRespectProvider
<1>1. IInv => WaitsRespectProvider
  BY DEF IInv, Progress, Patient, Respectful, WaitsRespectProvider
<1> QED
  BY <1>1, Inductive, PTL

\* At most two answers are handled after the caller has gone away.
THEOREM CancelEnds == RunSpec => []CancelEndsRetries
<1>1. IInv => CancelEndsRetries
  BY DEF IInv, Ending, CancelEndsRetries
<1> QED
  BY <1>1, Inductive, PTL

\* How far a call may have used up its attempts, and how long it waits.
Budgeted ==
  /\ attempt <= retryMaxAttempts /\ (pc = "wait" => attempt < retryMaxAttempts)
  /\ Len(answers) <= attempt /\ (pc = "request" => Len(answers) < attempt)
  /\ delay \in Nat
  /\ reply \in Answers \cup {"none", "wait canceled"}

LEMMA MaxAttempts == retryMaxAttempts \in Nat
BY RetryAssumption

LEMMA BudgetedStep ==
  ASSUME IInv, Budgeted, [RunNext]_allVars, Untouched
  PROVE  Budgeted'
<1>1. attempt \in Nat \ {0} /\ answers \in Seq(Answers) /\ Len(answers) \in Nat /\ retryMaxAttempts \in Nat
  BY RetryAssumption DEF IInv, Progress
<1>2. CASE UNCHANGED <<pc, attempt, delay, reply, answers>>
  BY <1>2 DEF Budgeted
<1>3. ASSUME NEW kind \in Answers, Answered(kind) PROVE Budgeted'
  <2>1. /\ pc = "request" /\ attempt' = attempt /\ Len(answers') = Len(answers) + 1
    BY <1>1, <1>3 DEF Answered
  <2>2. PICK wait \in RetryDelays(kind) :
          IF Repeats(wait)
          THEN pc' = "wait" /\ delay' = wait.delay /\ UNCHANGED reply
          ELSE pc' = "returned" /\ reply' = kind /\ UNCHANGED delay
    BY <1>3 DEF Answered
  <2>3. Len(answers') <= attempt'
    <3>1. Len(answers) < attempt
      BY <2>1 DEF Budgeted
    <3> QED
      BY <1>1, <2>1, <3>1
  <2>4. CASE Repeats(wait)
    <3>1. wait \in Wait /\ wait.delay > 0 /\ attempt < retryMaxAttempts
      BY <1>1, <2>4, RepeatsAreRespectful DEF Repeats
    <3>2. wait.delay \in Nat
      BY <3>1 DEF Wait
    <3>3. pc' = "wait" /\ delay' = wait.delay /\ reply' = reply
      BY <2>2, <2>4
    <3> QED
      BY <2>1, <2>3, <3>1, <3>2, <3>3 DEF Budgeted
  <2>5. CASE ~Repeats(wait)
    <3>1. pc' = "returned" /\ delay' = delay /\ reply' = kind
      BY <2>2, <2>5
    <3> QED
      BY <2>1, <2>3, <3>1 DEF Budgeted
  <2> QED
    BY <2>4, <2>5
<1>4. CASE Waited
  <2>1. /\ pc = "wait" /\ pc' = "request" /\ attempt' = attempt + 1 /\ answers' = answers
        /\ delay' = 0 /\ reply' = reply
    BY <1>4 DEF Waited
  <2>2. attempt < retryMaxAttempts /\ Len(answers) <= attempt
    BY <2>1 DEF Budgeted
  <2>3. /\ attempt + 1 <= retryMaxAttempts
        /\ Len(answers) < attempt + 1 /\ Len(answers) <= attempt + 1
    BY <1>1, <2>2
  <2>4. reply \in Answers \cup {"none", "wait canceled"}
    BY DEF Budgeted
  <2> QED
    BY <2>1, <2>3, <2>4 DEF Budgeted
<1>5. CASE WaitCanceled
  BY <1>1, <1>5 DEF WaitCanceled, Budgeted
<1>6. UNCHANGED <<pc, attempt, delay, reply, answers>> \/ Step
  BY DEF RunNext, RunStep, RejectArticle, Prepare, RejectRequest, CallExtract, Extracting, ExtractDone,
     CallerCancels, Cancel, allVars, vars
<1> QED
  BY <1>2, <1>3, <1>4, <1>5, <1>6 DEF Step

LEMMA AlwaysBudgeted == RunSpec => []Budgeted
<1>1. RunInit => Budgeted
  BY RetryAssumption DEF RunInit, Init, Budgeted
<1> QED
  BY <1>1, BudgetedStep, Inductive, PTL DEF RunSpec

\* Every variable of a call has its type: in particular its attempts stay within
\* the budget and its delays are no overflown ones.
THEOREM TypeCorrect == RunSpec => []TypeOK
<1>1. IInv /\ Budgeted => TypeOK
  <2> SUFFICES ASSUME IInv, Budgeted PROVE TypeOK
    OBVIOUS
  <2>1. waits \in Seq([delay : Int, asked : Int])
    BY DEF IInv, Progress, Wait
  <2>2. attempt \in 1..retryMaxAttempts
    <3>1. attempt \in Nat \ {0} /\ attempt <= retryMaxAttempts
      BY DEF IInv, Progress, Budgeted
    <3> QED
      BY <3>1, MaxAttempts
  <2> QED
    BY <2>1, <2>2 DEF IInv, Progress, Budgeted, TypeOK
<1> QED
  BY <1>1, AlwaysBudgeted, Inductive, PTL

\* An article costs at most as many requests as there are attempts, whatever is
\* answered, waited for and cancelled.
THEOREM WithinBudget == RunSpec => [](Len(answers) <= retryMaxAttempts)
<1>1. IInv /\ Budgeted => Len(answers) <= retryMaxAttempts
  <2> SUFFICES ASSUME IInv, Budgeted PROVE Len(answers) <= retryMaxAttempts
    OBVIOUS
  <2>1. answers \in Seq(Answers) /\ attempt \in Nat /\ Len(answers) <= attempt /\ attempt <= retryMaxAttempts
    BY DEF IInv, Progress, Budgeted
  <2>2. Len(answers) \in Nat
    BY <2>1
  <2> QED
    BY <2>1, <2>2, MaxAttempts
<1> QED
  BY <1>1, AlwaysBudgeted, Inductive, PTL

-----------------------------------------------------------------------------
(* The operators of Preprocess: numbers, Keep, trimming, Normalize, Join.  *)

\* A set of numbers that is not empty has a least one.
LEMMA LeastNat ==
  ASSUME NEW T \in SUBSET Nat, T # {}
  PROVE  \E x \in T : \A y \in T : x <= y
<1>1. \E x \in T : \A y \in T : ~ (<<y, x>> \in OpToRel(<, Nat))
  BY NatLessThanWellFounded, WFMin
<1>2. PICK x \in T : \A y \in T : ~ (<<y, x>> \in OpToRel(<, Nat))
  BY <1>1
<1>3. ASSUME NEW y \in T PROVE x <= y
  <2>1. ~ (y < x)
    BY <1>2 DEF OpToRel
  <2> QED
    BY <2>1
<1> QED
  BY <1>3

\* A set that holds 0 and with each number below n the next holds them all.
LEMMA UpTo ==
  ASSUME NEW n \in Nat, NEW T, 0 \in T,
         \A i \in 0..n : i \in T /\ i < n => i + 1 \in T
  PROVE  0..n \subseteq T
<1> DEFINE Missing == (0..n) \ T
<1>1. SUFFICES ASSUME Missing # {} PROVE FALSE
  OBVIOUS
<1>2. PICK x \in Missing : \A y \in Missing : x <= y
  BY <1>1, LeastNat, Missing \in SUBSET Nat
<1>3. x \in 1..n /\ x - 1 \in 0..n
  BY <1>2
<1>4. x - 1 \in T
  BY <1>2, <1>3
<1> QED
  BY <1>2, <1>3, <1>4

\* f begins with b and goes k of the steps.
Goes(f, k, b, steps) == f[0] = b /\ \A i \in 1..k : f[i] = steps[i][f[i - 1]]

\* Every sequence of steps can be taken from any beginning.
LEMMA Iterates ==
  ASSUME NEW S, NEW b \in S, NEW n \in Nat, NEW g \in [1..n -> [S -> S]]
  PROVE  \E f \in [0..n -> S] : Goes(f, n, b, g)
<1> DEFINE T == {k \in 0..n : \E f \in [0..k -> S] : Goes(f, k, b, g)}
<1>1. 0 \in T
  <2> DEFINE f == [i \in 0..0 |-> b]
  <2>1. f \in [0..0 -> S] /\ f[0] = b /\ 1..0 = {} /\ 0 \in 0..n
    OBVIOUS
  <2> HIDE DEF f
  <2>2. Goes(f, 0, b, g)
    BY <2>1 DEF Goes
  <2> QED
    BY <2>1, <2>2
<1>2. ASSUME NEW k \in 0..n, k \in T, k < n PROVE k + 1 \in T
  <2>1. PICK f \in [0..k -> S] : Goes(f, k, b, g)
    BY <1>2
  <2> DEFINE h == [i \in 0..(k + 1) |-> IF i = k + 1 THEN g[k + 1][f[k]] ELSE f[i]]
  <2>2. k + 1 \in 1..n /\ f[k] \in S
    BY <1>2
  <2>3. g[k + 1][f[k]] \in S
    BY <2>2
  <2>4. h \in [0..(k + 1) -> S]
    BY <2>3
  <2>5. h[0] = b
    BY <2>1 DEF Goes
  <2>6. ASSUME NEW i \in 1..(k + 1) PROVE h[i] = g[i][h[i - 1]]
    <3>1. CASE i = k + 1
      <4>1. h[i] = g[i][f[i - 1]] /\ h[i - 1] = f[i - 1]
        BY <3>1
      <4> QED
        BY <4>1
    <3>2. CASE i # k + 1
      <4>1. i \in 1..k /\ h[i] = f[i] /\ h[i - 1] = f[i - 1]
        BY <3>2
      <4> QED
        BY <4>1, <2>1 DEF Goes
    <3> QED
      BY <3>1, <3>2
  <2> HIDE DEF h
  <2>7. Goes(h, k + 1, b, g)
    BY <2>5, <2>6 DEF Goes
  <2> QED
    BY <2>2, <2>4, <2>7
<1>3. n \in T
  <2> HIDE DEF T
  <2>1. 0..n \subseteq T
    BY <1>1, <1>2, UpTo
  <2> QED
    BY <2>1
<1>4. \E f \in [0..n -> S] : Goes(f, n, b, g)
  <2> QED
    BY <1>3, Zenon
<1> QED
  BY <1>4

\* Keep goes through a sequence and takes the elements at the places.
Taking(seq, places, S, kept) ==
  /\ kept \in [0..Len(seq) -> Seq(S)]
  /\ kept[0] = <<>>
  /\ \A i \in 1..Len(seq) :
       kept[i] = IF i \in places THEN Append(kept[i - 1], seq[i]) ELSE kept[i - 1]

\* Keep takes its elements one by one, from the left.
LEMMA KeepTakes ==
  ASSUME NEW S, NEW seq \in Seq(S), NEW places
  PROVE  \E kept : Taking(seq, places, S, kept) /\ Keep(seq, places) = kept[Len(seq)]
<1> DEFINE n == Len(seq)
           g == [i \in 1..n |-> [s \in Seq(S) |-> IF i \in places THEN Append(s, seq[i]) ELSE s]]
           Solves(h) == h = [i \in 0..n |-> IF i = 0 THEN <<>>
                               ELSE IF i \in places THEN Append(h[i - 1], seq[i]) ELSE h[i - 1]]
           kept == CHOOSE h : Solves(h)
<1>1. n \in Nat /\ \A i \in 1..n : seq[i] \in S
  BY LenProperties, ElementOfSeq
<1>2. g \in [1..n -> [Seq(S) -> Seq(S)]]
  <2>1. \A i \in 1..n : \A s \in Seq(S) : Append(s, seq[i]) \in Seq(S)
    BY <1>1, AppendProperties
  <2> QED
    BY <2>1
<1>3. PICK f \in [0..n -> Seq(S)] : f[0] = <<>> /\ \A i \in 1..n : f[i] = g[i][f[i - 1]]
  <2> DEFINE Q == Seq(S)
             b == <<>>
  <2>1. b \in Q
    BY EmptySeq
  <2>2. n \in Nat /\ g \in [1..n -> [Q -> Q]]
    BY <1>1, <1>2
  <2> HIDE DEF g, n, Q, b
  <2>3. \E f \in [0..n -> Q] : Goes(f, n, b, g)
    BY <2>1, <2>2, Iterates
  <2> QED
    BY <2>3 DEF Q, b, Goes
<1> HIDE DEF n
<1>4. ASSUME NEW i \in 1..n
      PROVE  f[i] = IF i \in places THEN Append(f[i - 1], seq[i]) ELSE f[i - 1]
  <2>1. i - 1 \in 0..n
    BY <1>1
  <2>a. f[i - 1] \in Seq(S)
    BY <1>3, <2>1
  <2>2. g[i] = [s \in Seq(S) |-> IF i \in places THEN Append(s, seq[i]) ELSE s]
    OBVIOUS
  <2> HIDE DEF g
  <2>3. g[i][f[i - 1]] = IF i \in places THEN Append(f[i - 1], seq[i]) ELSE f[i - 1]
    BY <2>a, <2>2
  <2> QED
    BY <1>3, <2>3
<1>5. Solves(f)
  <2>1. f = [i \in 0..n |-> f[i]]
    BY <1>3
  <2>2. \A i \in 0..n : i # 0 => i \in 1..n
    BY <1>1
  <2> QED
    BY <1>3, <1>4, <2>1, <2>2
<1>6. Solves(kept)
  <2> HIDE DEF Solves
  <2> QED
    BY <1>5
<1>7. Keep(seq, places) = kept[n]
  BY Zenon DEF Keep, n
<1> HIDE DEF kept
<1>8. /\ kept = [i \in 0..n |-> kept[i]]
      /\ kept[0] = <<>>
      /\ \A i \in 1..n : kept[i] = IF i \in places THEN Append(kept[i - 1], seq[i]) ELSE kept[i - 1]
  <2>1. kept = [i \in 0..n |-> kept[i]] /\ kept[0] = <<>>
    BY <1>1, <1>6
  <2>2. ASSUME NEW i \in 1..n
        PROVE  kept[i] = IF i \in places THEN Append(kept[i - 1], seq[i]) ELSE kept[i - 1]
    <3>1. i \in 0..n /\ i # 0
      BY <1>1
    <3> QED
      BY <1>6, <3>1
  <2> QED
    BY <2>1, <2>2
<1> HIDE DEF Solves
<1>9. 0..n \subseteq {i \in 0..n : kept[i] \in Seq(S)}
  <2> DEFINE T == {i \in 0..n : kept[i] \in Seq(S)}
  <2>1. 0 \in 0..n /\ <<>> \in Seq(S)
    BY <1>1, EmptySeq
  <2>a. 0 \in T
    BY <2>1, <1>8
  <2>2. ASSUME NEW i \in 0..n, i \in T, i < n PROVE i + 1 \in T
    <3>1. i + 1 \in 1..n /\ kept[i] \in Seq(S) /\ seq[i + 1] \in S
      BY <2>2, <1>1
    <3>2. Append(kept[i], seq[i + 1]) \in Seq(S)
      BY <3>1, AppendProperties
    <3>3. (i + 1) - 1 = i
      BY <1>1
    <3>4. kept[i + 1] \in {Append(kept[i], seq[i + 1]), kept[i]}
      BY <3>1, <3>3, <1>8
    <3>5. kept[i + 1] \in Seq(S)
      BY <3>1, <3>2, <3>4
    <3> QED
      BY <1>1, <3>1, <3>5
  <2> HIDE DEF T
  <2> QED
    BY <2>a, <2>2, <1>1, UpTo DEF T
<1>10. kept \in [0..n -> Seq(S)]
  BY <1>8, <1>9
<1> QED
  BY <1>7, <1>8, <1>10 DEF Taking, n

\* The places of out, the first i elements of seq without those that are not taken.
Lists(seq, places, i, out, e) ==
  /\ e \in [1..Len(out) -> places \cap (1..i)]
  /\ \A m \in 1..Len(out) : out[m] = seq[e[m]]
  /\ \A m, l \in 1..Len(out) : m < l => e[m] < e[l]
  /\ \A p \in places \cap (1..i) : \E m \in 1..Len(out) : e[m] = p

\* The list goes on, with or without the next element.
LEMMA ListNext ==
  ASSUME NEW S, NEW seq \in Seq(S), NEW places, NEW i \in 0..(Len(seq) - 1),
         NEW out \in Seq(S), NEW e, Lists(seq, places, i, out, e)
  PROVE  \E f : Lists(seq, places, i + 1,
                      IF i + 1 \in places THEN Append(out, seq[i + 1]) ELSE out, f)
<1>1. /\ Len(seq) \in Nat /\ i \in Nat /\ i + 1 \in 1..Len(seq)
      /\ seq[i + 1] \in S /\ Len(out) \in Nat
  BY LenProperties, ElementOfSeq
<1>2. CASE i + 1 \notin places
  <2>1. places \cap (1..(i + 1)) = places \cap (1..i)
    <3>1. \A p \in 1..(i + 1) : p \in 1..i \/ p = i + 1
      BY <1>1
    <3>2. \A p \in 1..i : p \in 1..(i + 1)
      BY <1>1
    <3> QED
      BY <1>2, <3>1, <3>2
  <2>2. Lists(seq, places, i + 1, out, e)
    BY <2>1 DEF Lists
  <2> QED
    BY <1>2, <2>2
<1>3. CASE i + 1 \in places
  <2> DEFINE n == Len(out)
             long == Append(out, seq[i + 1])
             f == [m \in 1..(n + 1) |-> IF m = n + 1 THEN i + 1 ELSE e[m]]
  <2>1. /\ long \in Seq(S) /\ Len(long) = n + 1 /\ long[n + 1] = seq[i + 1]
        /\ \A m \in 1..n : long[m] = out[m]
    BY <1>1, AppendProperties
  <2>2. /\ f[n + 1] = i + 1 /\ n + 1 \in 1..(n + 1)
        /\ \A m \in 1..n : f[m] = e[m] /\ m \in 1..(n + 1)
        /\ \A m \in 1..(n + 1) : m = n + 1 \/ m \in 1..n
    BY <1>1
  <2>3. \A p \in 1..i : p \in 1..(i + 1) /\ p < i + 1
    BY <1>1
  <2>4. \A m \in 1..n : e[m] \in places \cap (1..i)
    BY DEF Lists
  <2>5. f \in [1..(n + 1) -> places \cap (1..(i + 1))]
    <3>1. \A m \in 1..(n + 1) : f[m] \in places \cap (1..(i + 1))
      BY <1>1, <1>3, <2>2, <2>3, <2>4
    <3> QED
      BY <3>1
  <2> HIDE DEF f, n, long
  <2>6. ASSUME NEW m \in 1..(n + 1) PROVE long[m] = seq[f[m]]
    <3>1. CASE m = n + 1
      BY <2>1, <2>2, <3>1
    <3>2. CASE m \in 1..n
      <4>1. out[m] = seq[e[m]]
        BY <3>2 DEF Lists, n
      <4> QED
        BY <2>1, <2>2, <3>2, <4>1
    <3> QED
      BY <2>2, <3>1, <3>2
  <2>7. ASSUME NEW m \in 1..(n + 1), NEW l \in 1..(n + 1), m < l PROVE f[m] < f[l]
    <3>0. n \in Nat
      BY <1>1 DEF n
    <3>1. m \in 1..n
      BY <2>7, <3>0
    <3>2. CASE l = n + 1
      BY <2>2, <2>3, <2>4, <3>1, <3>2
    <3>3. CASE l \in 1..n
      <4>1. e[m] < e[l]
        BY <2>7, <3>1, <3>3 DEF Lists, n
      <4> QED
        BY <2>2, <3>1, <3>3, <4>1
    <3> QED
      BY <2>2, <3>2, <3>3
  <2>8. ASSUME NEW p \in places \cap (1..(i + 1)) PROVE \E m \in 1..(n + 1) : f[m] = p
    <3>1. CASE p = i + 1
      BY <2>2, <3>1
    <3>2. CASE p # i + 1
      <4>1. p \in places \cap (1..i)
        BY <1>1, <3>2
      <4>2. PICK m \in 1..n : e[m] = p
        BY <4>1 DEF Lists, n
      <4> QED
        BY <2>2, <4>2
    <3> QED
      BY <3>1, <3>2
  <2>9. Lists(seq, places, i + 1, long, f)
    BY <2>1, <2>5, <2>6, <2>7, <2>8 DEF Lists
  <2> QED
    BY <1>3, <2>9 DEF long
<1> QED
  BY <1>2, <1>3

\* What Keep returns are the elements at the places, in their order.
LEMMA KeepLists ==
  ASSUME NEW S, NEW seq \in Seq(S), NEW places
  PROVE  /\ Keep(seq, places) \in Seq(S)
         /\ \E e : Lists(seq, places, Len(seq), Keep(seq, places), e)
<1>1. PICK kept : Taking(seq, places, S, kept) /\ Keep(seq, places) = kept[Len(seq)]
  BY KeepTakes
<1> DEFINE n == Len(seq)
           Listed(i) == \E e : Lists(seq, places, i, kept[i], e)
           T == {i \in 0..n : Listed(i)}
<1>2. n \in Nat /\ 0 \in 0..n /\ n \in 0..n
  BY LenProperties
<1>3. kept \in [0..n -> Seq(S)]
  BY <1>1 DEF Taking
<1>4. 0 \in T
  <2>1. kept[0] = <<>> /\ Len(<<>>) = 0
    BY <1>1, EmptySeq DEF Taking
  <2> DEFINE e == [m \in {} |-> 0]
  <2>2. 1..0 = {}
    OBVIOUS
  <2>3. Lists(seq, places, 0, <<>>, e)
    BY <2>1, <2>2 DEF Lists
  <2> QED
    BY <1>2, <2>1, <2>3
<1>5. ASSUME NEW i \in 0..n, i \in T, i < n PROVE i + 1 \in T
  <2>1. PICK e : Lists(seq, places, i, kept[i], e)
    BY <1>5
  <2>2. i \in 0..(Len(seq) - 1) /\ kept[i] \in Seq(S) /\ i + 1 \in 1..n /\ i + 1 \in 0..n /\ (i + 1) - 1 = i
    BY <1>2, <1>3, <1>5
  <2>3. kept[i + 1] = IF i + 1 \in places THEN Append(kept[i], seq[i + 1]) ELSE kept[i]
    BY <1>1, <2>2 DEF Taking
  <2>4. Listed(i + 1)
    BY <2>1, <2>2, <2>3, ListNext
  <2> QED
    BY <2>2, <2>4
<1> HIDE DEF T
<1>6. 0..n \subseteq T
  BY <1>2, <1>4, <1>5, UpTo
<1>7. Listed(n)
  BY <1>2, <1>6 DEF T
<1> QED
  BY <1>1, <1>2, <1>3, <1>7

-----------------------------------------------------------------------------
(* Trimming.                                                               *)

\* Numbers up to n, if there are any, have a greatest one.
LEMMA GreatestUpTo ==
  ASSUME NEW n \in Nat, NEW T \in SUBSET (1..n), T # {}
  PROVE  \E x \in T : \A y \in T : y <= x
<1> DEFINE Mirror == {n - y : y \in T}
<1>1. Mirror \in SUBSET Nat /\ Mirror # {}
  <2>1. \A y \in T : n - y \in Nat
    OBVIOUS
  <2>2. PICK y \in T : TRUE
    OBVIOUS
  <2>3. n - y \in Mirror
    BY <2>2
  <2> QED
    BY <2>1, <2>3
<1>2. PICK z \in Mirror : \A y \in Mirror : z <= y
  <2> HIDE DEF Mirror
  <2> QED
    BY <1>1, LeastNat
<1>3. PICK x \in T : z = n - x
  BY <1>2
<1>4. ASSUME NEW y \in T PROVE y <= x
  <2>1. n - x <= n - y
    BY <1>2, <1>3
  <2> QED
    BY <2>1
<1> QED
  BY <1>4

\* Blanks alone are cut off at the end of a text.
LEMMA RightTrim ==
  ASSUME NEW S, NEW t \in Seq(S)
  PROVE  \E m \in 0..Len(t) : /\ TrimRight(t) = SubSeq(t, 1, m)
                              /\ m # 0 => t[m] # Space
                              /\ \A i \in (m + 1)..Len(t) : t[i] = Space
<1>1. Len(t) \in Nat
  BY LenProperties
<1>2. CASE Inked(t) = {}
  <2>1. TrimRight(t) = SubSeq(t, 1, 0)
    BY <1>2, SubSeqEmpty DEF TrimRight
  <2>2. \A i \in 1..Len(t) : t[i] = Space
    BY <1>2 DEF Inked
  <2> QED
    BY <1>1, <2>1, <2>2
<1>3. CASE Inked(t) # {}
  <2> DEFINE m == CHOOSE i \in Inked(t) : \A j \in Inked(t) : j <= i
  <2>1. Inked(t) \in SUBSET (1..Len(t))
    BY DEF Inked
  <2>2. \E i \in Inked(t) : \A j \in Inked(t) : j <= i
    BY <1>1, <1>3, <2>1, GreatestUpTo
  <2>3. m \in Inked(t) /\ \A j \in Inked(t) : j <= m
    BY <2>2
  <2>4. TrimRight(t) = SubSeq(t, 1, m)
    BY <1>3 DEF TrimRight
  <2> HIDE DEF m
  <2>5. m \in 1..Len(t) /\ t[m] # Space
    BY <2>3 DEF Inked
  <2>6. \A i \in (m + 1)..Len(t) : i \in 1..Len(t) /\ ~ (i <= m)
    BY <1>1, <2>5
  <2>7. \A i \in (m + 1)..Len(t) : t[i] = Space
    BY <2>3, <2>6 DEF Inked
  <2> QED
    BY <1>1, <2>4, <2>5, <2>7
<1> QED
  BY <1>2, <1>3

\* And at its beginning.
LEMMA LeftTrim ==
  ASSUME NEW S, NEW t \in Seq(S)
  PROVE  \E m \in 1..(Len(t) + 1) : /\ TrimLeft(t) = SubSeq(t, m, Len(t))
                                    /\ m <= Len(t) => t[m] # Space
                                    /\ \A i \in 1..(m - 1) : t[i] = Space
<1>1. Len(t) \in Nat
  BY LenProperties
<1>2. CASE Inked(t) = {}
  <2>1. TrimLeft(t) = SubSeq(t, Len(t) + 1, Len(t))
    BY <1>1, <1>2, SubSeqEmpty DEF TrimLeft
  <2>2. \A i \in 1..((Len(t) + 1) - 1) : t[i] = Space
    BY <1>1, <1>2 DEF Inked
  <2> QED
    BY <1>1, <2>1, <2>2
<1>3. CASE Inked(t) # {}
  <2> DEFINE m == CHOOSE i \in Inked(t) : \A j \in Inked(t) : i <= j
  <2>1. Inked(t) \in SUBSET Nat
    BY <1>1 DEF Inked
  <2>2. \E i \in Inked(t) : \A j \in Inked(t) : i <= j
    BY <1>3, <2>1, LeastNat
  <2>3. m \in Inked(t) /\ \A j \in Inked(t) : m <= j
    BY <2>2
  <2>4. TrimLeft(t) = SubSeq(t, m, Len(t))
    BY <1>3 DEF TrimLeft
  <2> HIDE DEF m
  <2>5. m \in 1..Len(t) /\ t[m] # Space
    BY <2>3 DEF Inked
  <2>6. \A i \in 1..(m - 1) : i \in 1..Len(t) /\ ~ (m <= i)
    BY <1>1, <2>5
  <2>7. \A i \in 1..(m - 1) : t[i] = Space
    BY <2>3, <2>6 DEF Inked
  <2> QED
    BY <1>1, <2>4, <2>5, <2>7
<1> QED
  BY <1>2, <1>3

\* A piece of a text is a text.
LEMMA PieceType ==
  ASSUME NEW S, NEW t \in Seq(S), NEW i \in Nat \ {0}, NEW j \in 0..Len(t)
  PROVE  /\ SubSeq(t, i, j) \in Seq(S)
         /\ Len(SubSeq(t, i, j)) = IF i <= j THEN j - i + 1 ELSE 0
         /\ \A k \in 1..(j - i + 1) : SubSeq(t, i, j)[k] = t[i + k - 1]
<1>1. Len(t) \in Nat
  BY LenProperties
<1>2. \A k \in i..j : t[k] \in S
  BY <1>1, ElementOfSeq
<1>3. i \in Int /\ j \in Int
  BY <1>1
<1> QED
  BY <1>2, <1>3, SubSeqProperties

\* Trimming cuts a text out of the text.
LEMMA TrimType ==
  ASSUME NEW S, NEW t \in Seq(S)
  PROVE  TrimRight(t) \in Seq(S) /\ TrimLeft(t) \in Seq(S) /\ TrimSpace(t) \in Seq(S)
<1>1. ASSUME NEW u \in Seq(S) PROVE TrimRight(u) \in Seq(S)
  BY RightTrim, PieceType
<1>2. ASSUME NEW u \in Seq(S) PROVE TrimLeft(u) \in Seq(S)
  <2>1. PICK m \in 1..(Len(u) + 1) : TrimLeft(u) = SubSeq(u, m, Len(u))
    BY LeftTrim
  <2>2. m \in Nat \ {0} /\ Len(u) \in 0..Len(u)
    BY LenProperties
  <2> QED
    BY <2>1, <2>2, PieceType
<1> QED
  BY <1>1, <1>2 DEF TrimSpace

\* Nothing to trim, and no blank beside another.
Tidy(t) ==
  /\ Len(t) > 0 => t[1] # Space /\ t[Len(t)] # Space
  /\ \A i \in 1..(Len(t) - 1) : ~ (t[i] = Space /\ t[i + 1] = Space)

\* A tidy text has nothing to trim.
LEMMA TidyIsTrim ==
  ASSUME NEW S, NEW t \in Seq(S), Tidy(t)
  PROVE  TrimSpace(t) = t
<1>1. Len(t) \in Nat
  BY LenProperties
<1>2. TrimRight(t) = t
  <2>1. PICK m \in 0..Len(t) : /\ TrimRight(t) = SubSeq(t, 1, m)
                               /\ \A i \in (m + 1)..Len(t) : t[i] = Space
    BY RightTrim
  <2>2. m = Len(t)
    <3>1. SUFFICES ASSUME m < Len(t) PROVE FALSE
      BY <1>1
    <3>2. Len(t) \in (m + 1)..Len(t)
      BY <1>1, <3>1
    <3> QED
      BY <1>1, <2>1, <3>1, <3>2 DEF Tidy
  <2> QED
    BY <2>1, <2>2, SubSeqFull
<1>3. TrimLeft(t) = t
  <2>1. PICK m \in 1..(Len(t) + 1) : /\ TrimLeft(t) = SubSeq(t, m, Len(t))
                                     /\ \A i \in 1..(m - 1) : t[i] = Space
    BY LeftTrim
  <2>2. m = 1
    <3>1. SUFFICES ASSUME m > 1 PROVE FALSE
      BY <1>1
    <3>2. 1 \in 1..(m - 1) /\ Len(t) > 0
      BY <1>1, <3>1
    <3> QED
      BY <2>1, <3>2 DEF Tidy
  <2> QED
    BY <2>1, <2>2, SubSeqFull
<1> QED
  BY <1>2, <1>3 DEF TrimSpace

\* Normalize leaves single blanks between words, and none around the text.
LEMMA NormalizeTidies ==
  ASSUME NEW S, NEW t \in Seq(S)
  PROVE  Normalize(t) \in Seq(S) /\ Tidy(Normalize(t))
<1> DEFINE places == Inked(t) \cup {i \in 1..Len(t) : WordFollows(t, i)}
           out == Normalize(t)
<1>1. out = Keep(t, places)
  BY DEF Normalize
<1>2. out \in Seq(S) /\ \E e : Lists(t, places, Len(t), out, e)
  BY <1>1, KeepLists
<1>3. PICK e : Lists(t, places, Len(t), out, e)
  BY <1>2
<1> HIDE DEF out
<1>4. Len(t) \in Nat /\ Len(out) \in Nat
  BY <1>2, LenProperties
<1>5. ASSUME NEW m \in 1..Len(out), out[m] = Space
      PROVE  /\ WordFollows(t, e[m]) /\ t[e[m]] = Space
             /\ e[m] \in 1..Len(t)
  <2>1. e[m] \in places \cap (1..Len(t)) /\ t[e[m]] = Space
    BY <1>5, <1>3 DEF Lists
  <2>2. e[m] \notin Inked(t)
    BY <2>1 DEF Inked
  <2> QED
    BY <2>1, <2>2
<1>6. \A p \in Inked(t) : p \in 1..Len(t) /\ p \in places /\ \E m \in 1..Len(out) : e[m] = p
  BY <1>3 DEF Lists, Inked
<1> HIDE DEF places
<1>7. \A m \in 1..Len(out) : e[m] \in 1..Len(t)
  BY <1>3 DEF Lists
<1>8. \A m, l \in 1..Len(out) : e[m] < e[l] => m < l
  <2> SUFFICES ASSUME NEW m \in 1..Len(out), NEW l \in 1..Len(out), e[m] < e[l] PROVE m < l
    OBVIOUS
  <2>1. l < m => e[l] < e[m]
    BY <1>3 DEF Lists
  <2>2. e[l] \in Int /\ e[m] \in Int /\ ~ (l < m) /\ l # m
    BY <1>4, <1>7, <2>1
  <2> QED
    BY <1>4, <2>2
\* Before a blank that stays there is a word.
<1>9. ASSUME NEW m \in 1..Len(out), out[m] = Space
      PROVE  \E l \in 1..Len(out) : l < m /\ e[l] = e[m] - 1 /\ out[l] # Space
  <2>1. e[m] > 1 /\ e[m] - 1 \in Inked(t)
    BY <1>4, <1>5, <1>9 DEF WordFollows, Inked
  <2>2. PICK l \in 1..Len(out) : e[l] = e[m] - 1
    BY <1>6, <2>1
  <2>3. e[l] < e[m] /\ l < m
    BY <1>7, <1>8, <2>2
  <2>4. out[l] = t[e[l]]
    BY <1>3 DEF Lists
  <2> QED
    BY <2>1, <2>2, <2>3, <2>4 DEF Inked
\* And after it as well.
<1>10. ASSUME NEW m \in 1..Len(out), out[m] = Space
       PROVE  \E l \in 1..Len(out) : m < l
  <2>1. PICK j \in Inked(t) : j > e[m]
    BY <1>5, <1>10 DEF WordFollows
  <2>2. PICK l \in 1..Len(out) : e[l] = j
    BY <1>6
  <2>3. e[m] < e[l]
    BY <1>6, <1>7, <2>1, <2>2
  <2> QED
    BY <1>8, <2>3
<1>11. ASSUME NEW i \in 1..(Len(out) - 1), out[i] = Space, out[i + 1] = Space PROVE FALSE
  <2>1. i \in 1..Len(out) /\ i + 1 \in 1..Len(out)
    BY <1>4
  <2>2. PICK l \in 1..Len(out) : l < i + 1 /\ e[l] = e[i + 1] - 1 /\ out[l] # Space
    BY <1>9, <1>11, <2>1
  <2>3. l < i
    BY <1>4, <1>11, <2>2
  <2>4. e[l] < e[i] /\ e[i] < e[i + 1]
    BY <1>3, <1>4, <2>1, <2>3 DEF Lists
  <2> QED
    BY <1>7, <2>1, <2>2, <2>4
<1>12. Len(out) > 0 => out[1] # Space /\ out[Len(out)] # Space
  <2> SUFFICES ASSUME Len(out) > 0 PROVE out[1] # Space /\ out[Len(out)] # Space
    OBVIOUS
  <2>1. 1 \in 1..Len(out) /\ Len(out) \in 1..Len(out)
    BY <1>4
  <2> QED
    BY <1>4, <1>9, <1>10, <2>1
<1>13. Tidy(out)
  BY <1>11, <1>12 DEF Tidy
<1> QED
  BY <1>2, <1>13 DEF out

-----------------------------------------------------------------------------
(* What every step of Process makes of a text is a text.                   *)

\* One part after the other is added to what was joined so far.
Added(sofar, glue, part) == IF sofar = <<>> THEN part ELSE sofar \o glue \o part

Adding(f, n, glue, parts) ==
  f[0] = <<>> /\ \A i \in 1..n : f[i] = Added(f[i - 1], glue, parts[i])

\* A sequence of sums that adds the parts one by one.
LEMMA JoinSteps ==
  ASSUME NEW S, NEW n \in Nat, NEW parts \in [1..n -> Seq(S)], NEW glue \in Seq(S)
  PROVE  \E f \in [0..n -> Seq(S)] : Adding(f, n, glue, parts)
<1> DEFINE Q == Seq(S)
           b == <<>>
           g == [i \in 1..n |-> [s \in Q |-> Added(s, glue, parts[i])]]
<1>1. \A s, p \in Q : Added(s, glue, p) \in Q
  BY ConcatProperties DEF Added
<1>2. b \in Q
  BY EmptySeq
<1> HIDE DEF Q, b
<1>3. parts \in [1..n -> Q]
  BY DEF Q
<1>4. g \in [1..n -> [Q -> Q]]
  BY <1>1, <1>3
<1> HIDE DEF g
<1>5. PICK f \in [0..n -> Q] : Goes(f, n, b, g)
  BY <1>2, <1>4, Iterates
<1>6. ASSUME NEW i \in 1..n PROVE f[i] = Added(f[i - 1], glue, parts[i])
  <2>1. i - 1 \in 0..n
    OBVIOUS
  <2>2. f[i - 1] \in Q
    BY <2>1
  <2>3. g[i] = [s \in Q |-> Added(s, glue, parts[i])]
    BY DEF g
  <2>4. g[i][f[i - 1]] = Added(f[i - 1], glue, parts[i])
    BY <2>2, <2>3
  <2> QED
    BY <1>5, <2>4 DEF Goes
<1> QED
  BY <1>5, <1>6 DEF Q, b, Goes, Adding

\* Join is the last of such sums.
LEMMA JoinAdds ==
  ASSUME NEW S, NEW parts \in Seq(Seq(S)), NEW glue \in Seq(S)
  PROVE  \E f \in [0..Len(parts) -> Seq(S)] :
           Adding(f, Len(parts), glue, parts) /\ Join(parts, glue) = f[Len(parts)]
<1> DEFINE n == Len(parts)
           Q == Seq(S)
           Add(sofar, part) == Added(sofar, glue, part)
           Solves(h) == h = [i \in 0..n |-> IF i = 0 THEN <<>>
                               ELSE IF h[i - 1] = <<>> THEN parts[i] ELSE h[i - 1] \o glue \o parts[i]]
           joined == CHOOSE h : Solves(h)
<1>1. n \in Nat /\ \A i \in 1..n : parts[i] \in Q
  BY LenProperties, ElementOfSeq
<1>2. \A s, p \in Q : Add(s, p) \in Q
  BY ConcatProperties DEF Added
<1>3. <<>> \in Q
  BY EmptySeq
<1>4. parts \in [1..n -> Q]
  BY LenProperties
<1>5. PICK f \in [0..n -> Q] : Adding(f, n, glue, parts)
  <2> HIDE DEF n
  <2> QED
    BY <1>1, <1>4, JoinSteps
<1> HIDE DEF n, Q
<1>7. Solves(f)
  <2>1. f = [i \in 0..n |-> f[i]]
    BY <1>5
  <2>2. \A i \in 0..n : i # 0 => i \in 1..n
    BY <1>1
  <2> QED
    BY <1>5, <2>1, <2>2 DEF Added, Adding
<1>8. Solves(joined)
  <2> HIDE DEF Solves
  <2> QED
    BY <1>7
<1>9. Join(parts, glue) = joined[n]
  BY Zenon DEF Join, n
<1> HIDE DEF joined
<1>10. joined[0] = <<>> /\ \A i \in 1..n : joined[i] = Add(joined[i - 1], parts[i])
  <2>1. joined[0] = <<>>
    BY <1>1, <1>8
  <2>2. ASSUME NEW i \in 1..n PROVE joined[i] = Add(joined[i - 1], parts[i])
    <3>1. i \in 0..n /\ i # 0
      BY <1>1
    <3> QED
      BY <1>8, <3>1 DEF Added
  <2> QED
    BY <2>1, <2>2
<1> HIDE DEF Solves, Add
<1> DEFINE T == {i \in 0..n : joined[i] \in Q}
<1>11. 0 \in T
  BY <1>1, <1>3, <1>10
<1>12. ASSUME NEW i \in 0..n, i \in T, i < n PROVE i + 1 \in T
  <2>1. i + 1 \in 1..n /\ i + 1 \in 0..n /\ (i + 1) - 1 = i
    BY <1>1, <1>12
  <2>2. joined[i + 1] = Add(joined[i], parts[i + 1])
    BY <1>10, <2>1
  <2>3. joined[i] \in Q /\ parts[i + 1] \in Q
    BY <1>1, <1>12, <2>1
  <2> QED
    BY <1>2, <2>1, <2>2, <2>3
<1> HIDE DEF T
<1>13. 0..n \subseteq T
  BY <1>1, <1>11, <1>12, UpTo
<1>14. joined = [i \in 0..n |-> joined[i]]
  BY <1>8 DEF Solves
<1>15. joined \in [0..n -> Q]
  BY <1>13, <1>14 DEF T
<1>16. Adding(joined, n, glue, parts)
  BY <1>10 DEF Adding, Add
<1> QED
  BY <1>9, <1>15, <1>16 DEF n, Q

LEMMA JoinType ==
  ASSUME NEW S, NEW parts \in Seq(Seq(S)), NEW glue \in Seq(S)
  PROVE  Join(parts, glue) \in Seq(S)
<1>1. Len(parts) \in 0..Len(parts)
  BY LenProperties
<1> QED
  BY <1>1, JoinAdds

LEMMA KeepType ==
  ASSUME NEW S, NEW seq \in Seq(S), NEW places
  PROVE  Keep(seq, places) \in Seq(S)
BY KeepLists

LEMMA EndsType ==
  ASSUME NEW S, NEW t \in Seq(S)
  PROVE  Ends(t) \in Seq(1..Len(t))
<1>1. Len(t) \in Nat /\ DOMAIN t = 1..Len(t)
  BY LenProperties
<1> DEFINE own == [i \in DOMAIN t |-> i]
<1>2. own \in Seq(1..Len(t))
  BY <1>1
<1> HIDE DEF own
<1>3. Keep(own, {i \in DOMAIN t : t[i] \in Separators \/ i = Len(t)}) \in Seq(1..Len(t))
  BY <1>2, KeepType
<1> QED
  BY <1>3 DEF Ends, own

LEMMA SplitType ==
  ASSUME NEW S, NEW t \in Seq(S)
  PROVE  SplitFragments(t) \in Seq(Seq(S))
<1> DEFINE ends == Ends(t)
           first(k) == IF k = 1 THEN 1 ELSE ends[k - 1] + 1
           pieces == [k \in DOMAIN ends |-> TrimSpace(SubSeq(t, first(k), ends[k]))]
<1>1. Len(t) \in Nat /\ ends \in Seq(1..Len(t))
  BY LenProperties, EndsType
<1> HIDE DEF ends
<1>2. Len(ends) \in Nat /\ DOMAIN ends = 1..Len(ends) /\ \A k \in 1..Len(ends) : ends[k] \in 1..Len(t)
  BY <1>1, LenProperties, ElementOfSeq
<1>3. ASSUME NEW k \in 1..Len(ends) PROVE TrimSpace(SubSeq(t, first(k), ends[k])) \in Seq(S)
  <2>1. first(k) \in Nat \ {0}
    <3>1. k # 1 => k - 1 \in 1..Len(ends)
      BY <1>2
    <3> QED
      BY <1>1, <1>2, <3>1
  <2>2. ends[k] \in 0..Len(t)
    BY <1>1, <1>2
  <2> HIDE DEF first
  <2>3. SubSeq(t, first(k), ends[k]) \in Seq(S)
    BY <2>1, <2>2, PieceType
  <2> QED
    BY <2>3, TrimType
<1> HIDE DEF first
<1>4. pieces \in Seq(Seq(S))
  <2> DEFINE Q == Seq(S)
             Piece(k) == TrimSpace(SubSeq(t, first(k), ends[k]))
  <2>1. \A k \in 1..Len(ends) : Piece(k) \in Q
    BY <1>3
  <2> HIDE DEF Piece, Q
  <2>2. [k \in 1..Len(ends) |-> Piece(k)] \in Seq(Q)
    BY <1>2, <2>1
  <2> QED
    BY <1>2, <2>2 DEF Piece, Q
<1>5. SplitFragments(t) = NotEmpty(pieces)
  BY DEF SplitFragments, ends, first
<1> HIDE DEF pieces
<1>6. NotEmpty(pieces) \in Seq(Seq(S))
  BY <1>4, KeepType DEF NotEmpty
<1> QED
  BY <1>5, <1>6

\* Prepared is the input that an article becomes.
LEMMA CleanedTidy ==
  ASSUME NEW t \in Seq(Characters)
  PROVE  Cleaned(t) \in Seq(Characters) /\ Tidy(Cleaned(t))
<1>1. Fragments(t) \in Seq(Seq(Characters))
  BY NormalizeTidies, SplitType DEF Fragments
<1>2. KeptFragments(t) \in Seq(Seq(Characters))
  BY <1>1, KeepType DEF KeptFragments, RemoveBoilerplateFragments, FilterNoisyFragments
<1>3. <<Space>> \in Seq(Characters)
  BY DEF Characters
<1>4. Join(KeptFragments(t), <<Space>>) \in Seq(Characters)
  BY <1>2, <1>3, JoinType
<1> QED
  BY <1>4, NormalizeTidies DEF Cleaned, RebuildText

\* The input of an article is a text.
LEMMA InputTextType ==
  ASSUME NEW a \in Seq(Seq(Characters))
  PROVE  BuildInputText(a) \in Seq(Characters)
<1> DEFINE Q == Seq(Characters)
           given == Keep(a, {n \in DOMAIN a : TrimSpace(a[n]) # <<>>})
           Labelled(n) == <<"w", ":", Space>> \o TrimSpace(given[n])
<1>1. given \in Seq(Q)
  BY KeepType
<1>2. Len(given) \in Nat /\ DOMAIN given = 1..Len(given) /\ \A n \in 1..Len(given) : given[n] \in Q
  <2> HIDE DEF given
  <2> QED
    BY <1>1, LenProperties, ElementOfSeq
<1>3. BuildInputText(a) = Join([n \in DOMAIN given |-> Labelled(n)], <<Space, Space>>)
  BY DEF BuildInputText
<1> HIDE DEF given
<1>4. \A n \in 1..Len(given) : Labelled(n) \in Q
  <2>1. <<"w", ":", Space>> \in Seq(Characters)
    BY DEF Characters, Letters, Punctuation
  <2>2. \A n \in 1..Len(given) : TrimSpace(given[n]) \in Seq(Characters)
    BY <1>2, TrimType
  <2> QED
    BY <2>1, <2>2, ConcatProperties
<1>5. [n \in DOMAIN given |-> Labelled(n)] \in Seq(Q)
  <2> HIDE DEF Labelled, Q
  <2> QED
    BY <1>2, <1>4
<1>6. <<Space, Space>> \in Seq(Characters)
  BY DEF Characters
<1> HIDE DEF Labelled
<1> QED
  BY <1>3, <1>5, <1>6, JoinType

-----------------------------------------------------------------------------
(* The cut.                                                                *)

\* The sizes that the cut reckons with.
LEMMA SizesAreNat ==
  /\ MaxTotalChars \in Nat /\ SentenceCutTolerance \in Nat
  /\ HeadTailJoiner \in Seq(STRING) /\ Len(HeadTailJoiner) \in Nat
  /\ available \in Int
<1>1. HeadTailJoiner \in Seq(STRING)
  BY PreprocessAssumption
<1>2. Len(HeadTailJoiner) \in Nat
  BY <1>1, LenProperties
<1>3. MaxTotalChars \in Nat /\ SentenceCutTolerance \in Nat
  BY PreprocessAssumption
<1> QED
  BY <1>1, <1>2, <1>3 DEF available

\* Of places in a text one is nearest to a target, the first of two.
Nearest(i, places, target) ==
  \A j \in places : \/ Distance(i, target) < Distance(j, target)
                    \/ Distance(i, target) = Distance(j, target) /\ i <= j

\* Among places that are not empty one is the nearest to the target, the first of two.
LEMMA NearestExists ==
  ASSUME NEW target \in Int, NEW places \in SUBSET Nat, places # {}
  PROVE  \E i \in places : Nearest(i, places, target)
<1>1. \A i \in places : Distance(i, target) \in Nat
  BY DEF Distance
<1> DEFINE distances == {Distance(i, target) : i \in places}
<1>2. distances \in SUBSET Nat /\ distances # {}
  BY <1>1
<1>3. PICK d \in distances : \A e \in distances : d <= e
  <2> HIDE DEF distances
  <2> QED
    BY <1>2, LeastNat
<1>4. d \in Nat /\ \A j \in places : d <= Distance(j, target)
  BY <1>2, <1>3
<1> DEFINE near == {i \in places : Distance(i, target) = d}
<1>5. near \in SUBSET Nat /\ near # {}
  BY <1>3
<1>6. PICK x \in near : \A y \in near : x <= y
  <2> HIDE DEF near
  <2> QED
    BY <1>5, LeastNat
<1>7. ASSUME NEW j \in places
      PROVE  \/ Distance(x, target) < Distance(j, target)
             \/ Distance(x, target) = Distance(j, target) /\ x <= j
  <2>1. Distance(x, target) = d /\ d <= Distance(j, target) /\ Distance(j, target) \in Nat
    BY <1>1, <1>4, <1>6
  <2>2. Distance(j, target) = d => x <= j
    BY <1>6
  <2> HIDE DEF near, distances
  <2> QED
    BY <1>4, <2>1, <2>2
<1> QED
  BY <1>6, <1>7 DEF Nearest

\* A boundary is a place in the text, as near to the target as the tolerance says.
LEMMA BoundaryInReach ==
  ASSUME NEW S, NEW t \in Seq(S), NEW target \in Int
  PROVE  LET r == findBestSentenceBoundary(t, target) IN
         /\ r \in 0..Len(t)
         /\ target > 0 /\ target < Len(t) => /\ r \in 1..(Len(t) - 1)
                                             /\ r >= target - SentenceCutTolerance
                                             /\ r <= target + SentenceCutTolerance
         /\ target >= Len(t) => r = Len(t) \/ target <= 0
<1> DEFINE first == Larger(target - SentenceCutTolerance, 1)
           last == Shorter(target + SentenceCutTolerance, Len(t) - 1)
           boundaries == {i \in first..last : t[i] \in Terminators}
           r == findBestSentenceBoundary(t, target)
<1>1. Len(t) \in Nat /\ SentenceCutTolerance \in Nat
  BY LenProperties, SizesAreNat
<1>2. CASE target <= 0 \/ target >= Len(t)
  <2>1. r = Larger(0, Shorter(target, Len(t)))
    BY <1>2 DEF findBestSentenceBoundary
  <2> HIDE DEF r
  <2>2. r \in 0..Len(t) /\ (target >= Len(t) => r = Len(t) \/ target <= 0)
    BY <1>1, <1>2, <2>1 DEF Larger, Shorter
  <2> QED
    BY <1>1, <1>2, <2>2 DEF r
<1>3. CASE target > 0 /\ target < Len(t)
  <2>1. ~ (target <= 0 \/ target >= Len(t))
    BY <1>1, <1>3
  <2>2. first \in Int /\ first >= 1 /\ first >= target - SentenceCutTolerance
    BY <1>1 DEF Larger
  <2>3. last \in Int /\ last <= Len(t) - 1 /\ last <= target + SentenceCutTolerance
    BY <1>1 DEF Shorter
  <2>4. CASE boundaries = {}
    <3>1. r = target
      BY <2>1, <2>4 DEF findBestSentenceBoundary
    <3> HIDE DEF r
    <3> QED
      BY <1>1, <1>3, <3>1 DEF r
  <2>5. CASE boundaries # {}
    <3>1. r = CHOOSE i \in boundaries : Nearest(i, boundaries, target)
      BY <2>1, <2>5 DEF findBestSentenceBoundary, Nearest
    <3>2. boundaries \in SUBSET Nat
      <4> HIDE DEF first, last
      <4> QED
        BY <2>2, <2>3
    <3> HIDE DEF boundaries, r
    <3>3. \E i \in boundaries : Nearest(i, boundaries, target)
      BY <2>5, <3>2, NearestExists
    <3>4. r \in boundaries
      BY <3>1, <3>3
    <3>5. r \in first..last
      BY <3>4 DEF boundaries
    <3> HIDE DEF first, last
    <3>6. /\ r \in 1..(Len(t) - 1) /\ r \in 0..Len(t)
          /\ r >= target - SentenceCutTolerance /\ r <= target + SentenceCutTolerance
      BY <1>1, <2>2, <2>3, <3>5
    <3> QED
      BY <1>1, <1>3, <3>6 DEF r
  <2> QED
    BY <2>4, <2>5
<1> QED
  BY <1>1, <1>2, <1>3

\* Trimming the end of a cut takes one blank at most.
LEMMA HeadTrimmed ==
  ASSUME NEW S, NEW t \in Seq(S), Tidy(t), NEW h \in 0..Len(t)
  PROVE  \E a \in 0..h : TrimRight(SubSeq(t, 1, h)) = SubSeq(t, 1, a) /\ a >= h - 1
<1> DEFINE piece == SubSeq(t, 1, h)
<1>1. Len(t) \in Nat
  BY LenProperties
<1>2. piece \in Seq(S) /\ Len(piece) = h /\ \A k \in 1..h : piece[k] = t[k]
  <2>1. 1 \in Nat \ {0} /\ h \in Nat /\ h - 1 + 1 = h
    BY <1>1
  <2>2. /\ piece \in Seq(S) /\ Len(piece) = IF 1 <= h THEN h - 1 + 1 ELSE 0
        /\ \A k \in 1..(h - 1 + 1) : piece[k] = t[1 + k - 1]
    BY <2>1, PieceType
  <2> HIDE DEF piece
  <2>3. \A k \in 1..h : 1 + k - 1 = k
    BY <2>1
  <2> QED
    BY <2>1, <2>2, <2>3
<1> HIDE DEF piece
<1>3. PICK a \in 0..h : /\ TrimRight(piece) = SubSeq(piece, 1, a)
                        /\ \A i \in (a + 1)..h : piece[i] = Space
  BY <1>2, RightTrim
<1>4. a >= h - 1
  <2>1. SUFFICES ASSUME a < h - 1 PROVE FALSE
    BY <1>1
  <2>2. h - 1 \in (a + 1)..h /\ h \in (a + 1)..h /\ h - 1 \in 1..h /\ h \in 1..h
    BY <1>1, <2>1
  <2>3. t[h - 1] = Space /\ t[(h - 1) + 1] = Space
    BY <1>1, <1>2, <1>3, <2>2
  <2>4. h - 1 \in 1..(Len(t) - 1)
    BY <1>1, <2>1
  <2> QED
    BY <2>3, <2>4 DEF Tidy
<1>5. SubSeq(piece, 1, a) = SubSeq(t, 1, a)
  <2>1. 1 \in Nat \ {0} /\ a \in 0..Len(t) /\ a \in 0..Len(piece)
    BY <1>1, <1>2
  <2>2. /\ SubSeq(t, 1, a) \in Seq(S) /\ SubSeq(piece, 1, a) \in Seq(S)
        /\ Len(SubSeq(t, 1, a)) = Len(SubSeq(piece, 1, a))
        /\ \A k \in 1..(a - 1 + 1) : SubSeq(t, 1, a)[k] = t[1 + k - 1]
        /\ \A k \in 1..(a - 1 + 1) : SubSeq(piece, 1, a)[k] = piece[1 + k - 1]
        /\ Len(SubSeq(t, 1, a)) = IF 1 <= a THEN a - 1 + 1 ELSE 0
    BY <1>2, <2>1, PieceType
  <2>3. \A k \in 1..Len(SubSeq(t, 1, a)) : k \in 1..(a - 1 + 1) /\ 1 + k - 1 \in 1..h
    BY <1>1, <2>1, <2>2
  <2>4. \A k \in 1..Len(SubSeq(t, 1, a)) : SubSeq(t, 1, a)[k] = SubSeq(piece, 1, a)[k]
    BY <1>2, <2>2, <2>3
  <2> QED
    BY <2>2, <2>4, SeqEqual
<1> QED
  BY <1>3, <1>4, <1>5 DEF piece

\* And so does trimming its beginning.
LEMMA TailTrimmed ==
  ASSUME NEW S, NEW t \in Seq(S), Tidy(t), NEW m \in 0..Len(t)
  PROVE  \E b \in 0..(Len(t) - m) :
           /\ TrimLeft(SubSeq(t, m + 1, Len(t))) = SubSeq(t, Len(t) - b + 1, Len(t))
           /\ b >= Len(t) - m - 1
<1> DEFINE n == Len(t)
           piece == SubSeq(t, m + 1, n)
<1>1. n \in Nat /\ m \in Nat /\ n - m \in Nat
  BY LenProperties
<1>2. piece \in Seq(S) /\ Len(piece) = n - m /\ \A k \in 1..(n - m) : piece[k] = t[m + k]
  <2>1. m + 1 \in Nat \ {0} /\ n \in 0..n /\ n - (m + 1) + 1 = n - m
    BY <1>1
  <2>2. /\ piece \in Seq(S) /\ Len(piece) = IF m + 1 <= n THEN n - (m + 1) + 1 ELSE 0
        /\ \A k \in 1..(n - (m + 1) + 1) : piece[k] = t[m + 1 + k - 1]
    BY <2>1, PieceType
  <2> HIDE DEF piece, n
  <2>3. \A k \in 1..(n - m) : m + 1 + k - 1 = m + k
    BY <1>1
  <2> QED
    BY <1>1, <2>1, <2>2, <2>3
<1> HIDE DEF piece
<1>3. PICK l \in 1..((n - m) + 1) : /\ TrimLeft(piece) = SubSeq(piece, l, n - m)
                                  /\ \A i \in 1..(l - 1) : piece[i] = Space
  BY <1>2, LeftTrim
<1> DEFINE b == n - m - l + 1
<1>4. b \in 0..(n - m) /\ l = n - m - b + 1
  BY <1>1
<1>5. b >= n - m - 1
  <2>1. SUFFICES ASSUME l > 2 PROVE FALSE
    BY <1>1
  <2>2. 1 \in 1..(l - 1) /\ 2 \in 1..(l - 1) /\ 1 \in 1..(n - m) /\ 2 \in 1..(n - m)
    BY <1>1, <2>1
  <2>3. t[m + 1] = Space /\ t[m + 2] = Space
    BY <1>2, <1>3, <2>2
  <2>4. m + 1 \in 1..(n - 1) /\ (m + 1) + 1 = m + 2
    BY <1>1, <2>1
  <2> QED
    BY <2>3, <2>4 DEF Tidy
<1> HIDE DEF n, b
<1>6. SubSeq(piece, l, n - m) = SubSeq(t, n - b + 1, n)
  <2>1. /\ l \in Nat \ {0} /\ n - m \in 0..Len(piece)
        /\ n - b + 1 \in Nat \ {0} /\ n \in 0..Len(t)
    BY <1>1, <1>2, <1>4 DEF n
  <2> DEFINE u == SubSeq(piece, l, n - m)
             v == SubSeq(t, n - b + 1, n)
  <2>2. /\ u \in Seq(S) /\ Len(u) = IF l <= n - m THEN (n - m) - l + 1 ELSE 0
        /\ \A k \in 1..((n - m) - l + 1) : u[k] = piece[l + k - 1]
    BY <1>2, <2>1, PieceType
  <2>3. /\ v \in Seq(S) /\ Len(v) = IF n - b + 1 <= n THEN n - (n - b + 1) + 1 ELSE 0
        /\ \A k \in 1..(n - (n - b + 1) + 1) : v[k] = t[(n - b + 1) + k - 1]
    BY <2>1, PieceType
  <2> HIDE DEF u, v
  <2>4. Len(u) = b /\ Len(v) = b
    <3>1. /\ b \in Nat /\ (n - m) - l + 1 = b /\ n - (n - b + 1) + 1 = b
          /\ l <= n - m <=> b > 0
          /\ n - b + 1 <= n <=> b > 0
      BY <1>1, <1>4
    <3>2. b > 0 => Len(u) = b /\ Len(v) = b
      BY <2>2, <2>3, <3>1
    <3>3. b = 0 => Len(u) = 0 /\ Len(v) = 0
      BY <2>2, <2>3, <3>1
    <3> QED
      BY <3>1, <3>2, <3>3
  <2>5. ASSUME NEW k \in 1..b PROVE u[k] = v[k]
    <3>1. /\ k \in 1..((n - m) - l + 1) /\ k \in 1..(n - (n - b + 1) + 1)
          /\ l + k - 1 \in 1..(n - m) /\ m + (l + k - 1) = (n - b + 1) + k - 1
      BY <1>1, <1>4
    <3>2. piece[l + k - 1] = t[m + (l + k - 1)]
      BY <1>2, <3>1
    <3> QED
      BY <2>2, <2>3, <3>1, <3>2
  <2>6. u = v
    BY <2>2, <2>3, <2>4, <2>5, SeqEqual
  <2> QED
    BY <2>6 DEF u, v
<1> QED
  BY <1>3, <1>4, <1>5, <1>6 DEF piece, n

\* The first a and the last b characters around the joiner.
AroundJoiner(t, a, b) ==
  SubSeq(t, 1, a) \o HeadTailJoiner \o SubSeq(t, Len(t) - b + 1, Len(t))

\* A head and a tail that leave room for the joiner make a text that fits.
LEMMA AroundJoinerFits ==
  ASSUME NEW S, NEW t \in Seq(S), Len(t) > MaxTotalChars,
         NEW a \in Nat, NEW b \in Nat, a + b <= available,
         a + b >= available - 2 * SentenceCutTolerance - 2
  PROVE  HeadAndTail(t, AroundJoiner(t, a, b))
<1> DEFINE n == Len(t)
           j == Len(HeadTailJoiner)
           U == S \cup STRING
           x == SubSeq(t, 1, a)
           y == SubSeq(t, n - b + 1, n)
           out == AroundJoiner(t, a, b)
<1>1. /\ n \in Nat /\ j \in Nat /\ MaxTotalChars \in Nat /\ SentenceCutTolerance \in Nat
      /\ available = MaxTotalChars - j
  BY LenProperties, SizesAreNat DEF available
<1>2. t \in Seq(U) /\ HeadTailJoiner \in Seq(U)
  BY SizesAreNat, SeqMonotonic
<1> HIDE DEF j, U
<1>3. a + b <= n /\ a \in 0..n /\ n - b + 1 \in Nat \ {0} /\ n \in 0..n
  BY <1>1
<1>4. x \in Seq(U) /\ Len(x) = a
  <2>1. x \in Seq(U) /\ Len(x) = IF 1 <= a THEN a - 1 + 1 ELSE 0
    BY <1>2, <1>3, PieceType
  <2> HIDE DEF x
  <2> QED
    BY <2>1
<1>5. y \in Seq(U) /\ Len(y) = b
  <2>1. y \in Seq(U) /\ Len(y) = IF n - b + 1 <= n THEN n - (n - b + 1) + 1 ELSE 0
    BY <1>2, <1>3, PieceType
  <2>2. n - (n - b + 1) + 1 = b /\ (n - b + 1 <= n <=> b > 0)
    BY <1>1
  <2> HIDE DEF y, n
  <2> QED
    BY <2>1, <2>2
<1>6. out = (x \o HeadTailJoiner) \o y
  BY DEF AroundJoiner
<1> HIDE DEF x, y, out
<1>7. Len(out) = a + j + b
  <2>1. x \o HeadTailJoiner \in Seq(U) /\ Len(x \o HeadTailJoiner) = a + j
    BY <1>2, <1>4, ConcatProperties DEF j
  <2>2. Len(out) = Len(x \o HeadTailJoiner) + Len(y)
    BY <1>5, <1>6, <2>1, ConcatProperties
  <2> QED
    BY <1>5, <2>1, <2>2
<1>8. Len(out) <= MaxTotalChars /\ Len(out) >= MaxTotalChars - 2 * SentenceCutTolerance - 2
  BY <1>1, <1>7
<1>9. Len(out) - a - j = b /\ a \in 0..available /\ b >= 0
  BY <1>1, <1>7
<1> HIDE DEF n
<1>10. \E h \in 0..available :
          LET u == Len(out) - h - Len(HeadTailJoiner) IN
          /\ u >= 0 /\ h + u <= Len(t)
          /\ out = SubSeq(t, 1, h) \o HeadTailJoiner \o SubSeq(t, Len(t) - u + 1, Len(t))
  <2>1. a \in 0..available
    BY <1>9
  <2>2. Len(out) - a - Len(HeadTailJoiner) = b
    BY <1>9 DEF j
  <2>3. b >= 0 /\ a + b <= Len(t)
    BY <1>3, <1>9 DEF n
  <2>4. out = SubSeq(t, 1, a) \o HeadTailJoiner \o SubSeq(t, Len(t) - b + 1, Len(t))
    BY DEF out, AroundJoiner
  <2> WITNESS a \in 0..available
  <2> QED
    BY <2>2, <2>3, <2>4
<1> QED
  BY <1>8, <1>10 DEF HeadAndTail, out

\* The end of the tail is an end of the text.
LEMMA TailOfTail ==
  ASSUME NEW S, NEW t \in Seq(S), NEW b \in 0..Len(t), NEW k \in 0..b
  PROVE  LET tail == SubSeq(t, Len(t) - b + 1, Len(t)) IN
         /\ tail \in Seq(S) /\ Len(tail) = b
         /\ SubSeq(tail, b - k + 1, b) = SubSeq(t, Len(t) - k + 1, Len(t))
<1> DEFINE n == Len(t)
           tail == SubSeq(t, n - b + 1, n)
           u == SubSeq(tail, b - k + 1, b)
           v == SubSeq(t, n - k + 1, n)
<1>1. /\ n \in Nat /\ n \in 0..n /\ b \in Nat /\ k \in Nat
      /\ n - b + 1 \in Nat \ {0} /\ n - k + 1 \in Nat \ {0} /\ b - k + 1 \in Nat \ {0}
      /\ n - (n - b + 1) + 1 = b /\ n - (n - k + 1) + 1 = k /\ b - (b - k + 1) + 1 = k
      /\ n - b + 1 <= n <=> b > 0
      /\ n - k + 1 <= n <=> k > 0
      /\ b - k + 1 <= b <=> k > 0
  BY LenProperties
<1>2. /\ tail \in Seq(S) /\ Len(tail) = IF n - b + 1 <= n THEN n - (n - b + 1) + 1 ELSE 0
      /\ \A i \in 1..(n - (n - b + 1) + 1) : tail[i] = t[(n - b + 1) + i - 1]
  BY <1>1, PieceType
<1>3. /\ v \in Seq(S) /\ Len(v) = IF n - k + 1 <= n THEN n - (n - k + 1) + 1 ELSE 0
      /\ \A i \in 1..(n - (n - k + 1) + 1) : v[i] = t[(n - k + 1) + i - 1]
  BY <1>1, PieceType
<1> HIDE DEF n, tail, v
<1>4. /\ Len(tail) = b /\ Len(v) = k
      /\ \A i \in 1..b : tail[i] = t[(n - b + 1) + i - 1]
      /\ \A i \in 1..k : v[i] = t[(n - k + 1) + i - 1]
  BY <1>1, <1>2, <1>3
<1>5. /\ u \in Seq(S) /\ Len(u) = IF b - k + 1 <= b THEN b - (b - k + 1) + 1 ELSE 0
      /\ \A i \in 1..(b - (b - k + 1) + 1) : u[i] = tail[(b - k + 1) + i - 1]
  <2>1. b \in 0..Len(tail)
    BY <1>1, <1>4
  <2> QED
    BY <1>1, <1>2, <2>1, PieceType
<1> HIDE DEF u
<1>6. Len(u) = k /\ \A i \in 1..k : u[i] = tail[(b - k + 1) + i - 1]
  BY <1>1, <1>5
<1>7. ASSUME NEW i \in 1..k PROVE u[i] = v[i]
  <2>1. /\ (b - k + 1) + i - 1 \in 1..b
        /\ (n - b + 1) + ((b - k + 1) + i - 1) - 1 = (n - k + 1) + i - 1
    BY <1>1
  <2> QED
    BY <1>4, <1>6, <2>1
<1>8. u = v
  BY <1>2, <1>3, <1>4, <1>5, <1>6, <1>7, SeqEqual
<1> QED
  BY <1>2, <1>4, <1>8 DEF u, v, tail, n

\* A head and a tail that are long enough are made to fit.
LEMMA FittedFits ==
  ASSUME NEW S, NEW t \in Seq(S), Tidy(t), Len(t) > MaxTotalChars, available > 0,
         NEW a \in Nat, NEW b \in Nat, a + b <= Len(t),
         a + b >= available - 2 * SentenceCutTolerance - 2
  PROVE  HeadAndTail(t, Fitted(SubSeq(t, 1, a), SubSeq(t, Len(t) - b + 1, Len(t))))
<1> DEFINE n == Len(t)
           head == SubSeq(t, 1, a)
           tail == SubSeq(t, n - b + 1, n)
           allowed == available - Len(tail)
<1>1. n \in Nat /\ available \in Int /\ SentenceCutTolerance \in Nat /\ a \in 0..n /\ b \in 0..n
  BY LenProperties, SizesAreNat
<1>2. head \in Seq(S) /\ Len(head) = a
  <2>1. head \in Seq(S) /\ Len(head) = IF 1 <= a THEN a - 1 + 1 ELSE 0
    BY <1>1, PieceType
  <2> HIDE DEF head
  <2> QED
    BY <2>1
<1>3. tail \in Seq(S) /\ Len(tail) = b
  <2>1. b \in 0..b
    OBVIOUS
  <2> QED
    BY <1>1, <2>1, TailOfTail
<1>4. allowed = available - b
  BY <1>3
<1>5. CASE Len(head) <= allowed
  <2>1. Fitted(head, tail) = AroundJoiner(t, a, b)
    BY <1>5 DEF Fitted, AroundJoiner
  <2>2. a + b <= available
    BY <1>1, <1>2, <1>4, <1>5
  <2> QED
    BY <2>1, <2>2, AroundJoinerFits
<1>6. CASE Len(head) > allowed /\ allowed < 0
  <2> DEFINE short == SubSeq(tail, Len(tail) - available + 1, Len(tail))
  <2>1. Fitted(head, tail) = HeadTailJoiner \o short
    <3>1. ~ (Len(head) <= allowed)
      BY <1>1, <1>2, <1>4, <1>6
    <3> QED
      BY <1>6, <3>1 DEF Fitted
  <2>2. available \in 0..b
    BY <1>1, <1>4, <1>6
  <2>3. short = SubSeq(t, n - available + 1, n)
    <3>1. SubSeq(tail, b - available + 1, b) = SubSeq(t, n - available + 1, n)
      BY <1>1, <2>2, TailOfTail
    <3> HIDE DEF tail, n
    <3> QED
      BY <1>3, <3>1
  <2>4. SubSeq(t, 1, 0) \o HeadTailJoiner = HeadTailJoiner
    <3>1. SubSeq(t, 1, 0) = <<>>
      BY SubSeqEmpty
    <3> QED
      BY <3>1, SizesAreNat, ConcatEmptySeq
  <2>5. Fitted(head, tail) = AroundJoiner(t, 0, available)
    <3> HIDE DEF tail, head
    <3> QED
      BY <2>1, <2>3, <2>4 DEF AroundJoiner
  <2>6. /\ available \in Nat /\ 0 \in Nat /\ 0 + available <= available
        /\ 0 + available >= available - 2 * SentenceCutTolerance - 2
    BY <1>1
  <2>7. HeadAndTail(t, AroundJoiner(t, 0, available))
    BY <2>6, AroundJoinerFits
  <2> QED
    BY <2>5, <2>7
<1>7. CASE Len(head) > allowed /\ allowed >= 0
  <2>1. Fitted(head, tail) = TrimRight(SubSeq(head, 1, allowed)) \o HeadTailJoiner \o tail
    <3>1. ~ (Len(head) <= allowed) /\ ~ (allowed < 0)
      BY <1>1, <1>2, <1>4, <1>7
    <3> QED
      BY <3>1 DEF Fitted
  <2> HIDE DEF allowed
  <2>2. allowed \in 0..a /\ allowed \in 0..n
    BY <1>1, <1>2, <1>4, <1>7
  <2>3. SubSeq(head, 1, allowed) = SubSeq(t, 1, allowed)
    <3> DEFINE u == SubSeq(head, 1, allowed)
               v == SubSeq(t, 1, allowed)
    <3>1. /\ u \in Seq(S) /\ Len(u) = IF 1 <= allowed THEN allowed - 1 + 1 ELSE 0
          /\ \A k \in 1..(allowed - 1 + 1) : u[k] = head[1 + k - 1]
      BY <1>2, <2>2, PieceType
    <3>2. /\ v \in Seq(S) /\ Len(v) = IF 1 <= allowed THEN allowed - 1 + 1 ELSE 0
          /\ \A k \in 1..(allowed - 1 + 1) : v[k] = t[1 + k - 1]
      BY <2>2, PieceType
    <3>3. \A k \in 1..(a - 1 + 1) : head[k] = t[1 + k - 1]
      BY <1>1, PieceType
    <3> HIDE DEF u, v, head
    <3>4. Len(u) = Len(v)
      BY <3>1, <3>2
    <3>5. ASSUME NEW k \in 1..Len(u) PROVE u[k] = v[k]
      <4>1. k \in 1..(allowed - 1 + 1) /\ k \in 1..(a - 1 + 1) /\ 1 + k - 1 = k
        BY <2>2, <3>1
      <4> QED
        BY <3>1, <3>2, <3>3, <4>1
    <3>6. u = v
      BY <3>1, <3>2, <3>4, <3>5, SeqEqual
    <3> QED
      BY <3>6 DEF u, v
  <2>4. PICK c \in 0..allowed : TrimRight(SubSeq(t, 1, allowed)) = SubSeq(t, 1, c) /\ c >= allowed - 1
    BY <2>2, HeadTrimmed
  <2>5. Fitted(head, tail) = AroundJoiner(t, c, b)
    <3>1. tail = SubSeq(t, Len(t) - b + 1, Len(t))
      OBVIOUS
    <3> HIDE DEF tail, head
    <3> QED
      BY <2>1, <2>3, <2>4, <3>1 DEF AroundJoiner
  <2>6. c \in Nat /\ c + b <= available /\ c + b >= available - 2 * SentenceCutTolerance - 2
    BY <1>1, <1>4, <2>2, <2>4
  <2>7. HeadAndTail(t, AroundJoiner(t, c, b))
    BY <2>6, AroundJoinerFits
  <2> QED
    BY <2>5, <2>7
<1>8. Len(head) \in Int /\ allowed \in Int
  BY <1>1, <1>2, <1>4
<1> QED
  <2> HIDE DEF head, tail, allowed
  <2> QED
    BY <1>5, <1>6, <1>7, <1>8 DEF head, tail, n

\* Wherever sentences end, the cut is such a head and such a tail.
LEMMA CutFits ==
  ASSUME NEW S, NEW t \in Seq(S), Tidy(t), Len(t) > MaxTotalChars
  PROVE  HeadAndTail(t, Cut(t))
<1> DEFINE n == Len(t)
           h == findBestSentenceBoundary(t, headTarget)
           f == findBestSentenceBoundary(t, n - tailTarget)
           s == TailStart(t)
<1>1. /\ n \in Nat /\ MaxTotalChars \in Nat /\ SentenceCutTolerance \in Nat
      /\ available \in Int /\ available <= MaxTotalChars
  BY LenProperties, SizesAreNat DEF available
<1>2. CASE available <= 0
  <2>1. Cut(t) = SubSeq(t, 1, MaxTotalChars)
    BY <1>2 DEF Cut
  <2>2. MaxTotalChars \in 0..n
    BY <1>1
  <2>3. Len(SubSeq(t, 1, MaxTotalChars)) = IF 1 <= MaxTotalChars THEN MaxTotalChars - 1 + 1 ELSE 0
    BY <2>2, PieceType
  <2>4. Len(SubSeq(t, 1, MaxTotalChars)) = MaxTotalChars
    BY <1>1, <2>3
  <2>5. Len(Cut(t)) <= MaxTotalChars
    BY <1>1, <2>1, <2>4
  <2> QED
    BY <1>2, <2>1, <2>5, Zenon DEF HeadAndTail
<1>3. CASE available > 0
  <2>1. headTarget \in 1..available /\ tailTarget \in 0..(available - 1) /\ headTarget + tailTarget = available
    BY <1>1, <1>3 DEF headTarget, tailTarget
  <2>2. h \in 1..(n - 1) /\ h >= headTarget - SentenceCutTolerance
    <3>1. headTarget \in Int /\ headTarget > 0 /\ headTarget < n
      BY <1>1, <2>1
    <3> QED
      BY <3>1, BoundaryInReach
  <2>3. f \in 0..n /\ f <= n - tailTarget + SentenceCutTolerance
    <3>1. n - tailTarget \in Int /\ n - tailTarget > 0
      BY <1>1, <2>1
    <3>2. /\ f \in 0..n
          /\ n - tailTarget < n => f <= (n - tailTarget) + SentenceCutTolerance
      BY <3>1, BoundaryInReach
    <3> HIDE DEF f
    <3> QED
      BY <1>1, <2>1, <3>2
  <2>4. s = Larger(h, f)
    BY DEF TailStart
  <2> HIDE DEF h, f, s
  <2>5. s \in 0..n /\ h <= s /\ (s = h \/ s = f)
    BY <1>1, <2>2, <2>3, <2>4 DEF Larger
  <2>6. h \in 0..n
    BY <1>1, <2>2
  <2>7. PICK a \in 0..h : TrimRight(SubSeq(t, 1, h)) = SubSeq(t, 1, a) /\ a >= h - 1
    BY <2>6, HeadTrimmed
  <2>8. PICK b \in 0..(n - s) :
          TrimLeft(SubSeq(t, s + 1, n)) = SubSeq(t, n - b + 1, n) /\ b >= n - s - 1
    BY <2>5, TailTrimmed
  <2>9. Cut(t) = Fitted(SubSeq(t, 1, a), SubSeq(t, n - b + 1, n))
    <3>1. ~ (available <= 0)
      BY <1>1, <1>3
    <3> QED
      BY <2>7, <2>8, <3>1 DEF Cut, h, s
  <2> HIDE DEF n
  <2>10. /\ a \in Nat /\ b \in Nat /\ a + b <= n
         /\ n > MaxTotalChars
    BY <1>1, <2>5, <2>6, <2>7, <2>8 DEF n
  <2>11. a + b >= available - 2 * SentenceCutTolerance - 2
    <3>1. CASE s = h
      BY <1>1, <2>2, <2>7, <2>8, <2>10, <3>1
    <3>2. CASE s = f
      BY <1>1, <2>1, <2>2, <2>3, <2>7, <2>8, <2>10, <3>2
    <3> QED
      BY <2>5, <3>1, <3>2
  <2>12. HeadAndTail(t, Fitted(SubSeq(t, 1, a), SubSeq(t, Len(t) - b + 1, Len(t))))
    BY <1>3, <2>10, <2>11, FittedFits DEF n
  <2> QED
    BY <2>9, <2>12 DEF n
<1> QED
  BY <1>1, <1>2, <1>3

\* What Process makes of a text fits, and is all of the cleaned text or both ends.
LEMMA ProcessFits ==
  ASSUME NEW source \in Seq(Characters)
  PROVE  HeadAndTail(Cleaned(source), Process(source))
<1> DEFINE full == Cleaned(source)
<1>1. full \in Seq(Characters) /\ Tidy(full) /\ TrimSpace(full) = full /\ Len(full) \in Nat
  BY CleanedTidy, TidyIsTrim, LenProperties
<1>2. MaxTotalChars \in Nat
  BY SizesAreNat
<1> HIDE DEF full
<1>3. HeadTailExtract(full) = IF Len(full) <= MaxTotalChars THEN full ELSE Cut(full)
  BY <1>1 DEF HeadTailExtract
<1>4. CASE Len(full) <= MaxTotalChars
  BY <1>3, <1>4 DEF HeadAndTail, full, Process
<1>5. CASE Len(full) > MaxTotalChars
  <2>1. ~ (Len(full) <= MaxTotalChars)
    BY <1>1, <1>2, <1>5
  <2>2. HeadAndTail(full, Cut(full))
    BY <1>1, <1>5, CutFits
  <2> QED
    BY <1>3, <2>1, <2>2 DEF full, Process
<1> QED
  BY <1>1, <1>2, <1>4, <1>5

\* Until the client is called, the article is kept, and the text is what Process
\* made of it.
Prepared ==
  /\ stage \in {"article", "request"} => sections \in Articles
  /\ stage = "request" => text = Process(BuildInputText(sections))

\* Prepared is an invariant: nothing but Prepare makes a text.
LEMMA StaysPrepared == RunSpec => []Prepared
<1>1. RunInit => Prepared
  BY DEF RunInit, Prepared
<1>2. Prepared /\ [RunNext]_allVars => Prepared'
  <2> SUFFICES ASSUME Prepared, [RunNext]_allVars PROVE Prepared'
    OBVIOUS
  <2>1. CASE RejectArticle \/ RejectRequest \/ ExtractDone
    BY <2>1 DEF RejectArticle, RejectRequest, ExtractDone, RunReturn, Prepared
  <2>2. CASE Prepare
    BY <2>2 DEF Prepare, Prepared
  <2>3. CASE CallExtract
    BY <2>3 DEF CallExtract, Prepared
  <2>4. CASE Extracting \/ CallerCancels \/ UNCHANGED allVars
    BY <2>4 DEF Extracting, CallerCancels, allVars, runVars, Prepared
  <2> QED
    BY <2>1, <2>2, <2>3, <2>4 DEF RunNext, RunStep
<1> QED
  BY <1>1, <1>2, PTL DEF RunSpec

\* For every article, budget, joiner and tolerance, the text that is sent fits and
\* is the cleaned article or a head and a tail of it.
THEOREM InputFits == RunSpec => []InputIsHeadAndTail
<1>1. Prepared => InputIsHeadAndTail
  <2> SUFFICES ASSUME Prepared, stage = "request"
               PROVE  HeadAndTail(Cleaned(BuildInputText(sections)), text)
    BY DEF InputIsHeadAndTail
  <2>1. sections \in Articles /\ text = Process(BuildInputText(sections))
    BY DEF Prepared
  <2>2. sections \in Seq(Seq(Characters))
    BY <2>1, ArticlesAssumption
  <2>3. BuildInputText(sections) \in Seq(Characters)
    BY <2>2, InputTextType
  <2>4. HeadAndTail(Cleaned(BuildInputText(sections)), Process(BuildInputText(sections)))
    BY <2>3, ProcessFits
  <2> QED
    BY <2>1, <2>4
<1> QED
  BY <1>1, StaysPrepared, PTL

-----------------------------------------------------------------------------
(* A set of places is listed in one way only.                              *)

\* The n places, in their order.
Enumerates(e, n, places) ==
  /\ e \in [1..n -> places]
  /\ \A m, l \in 1..n : m < l => e[m] < e[l]
  /\ \A p \in places : \E m \in 1..n : e[m] = p

Agree(e, f, n) == \A i \in 1..n : e[i] = f[i]

\* The shorter list of the same places is the beginning of the longer one.
LEMMA EnumerationsAgree ==
  ASSUME NEW places \in SUBSET Nat, NEW n \in Nat, NEW k \in Nat,
         NEW e, Enumerates(e, n, places), NEW f, Enumerates(f, k, places)
  PROVE  n <= k /\ Agree(e, f, n)
<1> DEFINE T == {i \in 0..n : i <= k /\ \A m \in 1..i : e[m] = f[m]}
<1>1. 0 \in T
  OBVIOUS
<1>2. /\ \A m \in 1..n : e[m] \in Nat /\ e[m] \in places
      /\ \A m \in 1..k : f[m] \in Nat /\ f[m] \in places
  BY DEF Enumerates
<1>3. ASSUME NEW i \in 0..n, i \in T, i < n PROVE i + 1 \in T
  <2>1. i <= k /\ i + 1 \in 1..n /\ \A m \in 1..i : e[m] = f[m] /\ m < i + 1 /\ m \in 1..n /\ m \in 1..k
    BY <1>3
  <2>2. PICK l \in 1..k : f[l] = e[i + 1]
    BY <1>2, <2>1 DEF Enumerates
  <2>3. l >= i + 1
    <3>1. SUFFICES ASSUME l \in 1..i PROVE FALSE
      BY <2>1
    <3>2. e[l] < e[i + 1] /\ e[l] = f[l]
      BY <2>1, <3>1 DEF Enumerates
    <3> QED
      BY <1>2, <2>1, <2>2, <3>2
  <2>4. i + 1 \in 1..k
    BY <2>1, <2>3
  <2>5. f[i + 1] <= e[i + 1]
    <3>1. i + 1 < l => f[i + 1] < f[l]
      BY <2>4 DEF Enumerates
    <3> QED
      BY <1>2, <2>1, <2>2, <2>3, <2>4, <3>1
  <2>6. PICK r \in 1..n : e[r] = f[i + 1]
    BY <1>2, <2>4 DEF Enumerates
  <2>7. r >= i + 1
    <3>1. SUFFICES ASSUME r \in 1..i PROVE FALSE
      BY <2>1
    <3>2. f[r] < f[i + 1] /\ e[r] = f[r]
      BY <2>1, <2>4, <3>1 DEF Enumerates
    <3> QED
      BY <1>2, <2>4, <2>6, <3>2
  <2>8. e[i + 1] <= f[i + 1]
    <3>1. i + 1 < r => e[i + 1] < e[r]
      BY <2>1 DEF Enumerates
    <3> QED
      BY <1>2, <2>1, <2>4, <2>6, <2>7, <3>1
  <2>9. e[i + 1] = f[i + 1]
    BY <1>2, <2>1, <2>4, <2>5, <2>8
  <2>10. \A m \in 1..(i + 1) : m \in 1..i \/ m = i + 1
    BY <1>3
  <2> QED
    BY <2>1, <2>4, <2>9, <2>10
<1> HIDE DEF T
<1>4. 0..n \subseteq T
  BY <1>1, <1>3, UpTo
<1>5. n \in T
  BY <1>4
<1> QED
  BY <1>5 DEF T, Agree

\* Keep returns what can be listed as the elements at the places.
LEMMA KeepIs ==
  ASSUME NEW S, NEW seq \in Seq(S), NEW places, NEW out \in Seq(S), NEW e,
         Lists(seq, places, Len(seq), out, e)
  PROVE  Keep(seq, places) = out
<1> DEFINE kept == Keep(seq, places)
           taken == places \cap (1..Len(seq))
<1>1. kept \in Seq(S) /\ Len(seq) \in Nat /\ Len(out) \in Nat
  BY KeepLists, LenProperties
<1>2. PICK f : Lists(seq, places, Len(seq), kept, f)
  BY KeepLists
<1> HIDE DEF kept
<1>3. Len(kept) \in Nat /\ taken \in SUBSET Nat
  BY <1>1, LenProperties
<1>4. Enumerates(e, Len(out), taken) /\ Enumerates(f, Len(kept), taken)
  BY <1>2 DEF Lists, Enumerates
<1> HIDE DEF taken
<1> DEFINE n == Len(out)
           k == Len(kept)
<1>a. n \in Nat /\ k \in Nat /\ Enumerates(e, n, taken) /\ Enumerates(f, k, taken)
  BY <1>1, <1>3, <1>4
<1> HIDE DEF n, k
<1>b. n <= k /\ Agree(e, f, n)
  BY <1>3, <1>a, EnumerationsAgree
<1>c. k <= n
  BY <1>3, <1>a, EnumerationsAgree
<1>5. /\ Len(out) <= Len(kept) /\ \A i \in 1..Len(out) : e[i] = f[i]
  BY <1>b DEF n, k, Agree
<1>6. Len(kept) <= Len(out)
  BY <1>c DEF n, k
<1>7. Len(kept) = Len(out)
  BY <1>1, <1>3, <1>5, <1>6
<1>8. \A i \in 1..Len(out) : kept[i] = out[i]
  BY <1>2, <1>5, <1>7 DEF Lists
<1>9. kept = out
  BY <1>1, <1>7, <1>8, SeqEqual
<1> QED
  BY <1>9 DEF kept

\* Keeping every place changes nothing.
LEMMA KeepAll ==
  ASSUME NEW S, NEW seq \in Seq(S), NEW places, 1..Len(seq) \subseteq places
  PROVE  Keep(seq, places) = seq
<1> DEFINE e == [i \in 1..Len(seq) |-> i]
<1>1. Len(seq) \in Nat
  BY LenProperties
<1>2. Lists(seq, places, Len(seq), seq, e)
  BY <1>1 DEF Lists
<1> QED
  BY <1>2, KeepIs

\* The places among the first n, and those among the k that follow them.
Begins(places, n, inX) == \A i \in 1..n : i \in places <=> i \in inX

Continues(places, n, k, inY) == \A i \in 1..k : n + i \in places <=> i \in inY

\* Keep of two sequences, one after the other.
LEMMA KeepConcat ==
  ASSUME NEW S, NEW x \in Seq(S), NEW y \in Seq(S), NEW places, NEW inX, NEW inY,
         Begins(places, Len(x), inX), Continues(places, Len(x), Len(y), inY)
  PROVE  Keep(x \o y, places) = Keep(x, inX) \o Keep(y, inY)
<1> DEFINE n == Len(x)
           k == Len(y)
           u == Keep(x, inX)
           v == Keep(y, inY)
           a == Len(u)
           b == Len(v)
           z == x \o y
           out == u \o v
<1>1. u \in Seq(S) /\ v \in Seq(S)
  BY KeepLists
<1>2. PICK d : Lists(x, inX, n, u, d)
  BY KeepLists
<1>3. PICK f : Lists(y, inY, k, v, f)
  BY KeepLists
<1> HIDE DEF u, v
<1>4. n \in Nat /\ k \in Nat /\ a \in Nat /\ b \in Nat
  BY <1>1, LenProperties
<1>5. /\ z \in Seq(S) /\ Len(z) = n + k
      /\ \A i \in 1..n : z[i] = x[i]
      /\ \A i \in 1..k : z[n + i] = y[i]
  <2>1. /\ z \in Seq(S) /\ Len(z) = n + k
        /\ \A i \in 1..(n + k) : z[i] = IF i <= n THEN x[i] ELSE y[i - n]
    BY ConcatProperties
  <2> HIDE DEF n, k, z
  <2>2. \A i \in 1..n : i \in 1..(n + k) /\ i <= n
    BY <1>4
  <2>3. \A i \in 1..k : n + i \in 1..(n + k) /\ ~ (n + i <= n) /\ (n + i) - n = i
    BY <1>4
  <2> QED
    BY <2>1, <2>2, <2>3
<1>6. /\ out \in Seq(S) /\ Len(out) = a + b
      /\ \A i \in 1..a : out[i] = u[i]
      /\ \A i \in 1..b : out[a + i] = v[i]
  <2>1. /\ out \in Seq(S) /\ Len(out) = a + b
        /\ \A i \in 1..(a + b) : out[i] = IF i <= a THEN u[i] ELSE v[i - a]
    BY <1>1, ConcatProperties
  <2> HIDE DEF a, b, out
  <2>2. \A i \in 1..a : i \in 1..(a + b) /\ i <= a
    BY <1>4
  <2>3. \A i \in 1..b : a + i \in 1..(a + b) /\ ~ (a + i <= a) /\ (a + i) - a = i
    BY <1>4
  <2> QED
    BY <2>1, <2>2, <2>3
<1>7. /\ \A i \in 1..n : i \in places <=> i \in inX
      /\ \A i \in 1..k : n + i \in places <=> i \in inY
  BY DEF Begins, Continues
<1>8. /\ \A m \in 1..a : d[m] \in inX /\ d[m] \in 1..n /\ u[m] = x[d[m]]
      /\ \A m \in 1..b : f[m] \in inY /\ f[m] \in 1..k /\ v[m] = y[f[m]]
  BY <1>2, <1>3 DEF Lists
<1>9. /\ \A m, l \in 1..a : m < l => d[m] < d[l]
      /\ \A m, l \in 1..b : m < l => f[m] < f[l]
      /\ \A p \in inX \cap (1..n) : \E m \in 1..a : d[m] = p
      /\ \A p \in inY \cap (1..k) : \E m \in 1..b : f[m] = p
  BY <1>2, <1>3 DEF Lists
<1> DEFINE e == [m \in 1..(a + b) |-> IF m <= a THEN d[m] ELSE n + f[m - a]]
<1>10. /\ \A m \in 1..a : m \in 1..(a + b) /\ e[m] = d[m]
       /\ \A m \in 1..b : a + m \in 1..(a + b) /\ e[a + m] = n + f[m]
  <2> HIDE DEF n, a, b
  <2>1. \A m \in 1..a : m \in 1..(a + b) /\ m <= a
    BY <1>4
  <2>2. \A m \in 1..b : a + m \in 1..(a + b) /\ ~ (a + m <= a) /\ (a + m) - a = m
    BY <1>4
  <2> QED
    BY <2>1, <2>2
<1>11. \A m \in 1..(a + b) : m \in 1..a \/ \E l \in 1..b : m = a + l
  <2> SUFFICES ASSUME NEW m \in 1..(a + b), m \notin 1..a PROVE \E l \in 1..b : m = a + l
    OBVIOUS
  <2> HIDE DEF a, b
  <2>1. m - a \in 1..b /\ m = a + (m - a)
    BY <1>4
  <2> QED
    BY <2>1
<1>12. \A p \in 1..(n + k) : p \in 1..n \/ \E q \in 1..k : p = n + q
  <2> SUFFICES ASSUME NEW p \in 1..(n + k), p \notin 1..n PROVE \E q \in 1..k : p = n + q
    OBVIOUS
  <2> HIDE DEF n, k
  <2>1. p - n \in 1..k /\ p = n + (p - n)
    BY <1>4
  <2> QED
    BY <2>1
<1>13. e = [m \in 1..(a + b) |-> e[m]]
  OBVIOUS
<1> HIDE DEF n, k, a, b, e, z, out
<1>14. \A m \in 1..(a + b) : e[m] \in places \cap (1..(n + k))
  <2> SUFFICES ASSUME NEW m \in 1..(a + b) PROVE e[m] \in places \cap (1..(n + k))
    OBVIOUS
  <2>1. CASE m \in 1..a
    BY <1>4, <1>7, <1>8, <1>10, <2>1
  <2>2. CASE \E l \in 1..b : m = a + l
    <3>1. PICK l \in 1..b : m = a + l
      BY <2>2
    <3>2. e[m] = n + f[l] /\ f[l] \in inY /\ f[l] \in 1..k
      BY <1>8, <1>10, <3>1
    <3>3. n + f[l] \in places /\ n + f[l] \in 1..(n + k)
      BY <1>4, <1>7, <3>2
    <3> QED
      BY <3>2, <3>3
  <2> QED
    BY <1>11, <2>1, <2>2
<1>15. \A m \in 1..(a + b) : out[m] = z[e[m]]
  <2> SUFFICES ASSUME NEW m \in 1..(a + b) PROVE out[m] = z[e[m]]
    OBVIOUS
  <2>1. CASE m \in 1..a
    BY <1>5, <1>6, <1>8, <1>10, <2>1
  <2>2. CASE \E l \in 1..b : m = a + l
    BY <1>5, <1>6, <1>8, <1>10, <2>2
  <2> QED
    BY <1>11, <2>1, <2>2
<1>16. ASSUME NEW m \in 1..(a + b), NEW l \in 1..(a + b), m < l PROVE e[m] < e[l]
  <2>1. CASE m \in 1..a /\ l \in 1..a
    BY <1>9, <1>10, <1>16, <2>1
  <2>2. CASE m \in 1..a /\ \E r \in 1..b : l = a + r
    <3>1. PICK r \in 1..b : l = a + r
      BY <2>2
    <3>2. e[l] = n + f[r] /\ f[r] \in 1..k /\ e[m] = d[m] /\ d[m] \in 1..n
      BY <1>8, <1>10, <2>2, <3>1
    <3> QED
      BY <1>4, <3>2
  <2>3. CASE (\E q \in 1..b : m = a + q) /\ \E r \in 1..b : l = a + r
    <3>1. PICK q \in 1..b : m = a + q
      BY <2>3
    <3>2. PICK r \in 1..b : l = a + r
      BY <2>3
    <3>3. q < r
      BY <1>4, <1>16, <3>1, <3>2
    <3>4. f[q] < f[r] /\ f[q] \in 1..k /\ f[r] \in 1..k
      BY <1>8, <1>9, <3>3
    <3> QED
      BY <1>4, <1>10, <3>1, <3>2, <3>4
  <2>4. CASE (\E q \in 1..b : m = a + q) /\ l \in 1..a
    BY <1>4, <1>16, <2>4
  <2> QED
    BY <1>11, <2>1, <2>2, <2>3, <2>4
<1>17. ASSUME NEW p \in places \cap (1..(n + k)) PROVE \E m \in 1..(a + b) : e[m] = p
  <2>1. CASE p \in 1..n
    <3>1. PICK m \in 1..a : d[m] = p
      BY <1>7, <1>9, <2>1
    <3> QED
      BY <1>10, <3>1
  <2>2. CASE \E q \in 1..k : p = n + q
    <3>1. PICK q \in 1..k : p = n + q
      BY <2>2
    <3>2. PICK m \in 1..b : f[m] = q
      BY <1>7, <1>9, <3>1
    <3> QED
      BY <1>10, <3>1, <3>2
  <2> QED
    BY <1>12, <2>1, <2>2
<1>18. Lists(z, places, n + k, out, e)
  <2>1. e \in [1..(a + b) -> places \cap (1..(n + k))]
    BY <1>13, <1>14
  <2> QED
    BY <1>6, <1>15, <1>16, <1>17, <2>1 DEF Lists
<1>19. Keep(z, places) = out
  BY <1>5, <1>6, <1>18, KeepIs
<1> QED
  BY <1>19 DEF z, out, u, v

-----------------------------------------------------------------------------
(* Splitting.                                                              *)

\* Where the fragments of t end.
EndPlaces(t) == {i \in 1..Len(t) : t[i] \in Separators \/ i = Len(t)}

\* Ends lists the places where fragments end.
LEMMA EndsEnumerate ==
  ASSUME NEW S, NEW t \in Seq(S)
  PROVE  Len(Ends(t)) \in Nat /\ Enumerates(Ends(t), Len(Ends(t)), EndPlaces(t))
<1> DEFINE n == Len(t)
           own == [i \in 1..n |-> i]
           out == Ends(t)
<1>1. n \in Nat /\ DOMAIN t = 1..n
  BY LenProperties
<1>2. own \in Seq(1..n) /\ Len(own) = n /\ \A i \in 1..n : own[i] = i
  BY <1>1
<1>3. out = Keep(own, EndPlaces(t))
  BY <1>1 DEF Ends, EndPlaces
<1> HIDE DEF own, out
<1>4. out \in Seq(1..n)
  BY <1>2, <1>3, KeepLists
<1>5. PICK e : Lists(own, EndPlaces(t), Len(own), out, e)
  BY <1>2, <1>3, KeepLists
<1>6. Len(out) \in Nat /\ out \in [1..Len(out) -> 1..n]
  BY <1>4, LenProperties
<1>7. EndPlaces(t) \cap (1..n) = EndPlaces(t)
  BY DEF EndPlaces
<1>8. \A m \in 1..Len(out) : e[m] \in EndPlaces(t) /\ out[m] = e[m]
  <2> HIDE DEF n
  <2>1. \A m \in 1..Len(out) : e[m] \in EndPlaces(t) \cap (1..n) /\ out[m] = own[e[m]]
    BY <1>2, <1>5 DEF Lists
  <2> QED
    BY <1>2, <2>1
<1>9. out \in [1..Len(out) -> EndPlaces(t)]
  BY <1>6, <1>8
<1>10. \A m, l \in 1..Len(out) : m < l => out[m] < out[l]
  BY <1>5, <1>8 DEF Lists
<1>11. \A p \in EndPlaces(t) : \E m \in 1..Len(out) : out[m] = p
  <2>1. \A p \in EndPlaces(t) : \E m \in 1..Len(out) : e[m] = p
    BY <1>2, <1>5, <1>7 DEF Lists
  <2> QED
    BY <1>8, <2>1
<1>12. Enumerates(out, Len(out), EndPlaces(t))
  BY <1>9, <1>10, <1>11 DEF Enumerates
<1> QED
  BY <1>6, <1>12 DEF out

\* The k-th fragment, which may be empty, and all of them.
Start(t, k) == IF k = 1 THEN 1 ELSE Ends(t)[k - 1] + 1

\* The k-th fragment, that may be empty.
Piece(t, k) == TrimSpace(SubSeq(t, Start(t, k), Ends(t)[k]))

Pieces(t) == [k \in 1..Len(Ends(t)) |-> Piece(t, k)]

\* Fragments lie one behind the other.
LEMMA PiecesInOrder ==
  ASSUME NEW S, NEW t \in Seq(S), NEW k \in 1..Len(Ends(t))
  PROVE  /\ Start(t, k) \in 1..Ends(t)[k] /\ Ends(t)[k] \in EndPlaces(t)
         /\ \A i \in Start(t, k)..(Ends(t)[k] - 1) : i \in 1..Len(t) /\ t[i] \notin Separators
         /\ k < Len(Ends(t)) => Ends(t)[k] < Len(t)
<1> DEFINE ends == Ends(t)
           n == Len(Ends(t))
<1>1. n \in Nat /\ Len(t) \in Nat /\ Enumerates(ends, n, EndPlaces(t))
  BY EndsEnumerate, LenProperties
<1> HIDE DEF ends, n
<1>2. \A m \in 1..n : ends[m] \in EndPlaces(t) /\ ends[m] \in 1..Len(t)
  BY <1>1 DEF Enumerates, EndPlaces
<1>3. k \in 1..n /\ (k # 1 => k - 1 \in 1..n /\ k - 1 < k)
  BY <1>1 DEF n
<1>4. k # 1 => ends[k - 1] < ends[k]
  BY <1>1, <1>3 DEF Enumerates
<1>5. Start(t, k) = IF k = 1 THEN 1 ELSE ends[k - 1] + 1
  BY DEF Start, ends
<1>6. Start(t, k) \in 1..ends[k]
  BY <1>1, <1>2, <1>3, <1>4, <1>5
<1>7. ASSUME NEW i \in Start(t, k)..(ends[k] - 1) PROVE i \in 1..Len(t) /\ t[i] \notin Separators
  <2>1. i \in 1..Len(t) /\ i < ends[k]
    BY <1>1, <1>2, <1>3, <1>6
  <2>2. SUFFICES ASSUME t[i] \in Separators PROVE FALSE
    BY <2>1
  <2>3. PICK m \in 1..n : ends[m] = i
    BY <1>1, <2>1, <2>2 DEF Enumerates, EndPlaces
  <2>4. m < k
    <3>1. k < m => ends[k] < ends[m]
      BY <1>1, <1>3 DEF Enumerates
    <3> QED
      BY <1>1, <1>2, <1>3, <2>1, <2>3, <3>1
  <2>5. m < k - 1 => ends[m] < ends[k - 1]
    BY <1>1, <1>3, <2>4 DEF Enumerates
  <2>6. k # 1 /\ ends[m] <= ends[k - 1]
    BY <1>1, <1>2, <1>3, <2>4, <2>5
  <2> QED
    BY <1>1, <1>2, <1>3, <1>5, <2>3, <2>6
<1>8. k < n => ends[k] < Len(t)
  <2>1. SUFFICES ASSUME k < n PROVE ends[k] < Len(t)
    OBVIOUS
  <2>2. n \in 1..n
    BY <1>1, <1>3
  <2>3. ends[k] < ends[n] /\ ends[n] \in 1..Len(t) /\ ends[k] \in 1..Len(t)
    BY <1>1, <1>2, <1>3, <2>1, <2>2 DEF Enumerates
  <2> QED
    BY <1>1, <2>3
<1> QED
  BY <1>2, <1>3, <1>6, <1>7, <1>8 DEF ends, n

\* SplitFragments are the pieces that are not empty.
LEMMA PiecesType ==
  ASSUME NEW S, NEW t \in Seq(S)
  PROVE  /\ Pieces(t) \in Seq(Seq(S)) /\ Len(Pieces(t)) = Len(Ends(t))
         /\ \A k \in 1..Len(Ends(t)) : Pieces(t)[k] = Piece(t, k)
         /\ SplitFragments(t) = NotEmpty(Pieces(t))
<1> DEFINE n == Len(Ends(t))
           Q == Seq(S)
<1>1. n \in Nat /\ DOMAIN Ends(t) = 1..n
  <2>1. Ends(t) \in Seq(1..Len(t))
    BY EndsType
  <2> QED
    BY <2>1, LenProperties
<1>2. ASSUME NEW k \in 1..n PROVE Piece(t, k) \in Q
  <2> DEFINE p == Start(t, k)
             q == Ends(t)[k]
  <2>1. p \in Nat \ {0} /\ q \in 0..Len(t)
    BY PiecesInOrder, LenProperties DEF EndPlaces
  <2> HIDE DEF p, q
  <2>2. SubSeq(t, p, q) \in Seq(S)
    BY <2>1, PieceType
  <2> QED
    BY <2>2, TrimType DEF Piece, p, q
<1>3. SplitFragments(t) = NotEmpty(Pieces(t))
  BY <1>1 DEF SplitFragments, Pieces, Piece, Start
<1> HIDE DEF n, Q
<1>4. [k \in 1..n |-> Piece(t, k)] \in Seq(Q) /\ Len([k \in 1..n |-> Piece(t, k)]) = n
  BY <1>1, <1>2
<1> QED
  BY <1>3, <1>4 DEF Pieces, n, Q

\* Two texts one after the other.
LEMMA ConcatPlaces ==
  ASSUME NEW S, NEW x \in Seq(S), NEW y \in Seq(S)
  PROVE  /\ x \o y \in Seq(S) /\ Len(x \o y) = Len(x) + Len(y)
         /\ \A i \in 1..Len(x) : (x \o y)[i] = x[i]
         /\ \A i \in 1..Len(y) : (x \o y)[Len(x) + i] = y[i]
         /\ \A i \in 1..Len(x \o y) : i \in 1..Len(x) \/ \E j \in 1..Len(y) : i = Len(x) + j
<1> DEFINE n == Len(x)
           k == Len(y)
           z == x \o y
<1>1. /\ z \in Seq(S) /\ Len(z) = n + k
      /\ \A i \in 1..(n + k) : z[i] = IF i <= n THEN x[i] ELSE y[i - n]
  BY ConcatProperties
<1>2. n \in Nat /\ k \in Nat
  BY LenProperties
<1> HIDE DEF n, k, z
<1>3. \A i \in 1..n : i \in 1..(n + k) /\ i <= n
  BY <1>2
<1>4. \A i \in 1..k : n + i \in 1..(n + k) /\ ~ (n + i <= n) /\ (n + i) - n = i
  BY <1>2
<1>5. ASSUME NEW i \in 1..(n + k), i \notin 1..n PROVE \E j \in 1..k : i = n + j
  <2>1. i - n \in 1..k /\ i = n + (i - n)
    BY <1>2, <1>5
  <2> QED
    BY <2>1
<1> QED
  BY <1>1, <1>3, <1>4, <1>5 DEF n, k, z

\* Where a text ends in a separator, its last fragment ends, and the next begins.
LEMMA EndsConcat ==
  ASSUME NEW S, NEW x \in Seq(S), NEW y \in Seq(S),
         Len(x) > 0, x[Len(x)] \in Separators, Len(y) > 0
  PROVE  LET a == Len(Ends(x))
             b == Len(Ends(y)) IN
         /\ a > 0 /\ Ends(x)[a] = Len(x)
         /\ Len(Ends(x \o y)) = a + b
         /\ \A m \in 1..a : Ends(x \o y)[m] = Ends(x)[m]
         /\ \A m \in 1..b : Ends(x \o y)[a + m] = Len(x) + Ends(y)[m]
<1> DEFINE n == Len(x)
           k == Len(y)
           z == x \o y
           a == Len(Ends(x))
           b == Len(Ends(y))
           c == Len(Ends(z))
           e == Ends(x)
           f == Ends(y)
           g == Ends(z)
           h == [m \in 1..(a + b) |-> IF m <= a THEN e[m] ELSE n + f[m - a]]
<1>1. n \in Nat /\ k \in Nat /\ n \in 1..n
  BY LenProperties
<1>2. /\ z \in Seq(S) /\ Len(z) = n + k
      /\ \A i \in 1..n : z[i] = x[i]
      /\ \A i \in 1..k : z[n + i] = y[i]
      /\ \A i \in 1..(n + k) : i \in 1..n \/ \E j \in 1..k : i = n + j
  <2>1. z \in Seq(S) /\ Len(z) = n + k
    BY ConcatPlaces
  <2>2. /\ \A i \in 1..n : z[i] = x[i]
        /\ \A i \in 1..k : z[n + i] = y[i]
        /\ \A i \in 1..Len(z) : i \in 1..n \/ \E j \in 1..k : i = n + j
    BY ConcatPlaces
  <2> HIDE DEF n, k, z
  <2> QED
    BY <2>1, <2>2
<1>3. /\ a \in Nat /\ b \in Nat
      /\ Enumerates(e, a, EndPlaces(x)) /\ Enumerates(f, b, EndPlaces(y))
  BY EndsEnumerate
<1>4. c \in Nat /\ Enumerates(g, c, EndPlaces(z))
  BY <1>2, EndsEnumerate
<1>5. x[n] \in Separators /\ k > 0
  OBVIOUS
<1>6. /\ \A m \in 1..a : m \in 1..(a + b) /\ h[m] = e[m]
      /\ \A m \in 1..b : a + m \in 1..(a + b) /\ h[a + m] = n + f[m]
      /\ \A m \in 1..(a + b) : m \in 1..a \/ \E l \in 1..b : m = a + l
      /\ h = [m \in 1..(a + b) |-> h[m]]
  <2> HIDE DEF a, b, e, f, n
  <2>1. \A m \in 1..a : m \in 1..(a + b) /\ m <= a
    BY <1>3
  <2>2. \A m \in 1..b : a + m \in 1..(a + b) /\ ~ (a + m <= a) /\ (a + m) - a = m
    BY <1>3
  <2>3. ASSUME NEW m \in 1..(a + b), m \notin 1..a PROVE \E l \in 1..b : m = a + l
    <3>1. m - a \in 1..b /\ m = a + (m - a)
      BY <1>3, <2>3
    <3> QED
      BY <3>1
  <2> QED
    BY <2>1, <2>2, <2>3
<1> HIDE DEF n, k, z, a, b, c, e, f, g, h
<1>7. /\ \A i \in 1..n : i \in EndPlaces(z) <=> i \in EndPlaces(x)
      /\ \A i \in 1..k : n + i \in EndPlaces(z) <=> i \in EndPlaces(y)
  <2>1. \A i : i \in EndPlaces(z) <=> i \in 1..(n + k) /\ (z[i] \in Separators \/ i = n + k)
    BY <1>2 DEF EndPlaces
  <2>2. \A i : i \in EndPlaces(x) <=> i \in 1..n /\ (x[i] \in Separators \/ i = n)
    BY DEF EndPlaces, n
  <2>3. \A i : i \in EndPlaces(y) <=> i \in 1..k /\ (y[i] \in Separators \/ i = k)
    BY DEF EndPlaces, k
  <2>4. \A i \in 1..n : i \in 1..(n + k) /\ i # n + k
    BY <1>1, <1>5
  <2>5. \A i \in 1..k : n + i \in 1..(n + k) /\ (n + i = n + k <=> i = k)
    BY <1>1
  <2>6. \A i \in 1..n : i \in EndPlaces(z) <=> i \in EndPlaces(x)
    BY <1>2, <1>5, <2>1, <2>2, <2>4
  <2>7. \A i \in 1..k : n + i \in EndPlaces(z) <=> i \in EndPlaces(y)
    BY <1>2, <2>1, <2>3, <2>5
  <2> QED
    BY <2>6, <2>7
<1>8. /\ \A m \in 1..a : e[m] \in EndPlaces(x) /\ e[m] \in 1..n
      /\ \A m \in 1..b : f[m] \in EndPlaces(y) /\ f[m] \in 1..k
      /\ EndPlaces(z) \subseteq 1..(n + k)
  <2>1. EndPlaces(x) \subseteq 1..n /\ EndPlaces(y) \subseteq 1..k
    BY DEF EndPlaces, n, k
  <2>2. EndPlaces(z) \subseteq 1..(n + k)
    BY <1>2 DEF EndPlaces
  <2> QED
    BY <1>3, <2>1, <2>2 DEF Enumerates
<1>9. Enumerates(h, a + b, EndPlaces(z))
  <2>1. ASSUME NEW m \in 1..(a + b) PROVE h[m] \in EndPlaces(z)
    <3>1. CASE m \in 1..a
      BY <1>6, <1>7, <1>8, <3>1
    <3>2. CASE \E l \in 1..b : m = a + l
      <4>1. PICK l \in 1..b : m = a + l
        BY <3>2
      <4>2. h[m] = n + f[l] /\ f[l] \in EndPlaces(y) /\ f[l] \in 1..k
        BY <1>6, <1>8, <4>1
      <4> QED
        BY <1>7, <4>2
    <3> QED
      BY <1>6, <3>1, <3>2
  <2>2. h \in [1..(a + b) -> EndPlaces(z)]
    BY <1>6, <2>1
  <2>3. ASSUME NEW m \in 1..(a + b), NEW l \in 1..(a + b), m < l PROVE h[m] < h[l]
    <3>1. CASE m \in 1..a /\ l \in 1..a
      BY <1>3, <1>6, <2>3, <3>1 DEF Enumerates
    <3>2. CASE m \in 1..a /\ \E r \in 1..b : l = a + r
      <4>1. PICK r \in 1..b : l = a + r
        BY <3>2
      <4>2. h[l] = n + f[r] /\ f[r] \in 1..k /\ h[m] = e[m] /\ e[m] \in 1..n
        BY <1>6, <1>8, <3>2, <4>1
      <4> QED
        BY <1>1, <4>2
    <3>3. CASE (\E q \in 1..b : m = a + q) /\ \E r \in 1..b : l = a + r
      <4>1. PICK q \in 1..b : m = a + q
        BY <3>3
      <4>2. PICK r \in 1..b : l = a + r
        BY <3>3
      <4>3. q < r
        BY <1>3, <2>3, <4>1, <4>2
      <4>4. f[q] < f[r] /\ f[q] \in 1..k /\ f[r] \in 1..k
        BY <1>3, <1>8, <4>3 DEF Enumerates
      <4>5. h[m] = n + f[q] /\ h[l] = n + f[r]
        BY <1>6, <4>1, <4>2
      <4> QED
        BY <1>1, <4>4, <4>5
    <3>4. CASE (\E q \in 1..b : m = a + q) /\ l \in 1..a
      BY <1>3, <2>3, <3>4
    <3> QED
      BY <1>6, <3>1, <3>2, <3>3, <3>4
  <2>4. ASSUME NEW p \in EndPlaces(z) PROVE \E m \in 1..(a + b) : h[m] = p
    <3>1. CASE p \in 1..n
      <4>1. PICK m \in 1..a : e[m] = p
        BY <1>3, <1>7, <3>1 DEF Enumerates
      <4> QED
        BY <1>6, <4>1
    <3>2. CASE \E q \in 1..k : p = n + q
      <4>1. PICK q \in 1..k : p = n + q
        BY <3>2
      <4>2. PICK m \in 1..b : f[m] = q
        BY <1>3, <1>7, <4>1 DEF Enumerates
      <4> QED
        BY <1>6, <4>1, <4>2
    <3> QED
      BY <1>2, <1>8, <3>1, <3>2
  <2> QED
    BY <2>2, <2>3, <2>4 DEF Enumerates
<1>10. c = a + b /\ \A m \in 1..(a + b) : g[m] = h[m]
  <2>1. EndPlaces(z) \in SUBSET Nat /\ a + b \in Nat
    BY <1>1, <1>3, <1>8
  <2>2. c <= a + b /\ a + b <= c /\ Agree(h, g, a + b)
    BY <1>4, <1>9, <2>1, EnumerationsAgree
  <2> QED
    BY <1>4, <2>1, <2>2 DEF Agree
<1>11. a > 0 /\ e[a] = n
  <2>1. PICK m \in 1..a : e[m] = n
    <3>1. n \in EndPlaces(x)
      BY <1>1 DEF EndPlaces, n
    <3> QED
      BY <1>3, <3>1 DEF Enumerates
  <2>2. a \in 1..a
    BY <1>3, <2>1
  <2>3. m < a => e[m] < e[a]
    BY <1>3, <2>2 DEF Enumerates
  <2>4. e[a] \in 1..n
    BY <1>8, <2>2
  <2> QED
    BY <1>1, <1>3, <2>1, <2>2, <2>3, <2>4
<1> QED
  BY <1>6, <1>10, <1>11 DEF n, z, a, b, c, e, f, g

\* A text that ends in a separator is split apart from what follows it.
LEMMA SplitConcat ==
  ASSUME NEW S, NEW x \in Seq(S), NEW y \in Seq(S),
         Len(x) > 0, x[Len(x)] \in Separators, Len(y) > 0
  PROVE  SplitFragments(x \o y) = SplitFragments(x) \o SplitFragments(y)
<1> DEFINE z == x \o y
           n == Len(x)
           a == Len(Ends(x))
           b == Len(Ends(y))
           Q == Seq(S)
<1>1. z \in Seq(S) /\ Len(z) = n + Len(y) /\ n \in Nat /\ Len(y) \in Nat
  BY ConcatPlaces, LenProperties
<1>2. /\ a > 0 /\ Ends(x)[a] = n /\ Len(Ends(z)) = a + b
      /\ \A m \in 1..a : Ends(z)[m] = Ends(x)[m]
      /\ \A m \in 1..b : Ends(z)[a + m] = n + Ends(y)[m]
  BY EndsConcat
<1>3. a \in Nat /\ b \in Nat
  BY EndsEnumerate
<1>4. /\ Pieces(x) \in Seq(Q) /\ Len(Pieces(x)) = a /\ \A k \in 1..a : Pieces(x)[k] = Piece(x, k)
      /\ Pieces(y) \in Seq(Q) /\ Len(Pieces(y)) = b /\ \A k \in 1..b : Pieces(y)[k] = Piece(y, k)
  BY PiecesType
<1>5. Pieces(z) \in Seq(Q) /\ Len(Pieces(z)) = a + b /\ \A k \in 1..(a + b) : Pieces(z)[k] = Piece(z, k)
  <2> HIDE DEF z
  <2>1. Len(Ends(z)) = a + b
    BY <1>2
  <2>2. Pieces(z) \in Seq(Q) /\ Len(Pieces(z)) = Len(Ends(z)) /\ \A k \in 1..Len(Ends(z)) : Pieces(z)[k] = Piece(z, k)
    BY <1>1, PiecesType
  <2> QED
    BY <2>1, <2>2
<1>6. ASSUME NEW k \in 1..a PROVE Piece(z, k) = Piece(x, k)
  <2>1. Start(x, k) \in 1..Ends(x)[k] /\ Ends(x)[k] \in 1..n
    BY PiecesInOrder DEF EndPlaces
  <2>2. k # 1 => k - 1 \in 1..a
    BY <1>3
  <2>3. Start(z, k) = Start(x, k) /\ Ends(z)[k] = Ends(x)[k]
    BY <1>2, <2>2 DEF Start
  <2>4. SubSeq(z, Start(x, k), Ends(x)[k]) = SubSeq(x, Start(x, k), Ends(x)[k])
    <3> DEFINE p == Start(x, k)
               q == Ends(x)[k]
    <3>1. p \in 1..Len(x) /\ q \in 1..Len(x)
      BY <1>1, <2>1
    <3> HIDE DEF p, q
    <3>2. SubSeq(x \o y, p, q) = SubSeq(x, p, q)
      BY <3>1, SubSeqOfConcat1
    <3> QED
      BY <3>2 DEF p, q
  <2> QED
    BY <2>3, <2>4 DEF Piece
<1>7. ASSUME NEW k \in 1..b PROVE Piece(z, a + k) = Piece(y, k)
  <2>1. Start(y, k) \in 1..Ends(y)[k] /\ Ends(y)[k] \in 1..Len(y)
    BY PiecesInOrder DEF EndPlaces
  <2>2. Ends(z)[a + k] = n + Ends(y)[k]
    BY <1>2
  <2>3. Start(z, a + k) = n + Start(y, k)
    <3>1. a + k # 1
      BY <1>2, <1>3
    <3>2. CASE k = 1
      <4>1. a \in 1..a /\ (a + k) - 1 = a
        BY <1>2, <1>3, <3>2
      <4>2. Ends(z)[(a + k) - 1] = n
        BY <1>2, <4>1
      <4> QED
        BY <3>1, <3>2, <4>2 DEF Start
    <3>3. CASE k # 1
      <4>1. k - 1 \in 1..b /\ (a + k) - 1 = a + (k - 1)
        BY <1>3, <3>3
      <4>2. Ends(z)[(a + k) - 1] = n + Ends(y)[k - 1]
        BY <1>2, <4>1
      <4>3. Ends(y)[k - 1] \in 1..Len(y)
        BY <4>1, PiecesInOrder DEF EndPlaces
      <4> QED
        BY <1>1, <3>1, <3>3, <4>2, <4>3 DEF Start
    <3> QED
      BY <3>2, <3>3
  <2>4. SubSeq(z, n + Start(y, k), n + Ends(y)[k]) = SubSeq(y, Start(y, k), Ends(y)[k])
    <3> DEFINE p == Start(y, k)
               q == Ends(y)[k]
    <3>1. /\ n + p \in (Len(x) + 1)..(Len(x) + Len(y)) /\ n + q \in (Len(x) + 1)..(Len(x) + Len(y))
          /\ (n + p) - Len(x) = p /\ (n + q) - Len(x) = q
      BY <1>1, <2>1
    <3> HIDE DEF p, q, n
    <3>2. SubSeq(x \o y, n + p, n + q) = SubSeq(y, (n + p) - Len(x), (n + q) - Len(x))
      BY <3>1, SubSeqOfConcat2
    <3> QED
      BY <3>1, <3>2 DEF p, q
  <2> QED
    BY <2>2, <2>3, <2>4 DEF Piece
<1>8. Pieces(z) = Pieces(x) \o Pieces(y)
  <2> DEFINE r == Pieces(x) \o Pieces(y)
             u == Pieces(x)
             v == Pieces(y)
             w == Pieces(z)
  <2>0. /\ u \in Seq(Q) /\ Len(u) = a /\ v \in Seq(Q) /\ Len(v) = b
        /\ w \in Seq(Q) /\ Len(w) = a + b
    BY <1>4, <1>5
  <2>a. /\ \A k \in 1..a : k \in 1..(a + b) /\ w[k] = u[k]
        /\ \A k \in 1..b : a + k \in 1..(a + b) /\ w[a + k] = v[k]
    <3>1. /\ \A k \in 1..a : k \in 1..(a + b)
          /\ \A k \in 1..b : a + k \in 1..(a + b)
      BY <1>3
    <3> HIDE DEF a, b
    <3> QED
      BY <1>4, <1>5, <1>6, <1>7, <3>1
  <2> HIDE DEF u, v, w, Q, a, b
  <2>1. /\ u \o v \in Seq(Q) /\ Len(u \o v) = Len(u) + Len(v)
        /\ \A i \in 1..Len(u) : (u \o v)[i] = u[i]
        /\ \A i \in 1..Len(v) : (u \o v)[Len(u) + i] = v[i]
        /\ \A i \in 1..Len(u \o v) : i \in 1..Len(u) \/ \E j \in 1..Len(v) : i = Len(u) + j
    BY <2>0, ConcatPlaces
  <2>2. ASSUME NEW i \in 1..Len(w) PROVE w[i] = (u \o v)[i]
    <3>1. i \in 1..a \/ \E j \in 1..b : i = a + j
      BY <2>0, <2>1
    <3>2. CASE i \in 1..a
      BY <2>0, <2>a, <2>1, <3>2
    <3>3. CASE \E j \in 1..b : i = a + j
      <4>1. PICK j \in 1..b : i = a + j
        BY <3>3
      <4>2. w[a + j] = v[j] /\ (u \o v)[a + j] = v[j]
        BY <2>0, <2>a, <2>1
      <4> QED
        BY <4>1, <4>2
    <3> QED
      BY <3>1, <3>2, <3>3
  <2>3. w = u \o v
    BY <2>0, <2>1, <2>2, SeqEqual
  <2> QED
    BY <2>3 DEF u, v, w
<1>9. NotEmpty(Pieces(z)) = NotEmpty(Pieces(x)) \o NotEmpty(Pieces(y))
  <2> DEFINE u == Pieces(x)
             v == Pieces(y)
             w == Pieces(z)
             Full(s) == {k \in DOMAIN s : s[k] # <<>>}
  <2>1. /\ u \in Seq(Q) /\ v \in Seq(Q) /\ w \in Seq(Q) /\ w = u \o v
        /\ DOMAIN u = 1..Len(u) /\ DOMAIN v = 1..Len(v) /\ DOMAIN w = 1..Len(w)
    BY <1>4, <1>5, <1>8, LenProperties
  <2> HIDE DEF u, v, w, Q
  <2>2. /\ Len(w) = Len(u) + Len(v)
        /\ \A i \in 1..Len(u) : w[i] = u[i]
        /\ \A i \in 1..Len(v) : w[Len(u) + i] = v[i]
    BY <2>1, ConcatPlaces
  <2>3. Len(u) \in Nat /\ Len(v) \in Nat
    BY <2>1, LenProperties
  <2>4. \A i \in 1..Len(u) : i \in Full(w) <=> i \in Full(u)
    BY <2>1, <2>2, <2>3
  <2>5. \A i \in 1..Len(v) : Len(u) + i \in Full(w) <=> i \in Full(v)
    <3>1. \A i \in 1..Len(v) : Len(u) + i \in 1..Len(w)
      BY <2>2, <2>3
    <3> QED
      BY <2>1, <2>2, <3>1
  <2>6. Keep(u \o v, Full(w)) = Keep(u, Full(u)) \o Keep(v, Full(v))
    <3> DEFINE inU == Full(u)
               inV == Full(v)
               inW == Full(w)
    <3>1. Begins(inW, Len(u), inU) /\ Continues(inW, Len(u), Len(v), inV)
      BY <2>4, <2>5 DEF Begins, Continues
    <3> HIDE DEF inU, inV, inW, Full
    <3>2. u \in Seq(Q) /\ v \in Seq(Q)
      BY <2>1
    <3>3. Keep(u \o v, inW) = Keep(u, inU) \o Keep(v, inV)
      BY <3>1, <3>2, KeepConcat
    <3> QED
      BY <3>3 DEF inU, inV, inW
  <2> QED
    BY <2>1, <2>6 DEF NotEmpty, Full, u, v, w
<1>10. /\ SplitFragments(x) = NotEmpty(Pieces(x)) /\ SplitFragments(y) = NotEmpty(Pieces(y))
  BY PiecesType
<1>11. SplitFragments(z) = NotEmpty(Pieces(z))
  <2> HIDE DEF z
  <2> QED
    BY <1>1, PiecesType
<1> QED
  BY <1>9, <1>10, <1>11

-----------------------------------------------------------------------------
(* Sentences.                                                              *)

\* Nothing that Normalize would change.
Neat(t) ==
  /\ Tidy(t)
  /\ \A i \in 1..(Len(t) - 1) : t[i] = Space => t[i + 1] \notin Punctuation

\* A fragment of a normalized text.
Sentence(f) ==
  /\ Neat(f) /\ Len(f) > 0
  /\ \A i \in 1..(Len(f) - 1) : f[i] \notin Separators

\* A sentence that its separator ends.
Ended(f) == f[Len(f)] \in Separators

\* The places that Normalize keeps.
Stays(t) == Inked(t) \cup {i \in 1..Len(t) : WordFollows(t, i)}

\* Normalize does not change a neat text.
LEMMA NeatStays ==
  ASSUME NEW S, NEW t \in Seq(S), Neat(t)
  PROVE  Normalize(t) = t
<1>1. Len(t) \in Nat
  BY LenProperties
<1>2. ASSUME NEW i \in 1..Len(t), t[i] = Space PROVE WordFollows(t, i)
  <2>1. i # 1 /\ i # Len(t)
    BY <1>1, <1>2 DEF Neat, Tidy
  <2>2. i - 1 \in 1..(Len(t) - 1) /\ i \in 1..(Len(t) - 1) /\ (i - 1) + 1 = i
        /\ i > 1 /\ i + 1 \in 1..Len(t) /\ i + 1 > i
    BY <1>1, <2>1
  <2>3. t[i - 1] # Space /\ t[i + 1] # Space /\ t[i + 1] \notin Punctuation
    BY <1>2, <2>2 DEF Neat, Tidy
  <2>4. i + 1 \in Inked(t)
    BY <2>2, <2>3 DEF Inked
  <2>5. \A l \in Inked(t) : l > i => l >= i + 1
    BY <1>1 DEF Inked
  <2> QED
    BY <2>2, <2>3, <2>4, <2>5 DEF WordFollows
<1>3. 1..Len(t) \subseteq Stays(t)
  BY <1>2 DEF Stays, Inked
<1>4. Keep(t, Stays(t)) = t
  BY <1>3, KeepAll
<1> QED
  BY <1>4 DEF Normalize, Stays

\* Normalize leaves a neat text.
LEMMA NormalizeNeatens ==
  ASSUME NEW S, NEW t \in Seq(S)
  PROVE  Normalize(t) \in Seq(S) /\ Neat(Normalize(t))
<1> DEFINE out == Normalize(t)
<1>1. out = Keep(t, Stays(t))
  BY DEF Normalize, Stays
<1>2. out \in Seq(S) /\ Tidy(out)
  BY NormalizeTidies
<1>3. PICK e : Lists(t, Stays(t), Len(t), out, e)
  BY <1>1, KeepLists
<1> HIDE DEF out
<1>4. Len(t) \in Nat /\ Len(out) \in Nat
  BY <1>2, LenProperties
<1>5. /\ \A m \in 1..Len(out) : e[m] \in Stays(t) /\ e[m] \in 1..Len(t) /\ out[m] = t[e[m]]
      /\ \A m, l \in 1..Len(out) : m < l => e[m] < e[l]
      /\ \A p \in Inked(t) : \E m \in 1..Len(out) : e[m] = p
  BY <1>3 DEF Lists, Stays, Inked
<1>6. ASSUME NEW m \in 1..(Len(out) - 1), out[m] = Space
      PROVE  out[m + 1] \notin Punctuation
  <2>1. m \in 1..Len(out) /\ m + 1 \in 1..Len(out) /\ m < m + 1
    BY <1>4
  <2> DEFINE i == e[m]
             k == e[m + 1]
  <2>2. /\ i \in Stays(t) /\ i \in 1..Len(t) /\ t[i] = Space
        /\ k \in Stays(t) /\ k \in 1..Len(t) /\ i < k /\ out[m + 1] = t[k]
    BY <1>5, <1>6, <2>1
  <2>3. WordFollows(t, i)
    BY <2>2 DEF Stays, Inked
  <2>4. PICK j \in Inked(t) : /\ j > i /\ t[j] \notin Punctuation
                              /\ \A l \in Inked(t) : l > i => l >= j
    BY <2>3 DEF WordFollows
  <2>5. PICK r \in 1..Len(out) : e[r] = j
    BY <1>5
  <2>6. j \in 1..Len(t) /\ t[j] # Space
    BY DEF Inked
  <2> HIDE DEF i, k
  <2>7. r > m
    <3>1. r < m => e[r] < e[m]
      BY <1>5, <2>1
    <3>2. r # m
      BY <2>2, <2>4, <2>5, <2>6 DEF i
    <3> QED
      BY <1>4, <2>2, <2>4, <2>5, <2>6, <3>1, <3>2 DEF i
  <2>8. k <= j
    <3>1. m + 1 < r => e[m + 1] < e[r]
      BY <1>5, <2>1
    <3>2. m + 1 < r \/ m + 1 = r
      BY <1>4, <2>7
    <3> QED
      BY <1>4, <2>2, <2>5, <2>6, <3>1, <3>2 DEF k
  <2>9. t[k] # Space
    <3>1. SUFFICES ASSUME t[k] = Space PROVE FALSE
      OBVIOUS
    <3>2. WordFollows(t, k)
      BY <2>2, <3>1 DEF Stays, Inked
    <3>3. t[k - 1] # Space /\ k - 1 \in 1..Len(t) /\ k - 1 >= i /\ k - 1 < j
      BY <1>4, <2>2, <2>6, <2>8, <3>2 DEF WordFollows
    <3>4. k - 1 # i /\ k - 1 \in Inked(t)
      BY <2>2, <3>3 DEF Inked
    <3>5. k - 1 >= j
      BY <1>4, <2>2, <2>4, <3>3, <3>4
    <3> QED
      BY <1>4, <2>6, <3>3, <3>5
  <2>10. k >= j
    BY <2>2, <2>4, <2>9 DEF Inked
  <2>11. k = j
    BY <1>4, <2>2, <2>6, <2>8, <2>10
  <2> QED
    BY <2>2, <2>4, <2>11
<1>7. Neat(out)
  BY <1>2, <1>6 DEF Neat
<1> QED
  BY <1>2, <1>7 DEF out

\* The blank that RebuildText joins with.
Blank(b) == Len(b) = 1 /\ b[1] = Space

\* With a blank between two words, each is normalized by itself.
LEMMA NormalizeGlued ==
  ASSUME NEW x \in Seq(Characters), NEW f \in Seq(Characters),
         Len(x) > 0, x[Len(x)] # Space,
         Len(f) > 0, f[1] # Space, f[Len(f)] # Space,
         NEW b \in Seq(Characters), Blank(b)
  PROVE  \E g \in {<<>>, b} :
           Normalize((x \o b) \o f) = (Normalize(x) \o g) \o Normalize(f)
<1> DEFINE n == Len(x)
           k == Len(f)
           w == x \o b
           z == w \o f
           d == n + 1
           middle == {i \in {1} : d \in Stays(z)}
<1>1. b \in Seq(Characters) /\ Len(b) = 1 /\ b[1] = Space
  BY DEF Blank
<1>2. n \in Nat /\ k \in Nat /\ n > 0 /\ k > 0
  BY LenProperties
<1>3. x[n] # Space /\ f[1] # Space /\ f[k] # Space
  OBVIOUS
<1>4. /\ w \in Seq(Characters) /\ Len(w) = d
      /\ \A i \in 1..n : w[i] = x[i]
      /\ w[d] = Space
  <2>1. w \in Seq(Characters) /\ Len(w) = n + Len(b)
    BY <1>1, ConcatPlaces
  <2>2. \A i \in 1..n : w[i] = x[i]
    BY <1>1, ConcatPlaces
  <2>3. w[n + 1] = b[1]
    <3>1. \A i \in 1..(n + Len(b)) : w[i] = IF i <= n THEN x[i] ELSE b[i - n]
      BY <1>1, ConcatProperties
    <3> HIDE DEF w, n
    <3>2. n + 1 \in 1..(n + Len(b)) /\ ~ (n + 1 <= n) /\ (n + 1) - n = 1
      BY <1>1, <1>2
    <3> QED
      BY <3>1, <3>2
  <2> HIDE DEF w, n
  <2> QED
    BY <1>1, <2>1, <2>2, <2>3
<1>5. /\ z \in Seq(Characters) /\ Len(z) = d + k
      /\ \A i \in 1..n : z[i] = x[i]
      /\ z[d] = Space
      /\ \A i \in 1..k : z[d + i] = f[i]
      /\ \A i \in 1..(d + k) : i \in 1..n \/ i = d \/ \E j \in 1..k : i = d + j
  <2> HIDE DEF w
  <2>1. z \in Seq(Characters) /\ Len(z) = Len(w) + k
    BY <1>4, ConcatPlaces
  <2>a. \A i \in 1..Len(w) : z[i] = w[i]
    BY <1>4, ConcatPlaces
  <2>b. \A i \in 1..k : z[Len(w) + i] = f[i]
    BY <1>4, ConcatPlaces
  <2>c. ASSUME NEW i \in 1..(d + k), i \notin 1..d PROVE \E j \in 1..k : i = d + j
    <3>1. i - d \in 1..k /\ i = d + (i - d)
      BY <1>2, <2>c
    <3> QED
      BY <3>1
  <2> HIDE DEF z, k
  <2>2. /\ \A i \in 1..n : i \in 1..d
        /\ d \in 1..d
        /\ \A i \in 1..d : i \in 1..n \/ i = d
    BY <1>2
  <2> HIDE DEF d, n
  <2> QED
    BY <1>4, <2>1, <2>2, <2>a, <2>b, <2>c
<1> HIDE DEF z, w, n, k
<1>6. /\ \A i \in 1..n : i \in 1..(d + k) /\ (i \in Inked(z) <=> i \in Inked(x))
      /\ \A i \in 1..k : d + i \in 1..(d + k) /\ (d + i \in Inked(z) <=> i \in Inked(f))
      /\ d \notin Inked(z)
  <2>1. \A i \in 1..n : i \in 1..(d + k)
    BY <1>2
  <2>2. \A i \in 1..k : d + i \in 1..(d + k)
    BY <1>2
  <2> QED
    BY <1>5, <2>1, <2>2 DEF Inked, n, k
<1>7. /\ \A i \in Inked(x) : i \in 1..n
      /\ \A i \in Inked(f) : i \in 1..k
      /\ \A i \in Inked(z) : i \in 1..(d + k)
      /\ n \in Inked(x) /\ 1 \in Inked(f) /\ k \in Inked(f)
  BY <1>2, <1>3, <1>5 DEF Inked, n, k
<1>8. \A l \in Inked(z) : l \in Inked(x) \/ \E j \in Inked(f) : l = d + j
  BY <1>5, <1>6, <1>7
<1>9. ASSUME NEW i \in 1..n, i \notin Inked(x) PROVE WordFollows(z, i) <=> WordFollows(x, i)
  <2>1. i < n
    BY <1>2, <1>7, <1>9
  <2>2. i > 1 => z[i - 1] = x[i - 1]
    BY <1>2, <1>5
  <2>3. ASSUME NEW j \in Inked(z), j > i, z[j] \notin Punctuation, \A l \in Inked(z) : l > i => l >= j
        PROVE  j \in Inked(x) /\ x[j] \notin Punctuation /\ \A l \in Inked(x) : l > i => l >= j
    <3>1. n \in Inked(z)
      BY <1>2, <1>6, <1>7
    <3>2. n >= j /\ j \in 1..(d + k)
      BY <1>2, <1>7, <2>1, <2>3, <3>1
    <3>3. j \in 1..n
      BY <1>2, <3>2
    <3> QED
      BY <1>5, <1>6, <1>7, <2>3, <3>3
  <2>4. ASSUME NEW j \in Inked(x), j > i, x[j] \notin Punctuation, \A l \in Inked(x) : l > i => l >= j
        PROVE  j \in Inked(z) /\ z[j] \notin Punctuation /\ \A l \in Inked(z) : l > i => l >= j
    <3>1. j \in 1..n /\ j \in Inked(z) /\ z[j] \notin Punctuation
      BY <1>5, <1>6, <1>7, <2>4
    <3>2. ASSUME NEW l \in Inked(z), l > i PROVE l >= j
      <4>1. CASE l \in Inked(x)
        BY <2>4, <3>2, <4>1
      <4>2. CASE \E r \in Inked(f) : l = d + r
        <5>1. PICK r \in Inked(f) : l = d + r
          BY <4>2
        <5> QED
          BY <1>2, <1>7, <3>1, <5>1
      <4> QED
        BY <1>8, <4>1, <4>2
    <3> QED
      BY <3>1, <3>2
  <2> QED
    BY <2>2, <2>3, <2>4 DEF WordFollows
<1>10. ASSUME NEW i \in 1..k, i \notin Inked(f) PROVE WordFollows(z, d + i) <=> WordFollows(f, i)
  <2>1. i > 1 /\ d + i > 1
    BY <1>2, <1>7, <1>10
  <2>2. z[(d + i) - 1] = f[i - 1]
    <3>1. i - 1 \in 1..k /\ (d + i) - 1 = d + (i - 1)
      BY <1>2, <2>1
    <3> QED
      BY <1>5, <3>1
  <2>3. ASSUME NEW j \in Inked(z), j > d + i, z[j] \notin Punctuation, \A l \in Inked(z) : l > d + i => l >= j
        PROVE  \E r \in Inked(f) : r > i /\ f[r] \notin Punctuation /\ \A l \in Inked(f) : l > i => l >= r
    <3>1. j \notin Inked(x)
      <4>1. d + i > n /\ d + i \in Int
        BY <1>2
      <4> HIDE DEF d
      <4> QED
        BY <1>2, <1>7, <2>3, <4>1
    <3>2. PICK r \in Inked(f) : j = d + r
      BY <1>8, <3>1
    <3>3. r \in 1..k /\ r > i /\ f[r] \notin Punctuation
      BY <1>2, <1>5, <1>7, <2>3, <3>2
    <3>4. ASSUME NEW l \in Inked(f), l > i PROVE l >= r
      <4>1. l \in 1..k /\ d + l \in Inked(z) /\ d + l > d + i
        BY <1>2, <1>6, <1>7, <3>4
      <4>2. d + l >= j
        BY <2>3, <4>1
      <4> QED
        BY <1>2, <3>2, <3>3, <4>1, <4>2
    <3> QED
      BY <3>3, <3>4
  <2>4. ASSUME NEW r \in Inked(f), r > i, f[r] \notin Punctuation, \A l \in Inked(f) : l > i => l >= r
        PROVE  \E j \in Inked(z) : j > d + i /\ z[j] \notin Punctuation /\ \A l \in Inked(z) : l > d + i => l >= j
    <3>1. r \in 1..k /\ d + r \in Inked(z) /\ d + r > d + i /\ z[d + r] \notin Punctuation
      <4>1. r \in 1..k
        BY <1>7, <2>4
      <4>2. d + r > d + i
        BY <1>2, <2>4, <4>1
      <4>3. d + r \in Inked(z) /\ z[d + r] = f[r]
        BY <1>5, <1>6, <2>4, <4>1
      <4> QED
        BY <2>4, <4>1, <4>2, <4>3
    <3>2. ASSUME NEW l \in Inked(z), l > d + i PROVE l >= d + r
      <4>1. l \notin Inked(x)
        BY <1>2, <1>7, <3>2
      <4>2. PICK q \in Inked(f) : l = d + q
        BY <1>8, <4>1
      <4>3. q \in 1..k /\ q > i
        BY <1>2, <1>7, <3>2, <4>2
      <4>4. q >= r
        BY <2>4, <4>3
      <4> QED
        BY <1>2, <3>1, <4>2, <4>3, <4>4
    <3> QED
      BY <3>1, <3>2
  <2> QED
    BY <2>1, <2>2, <2>3, <2>4 DEF WordFollows
<1>11. /\ \A i : i \in Stays(z) <=> i \in Inked(z) \/ (i \in 1..(d + k) /\ WordFollows(z, i))
       /\ \A i : i \in Stays(x) <=> i \in Inked(x) \/ (i \in 1..n /\ WordFollows(x, i))
       /\ \A i : i \in Stays(f) <=> i \in Inked(f) \/ (i \in 1..k /\ WordFollows(f, i))
  BY <1>5 DEF Stays, n, k
<1>12. \A i \in 1..n : i \in Stays(z) <=> i \in Stays(x)
  BY <1>6, <1>9, <1>11
<1>13. \A i \in 1..k : d + i \in Stays(z) <=> i \in Stays(f)
  BY <1>6, <1>10, <1>11
<1> DEFINE first == Stays(z)
           gap == Keep(b, middle)
<1>14. Keep(z, first) = Keep(w, first) \o Keep(f, Stays(f))
  <2>1. Begins(first, Len(w), first) /\ Continues(first, Len(w), Len(f), Stays(f))
    BY <1>4, <1>13 DEF Begins, Continues, k
  <2> HIDE DEF first
  <2>2. z = w \o f
    BY DEF z
  <2> QED
    BY <1>4, <2>1, <2>2, KeepConcat
<1>15. Keep(w, first) = Keep(x, Stays(x)) \o gap
  <2>1. Begins(first, Len(x), Stays(x))
    BY <1>12 DEF Begins, n
  <2>2. Continues(first, Len(x), Len(b), middle)
    <3>1. \A i \in 1..Len(b) : i = 1
      BY <1>1
    <3> QED
      BY <3>1 DEF Continues, n
  <2> DEFINE inX == Stays(x)
  <2>3. Begins(first, Len(x), inX)
    BY <2>1
  <2> HIDE DEF first, middle, inX
  <2>4. Keep(x \o b, first) = Keep(x, inX) \o Keep(b, middle)
    <3>1. x \in Seq(Characters) /\ b \in Seq(Characters)
      BY <1>1
    <3> QED
      BY <2>2, <2>3, <3>1, KeepConcat
  <2> QED
    BY <2>4 DEF w, inX
<1>16. gap \in {<<>>, b}
  <2>1. CASE d \in Stays(z)
    <3>1. 1..Len(b) \subseteq middle
      BY <1>1, <2>1
    <3>2. gap = b
      BY <1>1, <3>1, KeepAll
    <3> QED
      BY <3>2
  <2>2. CASE d \notin Stays(z)
    <3>1. middle = {}
      BY <2>2
    <3> DEFINE e == [m \in 1..0 |-> 0]
    <3>2. <<>> \in Seq(Characters) /\ Len(<<>>) = 0
      BY EmptySeq
    <3>3. e \in [1..0 -> middle \cap (1..Len(b))] /\ 1..0 = {}
      OBVIOUS
    <3> HIDE DEF e
    <3>4. Lists(b, middle, Len(b), <<>>, e)
      BY <3>1, <3>2, <3>3 DEF Lists
    <3>5. gap = <<>>
      BY <1>1, <3>2, <3>4, KeepIs
    <3> QED
      BY <3>5
  <2> QED
    BY <2>1, <2>2
<1>17. Normalize(z) = (Normalize(x) \o gap) \o Normalize(f)
  BY <1>14, <1>15 DEF Normalize, Stays
<1> QED
  BY <1>16, <1>17 DEF z, w

\* A text without a separator inside is one fragment.
LEMMA SplitOne ==
  ASSUME NEW S, NEW y \in Seq(S), NEW f \in Seq(S), f # <<>>, TrimSpace(y) = f, Len(y) > 0,
         \A i \in 1..(Len(y) - 1) : y[i] \notin Separators
  PROVE  SplitFragments(y) = <<f>>
<1> DEFINE n == Len(y)
           c == Len(Ends(y))
           e == Ends(y)
           h == [m \in 1..1 |-> n]
           Q == Seq(S)
<1>1. n \in Nat /\ n \in 1..n
  BY LenProperties
<1>2. EndPlaces(y) = {n}
  <2>1. \A i \in 1..n : i = n \/ i \in 1..(n - 1)
    BY <1>1
  <2> QED
    BY <1>1, <2>1 DEF EndPlaces
<1>3. c \in Nat /\ Enumerates(e, c, {n})
  BY <1>2, EndsEnumerate
<1>4. Enumerates(h, 1, {n})
  BY <1>1 DEF Enumerates
<1>5. c = 1 /\ e[1] = n
  <2>1. {n} \in SUBSET Nat /\ 1 \in Nat
    BY <1>1
  <2> HIDE DEF c, e, h
  <2>2. c <= 1 /\ 1 <= c /\ Agree(h, e, 1)
    BY <1>3, <1>4, <2>1, EnumerationsAgree
  <2>3. c = 1
    BY <1>3, <2>2
  <2> QED
    BY <2>2, <2>3 DEF Agree, h
<1>6. Piece(y, 1) = f
  <2>1. SubSeq(y, 1, n) = y
    BY SubSeqFull
  <2> QED
    BY <1>5, <2>1 DEF Piece, Start
<1> DEFINE pieces == Pieces(y)
<1>7. pieces \in Seq(Q) /\ Len(pieces) = 1 /\ pieces[1] = f
  <2>1. /\ pieces \in Seq(Q) /\ Len(pieces) = c /\ \A k \in 1..c : pieces[k] = Piece(y, k)
    BY PiecesType
  <2> HIDE DEF pieces, c
  <2> QED
    BY <1>5, <1>6, <2>1
<1>8. SplitFragments(y) = NotEmpty(pieces)
  BY PiecesType
<1> HIDE DEF pieces, Q
<1>9. DOMAIN pieces = 1..1
  BY <1>7, LenProperties
<1>10. NotEmpty(pieces) = pieces
  <2> DEFINE full == {k \in DOMAIN pieces : pieces[k] # <<>>}
  <2>1. 1..Len(pieces) \subseteq full
    BY <1>7, <1>9
  <2> HIDE DEF full
  <2>2. Keep(pieces, full) = pieces
    BY <1>7, <2>1, KeepAll
  <2> QED
    BY <2>2 DEF NotEmpty, full
<1>11. pieces = <<f>>
  <2>1. f \in Q
    BY DEF Q
  <2>2. <<f>> \in Seq(Q) /\ Len(<<f>>) = 1 /\ <<f>>[1] = f
    BY <2>1
  <2> QED
    BY <1>7, <2>2, SeqEqual
<1> QED
  BY <1>8, <1>10, <1>11

\* A blank before a text is trimmed.
LEMMA GlueTrimmed ==
  ASSUME NEW S, NEW f \in Seq(S), Tidy(f), Len(f) > 0, NEW b \in Seq(S), Blank(b)
  PROVE  TrimSpace(b \o f) = f
<1> DEFINE y == b \o f
           k == Len(f)
           n == Len(y)
<1>1. k \in Nat /\ k > 0 /\ Len(b) = 1 /\ b[1] = Space /\ f[1] # Space /\ f[k] # Space
  BY LenProperties DEF Tidy, Blank
<1>2. /\ y \in Seq(S) /\ n = 1 + k
      /\ \A i \in 1..(1 + k) : y[i] = IF i <= 1 THEN b[i] ELSE f[i - 1]
  <2>1. /\ y \in Seq(S) /\ n = Len(b) + k
        /\ \A i \in 1..(Len(b) + k) : y[i] = IF i <= Len(b) THEN b[i] ELSE f[i - Len(b)]
    BY ConcatProperties
  <2> HIDE DEF y, n, k
  <2> QED
    BY <1>1, <2>1
<1> HIDE DEF y, n
<1>3. y[1] = Space /\ y[2] # Space /\ y[n] # Space
  <2>1. 1 \in 1..(1 + k) /\ 2 \in 1..(1 + k) /\ n \in 1..(1 + k) /\ n - 1 = k /\ ~ (n <= 1)
    BY <1>1, <1>2
  <2> HIDE DEF k
  <2> QED
    BY <1>1, <1>2, <2>1
<1>4. TrimRight(y) = y
  <2>1. PICK m \in 0..n : TrimRight(y) = SubSeq(y, 1, m) /\ \A i \in (m + 1)..n : y[i] = Space
    BY <1>2, RightTrim DEF n
  <2>2. m = n
    <3>1. SUFFICES ASSUME m < n PROVE FALSE
      BY <1>1, <1>2
    <3>2. n \in (m + 1)..n
      BY <1>1, <1>2, <3>1
    <3> QED
      BY <1>3, <2>1, <3>2
  <2> QED
    BY <1>2, <2>1, <2>2, SubSeqFull DEF n
<1>5. TrimLeft(y) = SubSeq(y, 2, n)
  <2>1. PICK m \in 1..(n + 1) : /\ TrimLeft(y) = SubSeq(y, m, n)
                                /\ m <= n => y[m] # Space
                                /\ \A i \in 1..(m - 1) : y[i] = Space
    BY <1>2, LeftTrim DEF n
  <2>2. m # 1
    BY <1>1, <1>2, <1>3, <2>1
  <2>3. ~ (m > 2)
    <3>1. SUFFICES ASSUME m > 2 PROVE FALSE
      OBVIOUS
    <3>2. 2 \in 1..(m - 1)
      BY <1>1, <1>2, <3>1
    <3> QED
      BY <1>3, <2>1, <3>2
  <2>4. m = 2
    BY <1>1, <1>2, <2>2, <2>3
  <2> QED
    BY <2>1, <2>4
<1>6. SubSeq(y, 2, n) = f
  <2>1. /\ 2 \in (Len(b) + 1)..(Len(b) + Len(f)) /\ n \in (Len(b) + 1)..(Len(b) + Len(f))
        /\ 2 - Len(b) = 1 /\ n - Len(b) = Len(f)
    BY <1>1, <1>2
  <2>2. SubSeq(b \o f, 2, n) = SubSeq(f, 2 - Len(b), n - Len(b))
    BY <2>1, SubSeqOfConcat2
  <2>3. SubSeq(f, 1, Len(f)) = f
    BY SubSeqFull
  <2> QED
    BY <2>1, <2>2, <2>3 DEF y
<1> QED
  BY <1>4, <1>5, <1>6 DEF TrimSpace, y

\* All of them are sentences, and all but the last are ended.
Sentences(parts) ==
  \A k \in 1..Len(parts) : Sentence(parts[k]) /\ (k < Len(parts) => Ended(parts[k]))

\* Whatever fragments are dropped, what is kept are sentences.
LEMMA KeepSentences ==
  ASSUME NEW S, NEW parts \in Seq(Seq(S)), Sentences(parts), NEW places
  PROVE  Keep(parts, places) \in Seq(Seq(S)) /\ Sentences(Keep(parts, places))
<1> DEFINE out == Keep(parts, places)
<1>1. out \in Seq(Seq(S))
  BY KeepLists
<1>2. PICK e : Lists(parts, places, Len(parts), out, e)
  BY KeepLists
<1> HIDE DEF out
<1>3. Len(out) \in Nat /\ Len(parts) \in Nat
  BY <1>1, LenProperties
<1>4. /\ \A m \in 1..Len(out) : e[m] \in 1..Len(parts) /\ out[m] = parts[e[m]]
      /\ \A m, l \in 1..Len(out) : m < l => e[m] < e[l]
  BY <1>2 DEF Lists
<1>5. ASSUME NEW m \in 1..Len(out), m < Len(out) PROVE e[m] < Len(parts)
  <2>1. Len(out) \in 1..Len(out)
    BY <1>3, <1>5
  <2>2. e[m] < e[Len(out)] /\ e[Len(out)] \in 1..Len(parts) /\ e[m] \in 1..Len(parts)
    BY <1>4, <1>5, <2>1
  <2> QED
    BY <1>3, <2>2
<1>6. Sentences(out)
  BY <1>4, <1>5 DEF Sentences
<1> QED
  BY <1>1, <1>6 DEF out

\* What is cut from a text that is neat, and begins and ends in no blank.
LEMMA SliceNeat ==
  ASSUME NEW S, NEW t \in Seq(S), Neat(t), NEW v \in Seq(S), NEW o \in Nat,
         Len(v) > 0, o + Len(v) <= Len(t), \A i \in 1..Len(v) : v[i] = t[o + i],
         v[1] # Space, v[Len(v)] # Space
  PROVE  Neat(v)
<1>1. Len(t) \in Nat /\ Len(v) \in Nat
  BY LenProperties
<1>2. ASSUME NEW i \in 1..(Len(v) - 1)
      PROVE  /\ o + i \in 1..(Len(t) - 1)
             /\ v[i] = t[o + i] /\ v[i + 1] = t[(o + i) + 1]
  <2>1. i \in 1..Len(v) /\ i + 1 \in 1..Len(v) /\ o + (i + 1) = (o + i) + 1 /\ o + i \in 1..(Len(t) - 1)
    BY <1>1
  <2> QED
    BY <2>1
<1> QED
  BY <1>2 DEF Neat, Tidy

\* The fragments of a normalized text are sentences.
LEMMA PiecesAreSentences ==
  ASSUME NEW S, NEW t \in Seq(S), Neat(t), NEW k \in 1..Len(Ends(t))
  PROVE  Sentence(Piece(t, k)) /\ (k < Len(Ends(t)) => Ended(Piece(t, k)))
<1> DEFINE p == Start(t, k)
           q == Ends(t)[k]
           u == SubSeq(t, p, q)
           L == q - p + 1
<1>1. Len(t) \in Nat
  BY LenProperties
<1>2. /\ p \in 1..q /\ q \in EndPlaces(t)
      /\ \A i \in p..(q - 1) : t[i] \notin Separators
      /\ k < Len(Ends(t)) => q < Len(t)
  BY PiecesInOrder
<1>3. Piece(t, k) = TrimSpace(u)
  BY DEF Piece
<1> HIDE DEF p, q
<1>4. /\ q \in 1..Len(t) /\ (q < Len(t) => t[q] \in Separators)
      /\ L \in Nat /\ L > 0
  BY <1>1, <1>2 DEF EndPlaces
<1>5. t[q] # Space
  <2>1. q = Len(t) => t[q] # Space
    BY <1>1, <1>4 DEF Neat, Tidy
  <2>2. Space \notin Separators
    BY DEF Space, Separators, Terminators
  <2> QED
    BY <1>1, <1>4, <2>1, <2>2
<1>6. /\ u \in Seq(S) /\ Len(u) = L /\ \A i \in 1..L : u[i] = t[p + i - 1]
  <2>1. p \in Nat \ {0} /\ q \in 0..Len(t) /\ p <= q
    BY <1>1, <1>2, <1>4
  <2>2. /\ u \in Seq(S) /\ Len(u) = IF p <= q THEN L ELSE 0
        /\ \A i \in 1..L : u[i] = t[p + i - 1]
    BY <2>1, PieceType
  <2> HIDE DEF u, L
  <2> QED
    BY <2>1, <2>2
<1>7. u[L] = t[q]
  <2>1. L \in 1..L /\ p + L - 1 = q
    BY <1>2, <1>4
  <2> HIDE DEF L, u
  <2> QED
    BY <1>6, <2>1
<1> HIDE DEF u
<1>8. TrimRight(u) = u
  <2>1. PICK m \in 0..Len(u) : TrimRight(u) = SubSeq(u, 1, m) /\ \A i \in (m + 1)..Len(u) : u[i] = Space
    BY <1>6, RightTrim
  <2>2. m = Len(u)
    <3>1. SUFFICES ASSUME m < Len(u) PROVE FALSE
      BY <1>4, <1>6
    <3>2. L \in (m + 1)..Len(u)
      BY <1>4, <1>6, <3>1
    <3> QED
      BY <1>5, <1>7, <2>1, <3>2
  <2> QED
    BY <1>6, <2>1, <2>2, SubSeqFull
<1>9. PICK m \in 1..(Len(u) + 1) : /\ TrimLeft(u) = SubSeq(u, m, Len(u))
                                   /\ m <= Len(u) => u[m] # Space
                                   /\ \A i \in 1..(m - 1) : u[i] = Space
  BY <1>6, LeftTrim
<1> HIDE DEF L
<1>10. m \in 1..L
  <2>1. SUFFICES ASSUME m = L + 1 PROVE FALSE
    BY <1>4, <1>6
  <2>2. L \in 1..(m - 1)
    BY <1>4, <2>1
  <2> QED
    BY <1>5, <1>7, <1>9, <2>2
<1> DEFINE v == SubSeq(u, m, L)
           o == p + m - 2
<1>11. Piece(t, k) = v
  BY <1>3, <1>6, <1>8, <1>9 DEF TrimSpace
<1>12. v \in Seq(S) /\ Len(v) = L - m + 1 /\ \A i \in 1..(L - m + 1) : v[i] = u[m + i - 1]
  <2>1. m \in Nat \ {0} /\ L \in 0..Len(u) /\ m <= L
    BY <1>4, <1>6, <1>10
  <2>2. /\ v \in Seq(S) /\ Len(v) = IF m <= L THEN L - m + 1 ELSE 0
        /\ \A i \in 1..(L - m + 1) : v[i] = u[m + i - 1]
    BY <1>6, <2>1, PieceType
  <2> HIDE DEF v
  <2> QED
    BY <2>1, <2>2
<1> HIDE DEF v
<1>13. Len(v) \in Nat /\ Len(v) > 0 /\ o \in Nat /\ o + Len(v) = q /\ o >= p - 1
  BY <1>1, <1>2, <1>4, <1>10, <1>12 DEF L
<1>14. ASSUME NEW i \in 1..Len(v) PROVE v[i] = t[o + i]
  <2>1. i \in 1..(L - m + 1) /\ m + i - 1 \in 1..L /\ p + (m + i - 1) - 1 = o + i
    BY <1>2, <1>4, <1>10, <1>12
  <2> QED
    BY <1>6, <1>12, <2>1
<1>15. v[1] # Space /\ v[Len(v)] = t[q]
  <2>1. 1 \in 1..Len(v) /\ 1 \in 1..(L - m + 1) /\ Len(v) \in 1..Len(v) /\ m + 1 - 1 = m
    BY <1>10, <1>12, <1>13
  <2>2. m <= Len(u)
    BY <1>4, <1>6, <1>10
  <2> QED
    BY <1>9, <1>12, <1>13, <1>14, <2>1, <2>2
<1>16. Neat(v)
  <2>1. o + Len(v) <= Len(t)
    BY <1>1, <1>4, <1>13
  <2>2. o \in Nat
    BY <1>13
  <2>3. v[Len(v)] # Space
    BY <1>5, <1>15
  <2> HIDE DEF o
  <2> QED
    BY <1>12, <1>13, <1>14, <1>15, <2>1, <2>2, <2>3, SliceNeat
<1>17. ASSUME NEW i \in 1..(Len(v) - 1) PROVE v[i] \notin Separators
  <2>1. i \in 1..Len(v) /\ o + i \in p..(q - 1)
    BY <1>1, <1>2, <1>4, <1>13
  <2> QED
    BY <1>2, <1>14, <2>1
<1>18. k < Len(Ends(t)) => Ended(v)
  BY <1>2, <1>4, <1>15 DEF Ended
<1> QED
  BY <1>11, <1>13, <1>16, <1>17, <1>18 DEF Sentence

\* The fragments of a neat text are sentences.
LEMMA SplitSentences ==
  ASSUME NEW S, NEW t \in Seq(S), Neat(t)
  PROVE  SplitFragments(t) \in Seq(Seq(S)) /\ Sentences(SplitFragments(t))
<1> DEFINE n == Len(Ends(t))
           Q == Seq(S)
           pieces == Pieces(t)
<1>1. /\ pieces \in Seq(Q) /\ Len(pieces) = n /\ \A k \in 1..n : pieces[k] = Piece(t, k)
      /\ SplitFragments(t) = NotEmpty(pieces)
  BY PiecesType
<1>2. \A k \in 1..n : Sentence(Piece(t, k)) /\ (k < n => Ended(Piece(t, k)))
  BY PiecesAreSentences
<1> HIDE DEF n, pieces
<1>3. Sentences(pieces)
  BY <1>1, <1>2 DEF Sentences
<1>4. Keep(pieces, {k \in DOMAIN pieces : pieces[k] # <<>>}) \in Seq(Seq(S))
      /\ Sentences(Keep(pieces, {k \in DOMAIN pieces : pieces[k] # <<>>}))
  BY <1>1, <1>3, KeepSentences
<1> QED
  BY <1>1, <1>4 DEF NotEmpty

-----------------------------------------------------------------------------
(* What is joined is split again.                                          *)

\* z ends as f does, which Normalize does not change, and splits into fragments.
Survived(z, f, fragments) ==
  /\ Len(z) > 0 /\ z[Len(z)] = f[Len(f)]
  /\ Len(Normalize(z)) > 0 /\ Normalize(z)[Len(Normalize(z))] = f[Len(f)]
  /\ SplitFragments(Normalize(z)) = fragments

\* No blank ends a fragment.
LEMMA NoBlankSeparates == Space \notin Separators
BY DEF Space, Separators, Terminators

\* Two texts one after the other end as the second does.
LEMMA LastOfConcat ==
  ASSUME NEW S, NEW x \in Seq(S), NEW f \in Seq(S), Len(f) > 0
  PROVE  Len(x \o f) > 0 /\ (x \o f)[Len(x \o f)] = f[Len(f)]
<1>1. Len(x) \in Nat /\ Len(f) \in Nat /\ Len(f) \in 1..Len(f)
  BY LenProperties
<1>2. Len(x \o f) = Len(x) + Len(f) /\ \A i \in 1..Len(f) : (x \o f)[Len(x) + i] = f[i]
  BY ConcatPlaces
<1> QED
  BY <1>1, <1>2

\* A sentence is its own only fragment, also behind a blank.
LEMMA SplitOneOf ==
  ASSUME NEW S, NEW f \in Seq(S), Sentence(f), NEW b \in Seq(S), b = <<>> \/ Blank(b)
  PROVE  SplitFragments(b \o f) = <<f>> /\ b \o f \in Seq(S) /\ Len(b \o f) > 0
<1>1. Len(f) > 0 /\ Tidy(f) /\ Len(f) \in Nat /\ f # <<>>
  BY LenProperties, EmptySeq DEF Sentence, Neat
<1>2. \A i \in 1..(Len(f) - 1) : f[i] \notin Separators
  BY DEF Sentence
<1>3. CASE b = <<>>
  <2>1. b \o f = f
    BY <1>3, ConcatEmptySeq
  <2>2. TrimSpace(f) = f
    BY <1>1, TidyIsTrim
  <2>3. SplitFragments(f) = <<f>>
    BY <1>1, <1>2, <2>2, SplitOne
  <2> QED
    BY <1>1, <2>1, <2>3
<1>4. CASE Blank(b)
  <2> DEFINE y == b \o f
  <2>1. TrimSpace(y) = f
    BY <1>1, <1>4, GlueTrimmed
  <2>2. /\ y \in Seq(S) /\ Len(y) = 1 + Len(f)
        /\ \A i \in 1..1 : y[i] = b[i]
        /\ \A i \in 1..Len(f) : y[1 + i] = f[i]
    <3>1. /\ y \in Seq(S) /\ Len(y) = Len(b) + Len(f)
          /\ \A i \in 1..Len(b) : y[i] = b[i]
          /\ \A i \in 1..Len(f) : y[Len(b) + i] = f[i]
      BY ConcatPlaces
    <3> HIDE DEF y
    <3> QED
      BY <1>4, <3>1 DEF Blank
  <2> HIDE DEF y
  <2>3. y[1] \notin Separators
    BY <1>4, <2>2, NoBlankSeparates DEF Blank
  <2>4. ASSUME NEW i \in 1..(Len(y) - 1) PROVE y[i] \notin Separators
    <3>1. CASE i = 1
      BY <2>3, <3>1
    <3>2. CASE i # 1
      <4>1. i - 1 \in 1..(Len(f) - 1) /\ i - 1 \in 1..Len(f) /\ 1 + (i - 1) = i
        BY <1>1, <2>2, <3>2
      <4>2. y[1 + (i - 1)] = f[i - 1]
        BY <2>2, <4>1
      <4> QED
        BY <1>2, <4>1, <4>2
    <3> QED
      BY <3>1, <3>2
  <2>5. Len(y) > 0
    BY <1>1, <2>2
  <2>6. SplitFragments(y) = <<f>>
    BY <1>1, <2>1, <2>2, <2>4, <2>5, SplitOne
  <2> QED
    BY <2>2, <2>5, <2>6 DEF y
<1> QED
  BY <1>3, <1>4

\* A sentence that is joined to an ended one becomes one more fragment.
LEMMA SplitGlued ==
  ASSUME NEW x \in Seq(Characters), NEW e, NEW fragments, Survived(x, e, fragments), Ended(e),
         NEW f \in Seq(Characters), Sentence(f), NEW b \in Seq(Characters), Blank(b)
  PROVE  Survived((x \o b) \o f, f, fragments \o <<f>>)
<1> DEFINE nx == Normalize(x)
           z == (x \o b) \o f
<1>1. /\ Len(x) > 0 /\ x[Len(x)] \in Separators
      /\ Len(nx) > 0 /\ nx[Len(nx)] \in Separators /\ SplitFragments(nx) = fragments
  BY DEF Survived, Ended
<1>2. nx \in Seq(Characters)
  BY NormalizeNeatens
<1>3. Len(f) > 0 /\ f[1] # Space /\ f[Len(f)] # Space /\ Normalize(f) = f
  BY NeatStays DEF Sentence, Neat, Tidy
<1>4. PICK g \in {<<>>, b} : Normalize(z) = (nx \o g) \o f
  <2>1. x[Len(x)] # Space
    BY <1>1, NoBlankSeparates
  <2>2. \E g \in {<<>>, b} : Normalize((x \o b) \o f) = (Normalize(x) \o g) \o Normalize(f)
    BY <1>1, <1>3, <2>1, NormalizeGlued
  <2> QED
    BY <1>3, <2>2
<1> HIDE DEF nx
<1>5. g \in Seq(Characters) /\ (g = <<>> \/ Blank(g))
  BY EmptySeq
<1>6. (nx \o g) \o f = nx \o (g \o f)
  <2>1. \A s, t, u \in Seq(Characters) : (s \o t) \o u = s \o (t \o u)
    BY ConcatAssociative
  <2> QED
    BY <1>2, <1>5, <2>1
<1>7. SplitFragments(g \o f) = <<f>> /\ g \o f \in Seq(Characters) /\ Len(g \o f) > 0
  BY <1>5, SplitOneOf
<1>8. SplitFragments(nx \o (g \o f)) = SplitFragments(nx) \o SplitFragments(g \o f)
  BY <1>1, <1>2, <1>7, SplitConcat
<1>9. SplitFragments(Normalize(z)) = fragments \o <<f>>
  BY <1>1, <1>4, <1>6, <1>7, <1>8
<1>10. x \o b \in Seq(Characters) /\ nx \o g \in Seq(Characters)
  BY <1>2, <1>5, ConcatProperties
<1>11. Len(z) > 0 /\ z[Len(z)] = f[Len(f)]
  BY <1>3, <1>10, LastOfConcat
<1>12. Len((nx \o g) \o f) > 0 /\ ((nx \o g) \o f)[Len((nx \o g) \o f)] = f[Len(f)]
  BY <1>3, <1>10, LastOfConcat
<1> HIDE DEF z
<1>13. Survived(z, f, fragments \o <<f>>)
  BY <1>4, <1>9, <1>11, <1>12 DEF Survived
<1> QED
  BY <1>13 DEF z

\* Sentences that are joined are split where they were joined.
LEMMA SentencesRejoin ==
  ASSUME NEW parts \in Seq(Seq(Characters)), Sentences(parts)
  PROVE  SplitFragments(Normalize(Join(parts, <<Space>>))) = parts
<1> DEFINE n == Len(parts)
           b == <<Space>>
           Q == Seq(Characters)
<1>1. n \in Nat /\ \A i \in 1..n : parts[i] \in Q
  BY LenProperties, ElementOfSeq
<1>2. b \in Q /\ Blank(b)
  BY DEF Characters, Blank
<1>3. PICK f \in [0..n -> Q] : Adding(f, n, b, parts) /\ Join(parts, b) = f[n]
  <2> HIDE DEF b
  <2> QED
    BY <1>2, JoinAdds
<1>4. f[0] = <<>> /\ \A i \in 1..n : f[i] = Added(f[i - 1], b, parts[i])
  BY <1>3 DEF Adding
<1>5. \A i \in 1..n : Sentence(parts[i]) /\ (i < n => Ended(parts[i]))
  BY DEF Sentences
<1> HIDE DEF n, b
<1> DEFINE First(i) == SubSeq(parts, 1, i)
           T == {i \in 0..n : i > 0 => Survived(f[i], parts[i], First(i))}
<1>6. 0 \in T
  BY <1>1
<1>7. ASSUME NEW i \in 0..n, i \in T, i < n PROVE i + 1 \in T
  <2>1. i + 1 \in 1..n /\ i + 1 \in 0..n /\ (i + 1) - 1 = i
    BY <1>1, <1>7
  <2>2. f[i + 1] = Added(f[i], b, parts[i + 1]) /\ f[i] \in Q
    BY <1>4, <2>1
  <2>3. parts[i + 1] \in Q /\ Sentence(parts[i + 1])
    BY <1>1, <1>5, <2>1
  <2>4. Len(parts[i + 1]) > 0
    BY <2>3 DEF Sentence
  <2>5. CASE i = 0
    <3>1. f[i + 1] = parts[1] /\ i + 1 = 1 /\ 1 \in 1..n
      BY <1>4, <2>1, <2>2, <2>5 DEF Added
    <3>2. parts[1] \in Q /\ Sentence(parts[1]) /\ Len(parts[1]) > 0
      BY <2>3, <2>4, <3>1
    <3>3. Normalize(parts[1]) = parts[1]
      BY <3>2, NeatStays DEF Sentence
    <3>4. SplitFragments(parts[1]) = <<parts[1]>>
      <4>1. <<>> \in Q /\ <<>> \o parts[1] = parts[1]
        BY <3>2, EmptySeq, ConcatEmptySeq
      <4>2. SplitFragments(<<>> \o parts[1]) = <<parts[1]>>
        BY <3>2, <4>1, SplitOneOf
      <4> QED
        BY <4>1, <4>2
    <3>5. First(1) = <<parts[1]>>
      <4>1. First(1) = SubSeq(parts, 1, 0) \o <<parts[1]>>
        <5>1. 1 \in 1..Len(parts) /\ 1 \in 1..Len(parts) /\ 1 - 1 = 0
          BY <3>1 DEF n
        <5>2. SubSeq(parts, 1, 1) = SubSeq(parts, 1, 1 - 1) \o <<parts[1]>>
          BY <5>1, SubSeqRecursiveSecond
        <5> QED
          BY <5>1, <5>2
      <4>2. SubSeq(parts, 1, 0) = <<>>
        BY SubSeqEmpty
      <4>3. <<parts[1]>> \in Seq(Q)
        BY <3>2
      <4> QED
        BY <4>1, <4>2, <4>3, ConcatEmptySeq
    <3> HIDE DEF First
    <3>6. Survived(parts[1], parts[1], First(1))
      BY <3>2, <3>3, <3>4, <3>5 DEF Survived
    <3> QED
      BY <2>1, <3>1, <3>6
  <2>6. CASE i > 0
    <3>1. i \in 1..n /\ Survived(f[i], parts[i], First(i)) /\ Ended(parts[i])
      BY <1>1, <1>5, <1>7, <2>6
    <3>2. f[i] # <<>>
      <4>1. Len(f[i]) > 0
        BY <3>1 DEF Survived
      <4> QED
        BY <2>2, <4>1, EmptySeq
    <3>3. f[i + 1] = (f[i] \o b) \o parts[i + 1]
      <4>1. f[i + 1] = f[i] \o b \o parts[i + 1]
        BY <2>2, <3>2 DEF Added
      <4> QED
        BY <4>1
    <3>4. First(i + 1) = First(i) \o <<parts[i + 1]>>
      <4>1. 1 \in 1..Len(parts) /\ i + 1 \in 1..Len(parts) /\ (i + 1) - 1 = i
        BY <1>1, <2>1 DEF n
      <4>2. SubSeq(parts, 1, i + 1) = SubSeq(parts, 1, (i + 1) - 1) \o <<parts[i + 1]>>
        BY <4>1, SubSeqRecursiveSecond
      <4> QED
        BY <4>1, <4>2
    <3> HIDE DEF First, Q
    <3>5. Survived((f[i] \o b) \o parts[i + 1], parts[i + 1], First(i) \o <<parts[i + 1]>>)
      BY <1>2, <2>2, <2>3, <3>1, SplitGlued DEF Q
    <3> QED
      BY <2>1, <3>3, <3>4, <3>5
  <2> QED
    BY <1>1, <2>5, <2>6
<1> HIDE DEF T
<1>8. 0..n \subseteq T
  BY <1>1, <1>6, <1>7, UpTo
<1>9. CASE n = 0
  <2>1. parts = <<>> /\ Join(parts, b) = <<>>
    BY <1>3, <1>4, <1>9, EmptySeq DEF n
  <2>2. Keep(<<>>, Stays(<<>>)) = <<>>
    <3>1. <<>> \in Q /\ 1..Len(<<>>) \subseteq Stays(<<>>)
      BY EmptySeq
    <3> QED
      BY <3>1, KeepAll
  <2>3. Normalize(<<>>) = <<>>
    BY <2>2 DEF Normalize, Stays
  <2>4. SplitFragments(<<>>) = <<>>
    <3> DEFINE t == <<>>
    <3>1. t \in Q /\ Len(t) = 0
      BY EmptySeq
    <3> HIDE DEF t
    <3>2. Ends(t) \in Seq(1..0)
      BY <3>1, EndsType
    <3>3. Len(Ends(t)) = 0
      BY <3>2, LenProperties, ElementOfSeq
    <3>4. Pieces(t) \in Seq(Q) /\ Len(Pieces(t)) = 0 /\ SplitFragments(t) = NotEmpty(Pieces(t))
      BY <3>1, <3>3, PiecesType
    <3>5. Pieces(t) = <<>>
      BY <3>4, EmptySeq
    <3>6. NotEmpty(<<>>) = <<>>
      <4> DEFINE none == <<>>
                 places == {k \in DOMAIN none : none[k] # <<>>}
      <4>1. none \in Seq(Q) /\ 1..Len(none) \subseteq places
        BY EmptySeq
      <4>2. NotEmpty(none) = Keep(none, places)
        BY DEF NotEmpty
      <4> HIDE DEF none, places
      <4>3. Keep(none, places) = none
        BY <4>1, KeepAll
      <4> QED
        BY <4>2, <4>3 DEF none
    <3> QED
      BY <3>4, <3>5, <3>6 DEF t
  <2> QED
    BY <2>1, <2>3, <2>4 DEF b
<1>10. CASE n > 0
  <2>1. Survived(f[n], parts[n], First(n))
    BY <1>1, <1>8, <1>10 DEF T
  <2>2. First(n) = parts
    BY SubSeqFull DEF n
  <2> QED
    BY <1>3, <2>1, <2>2 DEF Survived, b
<1> QED
  BY <1>1, <1>9, <1>10

\* For every article, budget and choice of what noise is, a text that is not cut
\* consists of the sentences that were kept.
THEOREM SentencesStay == RunSpec => []SentencesSurvive
<1>1. ASSUME NEW source \in Seq(Characters), Len(Cleaned(source)) <= MaxTotalChars
      PROVE  SplitFragments(Process(source)) = KeptFragments(source)
  <2>1. Normalize(source) \in Seq(Characters) /\ Neat(Normalize(source))
    BY NormalizeNeatens
  <2>2. Fragments(source) \in Seq(Seq(Characters)) /\ Sentences(Fragments(source))
    BY <2>1, SplitSentences DEF Fragments
  <2>3. /\ RemoveBoilerplateFragments(Fragments(source)) \in Seq(Seq(Characters))
        /\ Sentences(RemoveBoilerplateFragments(Fragments(source)))
    BY <2>2, KeepSentences DEF RemoveBoilerplateFragments
  <2>4. KeptFragments(source) \in Seq(Seq(Characters)) /\ Sentences(KeptFragments(source))
    BY <2>3, KeepSentences DEF KeptFragments, FilterNoisyFragments
  <2>5. SplitFragments(Cleaned(source)) = KeptFragments(source)
    BY <2>4, SentencesRejoin DEF Cleaned, RebuildText
  <2>6. TrimSpace(Cleaned(source)) = Cleaned(source)
    BY CleanedTidy, TidyIsTrim
  <2>7. Process(source) = Cleaned(source)
    BY <1>1, <2>6 DEF Process, HeadTailExtract
  <2> QED
    BY <2>5, <2>7
<1>2. Prepared => SentencesSurvive
  <2> SUFFICES ASSUME Prepared, stage = "request",
                      Len(Cleaned(BuildInputText(sections))) <= MaxTotalChars
               PROVE  SplitFragments(text) = KeptFragments(BuildInputText(sections))
    BY DEF SentencesSurvive
  <2>1. sections \in Articles /\ text = Process(BuildInputText(sections))
    BY DEF Prepared
  <2>2. sections \in Seq(Seq(Characters))
    BY <2>1, ArticlesAssumption
  <2>3. BuildInputText(sections) \in Seq(Characters)
    BY <2>2, InputTextType
  <2>4. SplitFragments(Process(BuildInputText(sections))) = KeptFragments(BuildInputText(sections))
    BY <1>1, <2>3
  <2> QED
    BY <2>1, <2>4
<1> QED
  BY <1>2, StaysPrepared, PTL
=============================================================================
