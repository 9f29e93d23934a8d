------------------------ MODULE ExtractionLifecycle ------------------------
(***************************************************************************)
(* Persisted single-article extraction: the calls of                       *)
(* RunAndPersistWithOutcome (internal/app/extraction/persist.go) that race *)
(* on the rows of event_aggregator_article_extractions                     *)
(* (internal/repository/extraction/repository.go).                         *)
(*                                                                         *)
(* A call is one invocation, made by an HTTP handler, by a batch worker or *)
(* by the extraction scheduler.  It claims its article with one INSERT,    *)
(* reads the existing row with a second statement when the INSERT was a    *)
(* no-op, and otherwise runs the extractor and stores what came of it with *)
(* a third statement.  Every SQL statement is one atomic step; between two *)
(* statements any other call may run, the request may be cancelled and the *)
(* process may exit.                                                       *)
(*                                                                         *)
(* Extracted fields and error texts are abstracted to the call that        *)
(* produced them: that is what the properties compare.                     *)
(***************************************************************************)
EXTENDS Naturals, FiniteSets

CONSTANTS
  Articles,   \* the upstream article ids (all > 0: callers reject the others)
  Calls,      \* invocations; each starts at most once, for any article
  NoCall,     \* "NULL" for a column, "nobody" for an owner
  Faults      \* what the environment may do, a subset of FaultKinds

FaultKinds == {"db", "cancel", "crash"}

ASSUME LifecycleAssumption ==
  /\ NoCall \notin Calls
  /\ Faults \subseteq FaultKinds

VARIABLES
  row,      \* row[a]: the persisted row of article a ("none": no row)
  pc,       \* pc[c]: where call c is in its code
  article,  \* article[c]: the article call c works on, set when it starts
  ctx,      \* ctx[c]: "live", or "canceled" once the caller's context is done
  reply,    \* reply[c]: what the call returned to its caller
  owner,    \* history: the call whose INSERT created the row of an article
  ran       \* history: the calls that invoked the extractor (the LLM)

vars == <<row, pc, article, ctx, reply, owner, ran>>

-----------------------------------------------------------------------------
Statuses == {"none", "pending", "done", "failed"}

Row == [status: Statuses, result: Calls \cup {NoCall}, error: Calls \cup {NoCall}]

NoRow == [status |-> "none", result |-> NoCall, error |-> NoCall]

PendingRow == [status |-> "pending", result |-> NoCall, error |-> NoCall]

\* UpsertSuccess stores the extracted fields and clears the error.
DoneRow(c) == [status |-> "done", result |-> c, error |-> NoCall]

\* UpsertFailure stores the error and leaves the extracted fields alone.
FailedRow(r, c) == [r EXCEPT !.status = "failed", !.error = c]

Outcomes == {"newly_extracted", "already_done", "already_pending", "already_failed"}

Errors == {"claim error", "convert error", "run error", "persist error"}

\* A reply is an outcome or a Go error; value names the call whose extracted
\* fields (or, for already_failed, whose error text) it carries.
Reply == [kind: Outcomes \cup Errors \cup {"none"}, value: Calls \cup {NoCall}]

NoReply == [kind |-> "none", value |-> NoCall]

Answer(k, v) == [kind |-> k, value |-> v]

\* Between its granted claim and its final statement a call owns its article.
Owning == {"run", "extract", "save success", "save failure"}

Running == {"claim", "read"} \cup Owning

Locations == {"idle", "returned", "lost"} \cup Running

-----------------------------------------------------------------------------
Init ==
  /\ row = [a \in Articles |-> NoRow]
  /\ pc = [c \in Calls |-> "idle"]
  /\ article \in [Calls -> Articles]
  /\ ctx = [c \in Calls |-> "live"]
  /\ reply = [c \in Calls |-> NoReply]
  /\ owner = [a \in Articles |-> NoCall]
  /\ ran = {}

Goto(c, from, to) ==
  /\ pc[c] = from
  /\ pc' = [pc EXCEPT ![c] = to]

Return(c, from, r) ==
  /\ Goto(c, from, "returned")
  /\ reply' = [reply EXCEPT ![c] = r]

\* A statement returns an error when the context is done or the database
\* fails it; either way the server may or may not have executed it.
StatementMayFail(c) == "db" \in Faults \/ ctx[c] = "canceled"

\* INSERT ... ON CONFLICT(article_id) DO NOTHING.
InsertPending(a, c) ==
  IF row[a].status = "none"
  THEN /\ row' = [row EXCEPT ![a] = PendingRow]
       /\ owner' = [owner EXCEPT ![a] = c]
  ELSE UNCHANGED <<row, owner>>

-----------------------------------------------------------------------------
(* The caller enters RunAndPersistWithOutcome.                             *)
Start(c) ==
  /\ Goto(c, "idle", "claim")
  /\ UNCHANGED <<row, article, ctx, reply, owner, ran>>

\* Mutant: ON CONFLICT DO UPDATE, which affects one row every time.
ClaimPendingOverwriting(c) ==
  /\ ctx[c] = "live"
  /\ Goto(c, "claim", "run")
  /\ row' = [row EXCEPT ![article[c]] = PendingRow]
  /\ owner' = [owner EXCEPT ![article[c]] = c]
  /\ UNCHANGED <<article, ctx, reply, ran>>

(* ClaimPending's INSERT: one affected row grants the claim, none means    *)
(* that the row exists and is read next.                                   *)
ClaimPending(c) ==
  /\ ctx[c] = "live"
  /\ Goto(c, "claim", IF row[article[c]].status = "none" THEN "run" ELSE "read")
  /\ InsertPending(article[c], c)
  /\ UNCHANGED <<article, ctx, reply, ran>>

ClaimPendingFails(c) ==
  /\ StatementMayFail(c)
  /\ Return(c, "claim", Answer("claim error", NoCall))
  /\ \/ InsertPending(article[c], c)
     \/ UNCHANGED <<row, owner>>
  /\ UNCHANGED <<article, ctx, ran>>

\* Mutants: the status passed on as if it were an outcome; a row that is still
\* pending taken for a failed one.
DeniedByStatus(r) == Answer(r.status, r.result)

DeniedUnlessDone(r) ==
  IF r.status = "done" THEN Answer("already_done", r.result) ELSE Answer("already_failed", r.error)

(* What the denied caller is told about the row it read.                   *)
Denied(r) ==
  CASE r.status = "done" /\ r.result # NoCall -> Answer("already_done", r.result)
    [] r.status = "done" /\ r.result = NoCall -> Answer("convert error", NoCall)
    [] r.status = "pending"                   -> Answer("already_pending", NoCall)
    [] r.status = "failed"                    -> Answer("already_failed", r.error)
    [] OTHER                                  -> Answer("claim error", NoCall)

(* The separate SELECT of the existing row, and the reply built from it.   *)
ReadExisting(c) ==
  /\ ctx[c] = "live"
  /\ Return(c, "read", Denied(row[article[c]]))
  /\ UNCHANGED <<row, article, ctx, owner, ran>>

\* Mutant: the claim is repeated until the row can be read.
ReadExistingFailsRetrying(c) ==
  /\ StatementMayFail(c)
  /\ Goto(c, "read", "claim")
  /\ UNCHANGED <<row, article, ctx, reply, owner, ran>>

ReadExistingFails(c) ==
  /\ StatementMayFail(c)
  /\ Return(c, "read", Answer("claim error", NoCall))
  /\ UNCHANGED <<row, article, ctx, owner, ran>>

\* Mutant: the validation error is dropped.
RejectInputUnnoticed(c) ==
  /\ Goto(c, "run", "save success")
  /\ UNCHANGED <<row, article, ctx, reply, owner, ran>>

(* Run rejects the article or the extractor input before the LLM is used.  *)
RejectInput(c) ==
  /\ Goto(c, "run", "save failure")
  /\ UNCHANGED <<row, article, ctx, reply, owner, ran>>

(* Run calls the extractor.                                                *)
CallExtractor(c) ==
  /\ Goto(c, "run", "extract")
  /\ ran' = ran \cup {c}
  /\ UNCHANGED <<row, article, ctx, reply, owner>>

(* The extractor's answer passed validation and carries the article's id.  *)
ExtractorSucceeds(c) ==
  /\ ctx[c] = "live"
  /\ Goto(c, "extract", "save success")
  /\ UNCHANGED <<row, article, ctx, reply, owner, ran>>

(* The extractor failed, timed out or was cancelled, or its answer was     *)
(* rejected.                                                               *)
ExtractorFails(c) ==
  /\ Goto(c, "extract", "save failure")
  /\ UNCHANGED <<row, article, ctx, reply, owner, ran>>

UpsertSuccess(c) ==
  /\ ctx[c] = "live"
  /\ Return(c, "save success", Answer("newly_extracted", c))
  /\ row' = [row EXCEPT ![article[c]] = DoneRow(c)]
  /\ UNCHANGED <<article, ctx, owner, ran>>

UpsertSuccessFails(c) ==
  /\ StatementMayFail(c)
  /\ Return(c, "save success", Answer("persist error", NoCall))
  /\ \/ row' = [row EXCEPT ![article[c]] = DoneRow(c)]
     \/ UNCHANGED row
  /\ UNCHANGED <<article, ctx, owner, ran>>

\* Mutant: the error is returned without recording it.
UpsertFailureSkipped(c) ==
  /\ Return(c, "save failure", Answer("run error", c))
  /\ UNCHANGED <<row, article, ctx, owner, ran>>

UpsertFailure(c) ==
  /\ ctx[c] = "live"
  /\ Return(c, "save failure", Answer("run error", c))
  /\ row' = [row EXCEPT ![article[c]] = FailedRow(@, c)]
  /\ UNCHANGED <<article, ctx, owner, ran>>

UpsertFailureFails(c) ==
  /\ StatementMayFail(c)
  /\ Return(c, "save failure", Answer("persist error", NoCall))
  /\ \/ row' = [row EXCEPT ![article[c]] = FailedRow(@, c)]
     \/ UNCHANGED row
  /\ UNCHANGED <<article, ctx, owner, ran>>

(* The HTTP client disconnects, or main cancels the root context.          *)
Cancel(c) ==
  /\ "cancel" \in Faults
  /\ pc[c] \in Running
  /\ ctx[c] = "live"
  /\ ctx' = [ctx EXCEPT ![c] = "canceled"]
  /\ UNCHANGED <<row, pc, article, reply, owner, ran>>

(* The process exits: main returns without waiting for handlers and        *)
(* schedulers, or the process dies.  Its calls vanish, the rows stay.      *)
(* Later calls run in the next process.                                    *)
Crash ==
  /\ "crash" \in Faults
  /\ \E c \in Calls : pc[c] \in Running
  /\ pc' = [c \in Calls |-> IF pc[c] \in Running THEN "lost" ELSE pc[c]]
  /\ UNCHANGED <<row, article, ctx, reply, owner, ran>>

\* The steps the goroutine of call c takes by itself.
Step(c) ==
  \/ ClaimPending(c) \/ ClaimPendingFails(c)
  \/ ReadExisting(c) \/ ReadExistingFails(c)
  \/ RejectInput(c) \/ CallExtractor(c)
  \/ ExtractorSucceeds(c) \/ ExtractorFails(c)
  \/ UpsertSuccess(c) \/ UpsertSuccessFails(c)
  \/ UpsertFailure(c) \/ UpsertFailureFails(c)

Next == (\E c \in Calls : Start(c) \/ Step(c) \/ Cancel(c)) \/ Crash

Spec == Init /\ [][Next]_vars

\* A goroutine that can take a step eventually does: statements and the LLM's
\* HTTP client return (the client has a timeout).  Callers need not start.
FairSpec == Spec /\ \A c \in Calls : WF_vars(Step(c))

-----------------------------------------------------------------------------
(* Properties                                                              *)

\* Every variable has its type.
TypeOK ==
  /\ row \in [Articles -> Row]
  /\ pc \in [Calls -> Locations]
  /\ article \in [Calls -> Articles]
  /\ ctx \in [Calls -> {"live", "canceled"}]
  /\ reply \in [Calls -> Reply]
  /\ owner \in [Articles -> Calls \cup {NoCall}]
  /\ ran \subseteq Calls

\* The LLM is paid for at most once per article, whatever calls race on it,
\* whatever fails and however often the process restarts (ClaimPending is the
\* only guard in front of the extractor).
OneRunPerArticle ==
  \A c, d \in ran : article[c] = article[d] => c = d

\* A pending row that no call is working on can be traced to a call that was
\* lost in a crash or whose caller was told of an infrastructure error: rows
\* are stranded by faults only, never by an ordinary failure or a race.
StrandedOnlyByFaults ==
  \A a \in Articles : row[a].status = "pending" =>
    \E c \in Calls :
      /\ article[c] = a
      /\ \/ pc[c] \in Owning \cup {"lost"}
         \/ reply[c].kind \in {"claim error", "persist error"}

\* What a call was told agrees with the row for good: a fresh or stored result
\* is the row's result, a failure is the row's failure, and a row that was
\* reported pending is still there.
AgreesWith(r, told) ==
  /\ told.kind \in {"newly_extracted", "already_done"} =>
       r.status = "done" /\ r.result = told.value
  /\ told.kind \in {"run error", "already_failed"} =>
       r.status = "failed" /\ r.error = told.value
  /\ told.kind = "already_pending" => r.status # "none"

RepliesAgreeWithRow == \A c \in Calls : AgreesWith(row[article[c]], reply[c])

\* A done row holds what an extractor run for that very article returned, and
\* a failed row holds no extracted fields.
RowsComeFromRuns ==
  \A a \in Articles :
    /\ row[a].status = "done" => row[a].result \in ran /\ article[row[a].result] = a
    /\ row[a].status = "failed" => row[a].result = NoCall

\* Once done or failed, a row is never written again, although UpsertSuccess
\* and UpsertFailure overwrite unconditionally.
SettledForever ==
  [][\A a \in Articles : row[a].status \in {"done", "failed"} => row'[a] = row[a]]_vars

\* A comment says that a pending row is an extraction "started and in
\* progress" (repository.go:71): some call is working on it.
PendingMeansInProgress ==
  \A a \in Articles : row[a].status = "pending" =>
    \E c \in Calls : article[c] = a /\ pc[c] \in Owning

\* Every call comes back to its caller unless its process exits.
CallsReturn ==
  \A c \in Calls : pc[c] = "claim" ~> pc[c] \in {"returned", "lost"}

\* A fault met a call on article a: its process exited, or its caller was told
\* of an infrastructure error.
Faulted(a) ==
  \E c \in Calls : article[c] = a /\ (pc[c] = "lost" \/ reply[c].kind \in {"claim error", "persist error"})

\* Every claimed article is settled, unless a fault met a call on that very
\* article: races, rejected inputs and extractor failures leave nothing pending.
PendingSettles ==
  \A a \in Articles :
    row[a].status = "pending" ~> (row[a].status \in {"done", "failed"} \/ Faulted(a))

-----------------------------------------------------------------------------
(* Refinement: the answer a call is given is fixed by the one statement    *)
(* that decided it; program counters, contexts and the extractor's progress*)
(* are hidden.                                                             *)
Told(r) ==
  LET promised ==
        CASE r.kind = "none" -> "nothing"
          [] r.kind \in {"newly_extracted", "already_done"} -> "done"
          [] r.kind \in {"run error", "already_failed"} -> "failed"
          [] r.kind = "already_pending" -> "pending"
          [] OTHER -> "trouble"
  IN [kind |-> promised, of |-> r.value]

Promise == INSTANCE ClaimOnce WITH
  slot <- [a \in Articles |-> [phase |-> row[a].status, by |-> owner[a]]],
  told <- [c \in Calls |-> Told(reply[c])]

\* The statements of ClaimPending, UpsertSuccess and UpsertFailure, however
\* they interleave, give callers what ClaimOnce promises.
ImplementsClaimOnce == Promise!Spec
=============================================================================
