----------------------------- MODULE HttpServer -----------------------------
(***************************************************************************)
(* What surrounds every HTTP request: the telemetry middleware with its    *)
(* in-flight tracker (internal/observability/telemetry.go), the recovery   *)
(* middleware (internal/http/middleware_recovery.go), the answer written   *)
(* by a handler (writeJSON and respondError, internal/http/handler.go),    *)
(* and the server's end on a signal (main.go).                             *)
(*                                                                         *)
(* Requests run concurrently and share the tracker, which the exporter of  *)
(* the metrics snapshots.  The tracker forgets a route once a snapshot has *)
(* reported zero for it, so that there is one chance to tell the backend   *)
(* that a route is idle.                                                   *)
(***************************************************************************)
EXTENDS Naturals, Sequences, FiniteSets

CONSTANTS
  Requests,
  Keys,       \* method and route (the path, as the mux runs further inside)
  KeyOf,
  Statuses,   \* what handlers answer with
  NoExport,
  FaultsOf,   \* FaultsOf[r]: what may go wrong in request r
  Outages     \* "lost": an export fails; "signal": the process is told to end

\* "panic", "abort": in the handler; "worker": a panic in a goroutine started by
\* the handler; "encode": a payload that cannot be encoded; "gone": the client,
\* or the write deadline of the connection.
HandlerFaults == {"panic", "abort", "worker", "encode", "gone"}

ASSUME ServerAssumption ==
  /\ IsFiniteSet(Requests)
  /\ KeyOf \in [Requests -> Keys]
  /\ Statuses \subseteq Nat \ {0}
  /\ FaultsOf \in [Requests -> SUBSET HandlerFaults]
  /\ Outages \subseteq {"lost", "signal"}
  /\ \A S \in SUBSET Keys : NoExport \notin [S -> Nat]

VARIABLES
  proc,         \* "serving", "stopping", "flushing" or "exited"
  pc,           \* pc[r]: where the request is
  unwinding,    \* unwinding[r]: http.ErrAbortHandler is on its way up
  statusCode,   \* statusCode[r]: statusRecorder.statusCode
  started,      \* started[r]: recoveryResponseWriter.ResponseStarted()
  status,       \* status[r]: the status line given to net/http; 0 if none
  body,         \* body[r]: the parts written, each by the status it is meant for
  gone,         \* gone[r]: nothing reaches the client any more
  client,       \* client[r]: what the client made of it
  recorded,     \* recorded[r]: the status that request_count was raised under
  counts,       \* inFlightTracker.counts; its DOMAIN is the tracked keys
  pendingZero,  \* inFlightTracker.pendingZeroEmit
  export,       \* the samples under way to the backend
  seen,         \* seen[k]: the last sample of k that the backend has
  zeroLost,     \* history: keys whose last zero sample was lost
  fate          \* history: what went wrong in the handler of r

requestVars == <<unwinding, statusCode, started, status, body, gone, client, recorded, fate>>
trackerVars == <<counts, pendingZero>>
exportVars == <<export, seen, zeroLost>>
vars == <<proc, pc, requestVars, trackerVars, exportVars>>

-----------------------------------------------------------------------------
OK == 200
InternalServerError == 500

Codes == Statuses \cup {OK, InternalServerError}

InMiddleware == {"handling", "writing", "panicking", "recording", "leaving"}

Alive == proc # "exited"

Goto(r, from, to) == Alive /\ pc[r] = from /\ pc' = [pc EXCEPT ![r] = to]

Init ==
  /\ proc = "serving"
  /\ pc = [r \in Requests |-> "idle"]
  /\ unwinding = [r \in Requests |-> FALSE]
  /\ statusCode = [r \in Requests |-> OK]
  /\ started = [r \in Requests |-> FALSE]
  /\ status = [r \in Requests |-> 0]
  /\ body = [r \in Requests |-> <<>>]
  /\ gone = [r \in Requests |-> FALSE]
  /\ client = [r \in Requests |-> "waiting"]
  /\ recorded = [r \in Requests |-> 0]
  /\ counts = [k \in {} |-> 0]
  /\ pendingZero = {}
  /\ export = NoExport
  /\ seen = [k \in Keys |-> 0]
  /\ zeroLost = {}
  /\ fate = [r \in Requests |-> "none"]

-----------------------------------------------------------------------------
(* The tracker; its mutex makes each call one step.                        *)

\* counts[key] of a Go map: zero for a key that is not there.
Current(k) == IF k \in DOMAIN counts THEN counts[k] ELSE 0

Put(k, n) == counts' = [x \in DOMAIN counts \cup {k} |-> IF x = k THEN n ELSE counts[x]]

increment(k) ==
  /\ Put(k, Current(k) + 1)
  /\ pendingZero' = pendingZero \ {k}

\* Mutant: a route is dropped as soon as it is idle.
decrementDropping(k) ==
  IF Current(k) <= 1
  THEN /\ counts' = [x \in DOMAIN counts \ {k} |-> counts[x]]
       /\ UNCHANGED pendingZero
  ELSE Put(k, Current(k) - 1) /\ UNCHANGED pendingZero

decrement(k) ==
  IF Current(k) <= 1
  THEN Put(k, 0) /\ pendingZero' = pendingZero \cup {k}
  ELSE Put(k, Current(k) - 1) /\ UNCHANGED pendingZero

\* Mutant: the keys that were reported as zero are kept.
snapshotKeeping ==
  /\ export' = counts
  /\ UNCHANGED <<counts, pendingZero>>

\* The snapshot is what the callback observes; zeros it has seen are dropped.
snapshot ==
  LET dropped == {k \in DOMAIN counts : counts[k] = 0 /\ k \in pendingZero}
  IN /\ export' = counts
     /\ counts' = [k \in DOMAIN counts \ dropped |-> counts[k]]
     /\ pendingZero' = pendingZero \ dropped

-----------------------------------------------------------------------------
(* The response writers, from the handler outwards: recovery's writer marks*)
(* the response as started, the recorder keeps the last status, and        *)
(* net/http sends the first.                                               *)

WriteHeader(r, code) ==
  /\ started' = [started EXCEPT ![r] = TRUE]
  /\ statusCode' = [statusCode EXCEPT ![r] = code]
  /\ status' = [status EXCEPT ![r] = IF @ = 0 THEN code ELSE @]

WriteBody(r, code) == body' = [body EXCEPT ![r] = Append(@, code)]

\* http.Error
HttpError(r, code) == WriteHeader(r, code) /\ WriteBody(r, code)

(* The request reaches the telemetry middleware, which increments before   *)
(* it calls on; statusRecorder starts with 200.                            *)
Arrive(r) ==
  /\ proc = "serving"
  /\ Goto(r, "idle", "handling")
  /\ increment(KeyOf[r])
  /\ UNCHANGED <<proc, requestVars, exportVars>>

(* writeJSON and respondError begin with the status line.                  *)
BeginAnswer(r, code) ==
  /\ Goto(r, "handling", "writing")
  /\ WriteHeader(r, code)
  /\ UNCHANGED <<proc, unwinding, body, gone, client, recorded, fate, trackerVars, exportVars>>

(* The body is written as a whole and the handler returns.                 *)
Answer(r) ==
  /\ Goto(r, "writing", "recording")
  /\ WriteBody(r, statusCode[r])
  /\ UNCHANGED <<proc, unwinding, statusCode, started, status, gone, client, recorded, fate,
                 trackerVars, exportVars>>

(* writeJSON's Encode fails, because of the payload or of the connection:  *)
(* http.Error, although the status line is out.                            *)
EncodeFails(r) ==
  /\ "encode" \in FaultsOf[r] \/ gone[r]
  /\ Goto(r, "writing", "recording")
  /\ HttpError(r, InternalServerError)
  /\ fate' = [fate EXCEPT ![r] = "misencoded"]
  /\ UNCHANGED <<proc, unwinding, gone, client, recorded, trackerVars, exportVars>>

\* A panic ends the handler before, in or after the body of its answer.
Unwinds(r, to) ==
  \/ UNCHANGED body /\ \E from \in {"handling", "writing"} : Goto(r, from, to)
  \/ WriteBody(r, statusCode[r]) /\ Goto(r, "writing", to)

HandlerPanics(r) ==
  /\ "panic" \in FaultsOf[r]
  /\ Unwinds(r, "panicking")
  /\ fate' = [fate EXCEPT ![r] = "panic"]
  /\ UNCHANGED <<proc, unwinding, statusCode, started, status, gone, client, recorded,
                 trackerVars, exportVars>>

(* A panic with http.ErrAbortHandler is passed on by the recovery.         *)
HandlerAborts(r) ==
  /\ "abort" \in FaultsOf[r]
  /\ Unwinds(r, "recording")
  /\ unwinding' = [unwinding EXCEPT ![r] = TRUE]
  /\ fate' = [fate EXCEPT ![r] = "abort"]
  /\ UNCHANGED <<proc, statusCode, started, status, gone, client, recorded, trackerVars, exportVars>>

\* Mutant: only a body counts as a started response.
RecoverUnlessBody(r) ==
  /\ Goto(r, "panicking", "recording")
  /\ IF body[r] # <<>>
     THEN /\ unwinding' = [unwinding EXCEPT ![r] = TRUE]
          /\ UNCHANGED <<statusCode, started, status, body>>
     ELSE /\ HttpError(r, InternalServerError)
          /\ UNCHANGED unwinding
  /\ UNCHANGED <<proc, gone, client, recorded, fate, trackerVars, exportVars>>

(* The recovery's deferred function: a started response is aborted, any    *)
(* other is answered with a 500.                                           *)
Recover(r) ==
  /\ Goto(r, "panicking", "recording")
  /\ IF started[r]
     THEN /\ unwinding' = [unwinding EXCEPT ![r] = TRUE]
          /\ UNCHANGED <<statusCode, started, status, body>>
     ELSE /\ HttpError(r, InternalServerError)
          /\ UNCHANGED unwinding
  /\ UNCHANGED <<proc, gone, client, recorded, fate, trackerVars, exportVars>>

\* Mutant: the status is read when the handler is called, as a deferred call's
\* arguments are.
RecordAtStart(r) ==
  /\ Goto(r, "recording", "leaving")
  /\ recorded' = [recorded EXCEPT ![r] = OK]
  /\ UNCHANGED <<proc, unwinding, statusCode, started, status, body, gone, client, fate,
                 trackerVars, exportVars>>

(* The telemetry middleware's second deferred function counts the request. *)
Record(r) ==
  /\ Goto(r, "recording", "leaving")
  /\ recorded' = [recorded EXCEPT ![r] = statusCode[r]]
  /\ UNCHANGED <<proc, unwinding, statusCode, started, status, body, gone, client, fate,
                 trackerVars, exportVars>>

(* Its first deferred function; then net/http finishes the response or, on *)
(* ErrAbortHandler, closes the connection.                                 *)
Leave(r) ==
  /\ Goto(r, "leaving", "done")
  /\ decrement(KeyOf[r])
  /\ client' = [client EXCEPT ![r] = IF unwinding[r] \/ gone[r] THEN "aborted" ELSE "complete"]
  /\ UNCHANGED <<proc, unwinding, statusCode, started, status, body, gone, recorded, fate, exportVars>>

(* The write deadline of the connection passes, or the client goes away.   *)
ConnectionEnds(r) ==
  /\ "gone" \in FaultsOf[r]
  /\ Alive
  /\ pc[r] \in InMiddleware
  /\ ~gone[r]
  /\ gone' = [gone EXCEPT ![r] = TRUE]
  /\ UNCHANGED <<proc, pc, unwinding, statusCode, started, status, body, client, recorded, fate,
                 trackerVars, exportVars>>

-----------------------------------------------------------------------------
(* The periodic reader collects, then exports, one collection at a time.   *)

Collect ==
  /\ proc \in {"serving", "stopping"}
  /\ export = NoExport
  /\ snapshot
  /\ UNCHANGED <<proc, pc, requestVars, seen, zeroLost>>

Deliver ==
  /\ Alive
  /\ export # NoExport
  /\ seen' = [k \in Keys |-> IF k \in DOMAIN export THEN export[k] ELSE seen[k]]
  /\ zeroLost' = zeroLost \ DOMAIN export
  /\ export' = NoExport
  /\ UNCHANGED <<proc, pc, requestVars, trackerVars>>

(* The backend cannot be reached: the collection is dropped.               *)
Lose ==
  /\ "lost" \in Outages
  /\ Alive
  /\ export # NoExport
  /\ zeroLost' = zeroLost \cup {k \in DOMAIN export : export[k] = 0}
  /\ export' = NoExport
  /\ UNCHANGED <<proc, pc, requestVars, trackerVars, seen>>

-----------------------------------------------------------------------------
(* main's last lines.                                                      *)

(* The root context ends, Shutdown closes the listener and ListenAndServe  *)
(* returns at once: main runs its deferred functions while requests that   *)
(* have arrived go on.                                                     *)
Signal ==
  /\ "signal" \in Outages
  /\ proc = "serving"
  /\ proc' = "stopping"
  /\ UNCHANGED <<pc, requestVars, trackerVars, exportVars>>

(* telemetry.Shutdown: the metric provider collects for the last time.     *)
LastCollect ==
  /\ proc = "stopping"
  /\ export = NoExport
  /\ snapshot
  /\ proc' = "flushing"
  /\ UNCHANGED <<pc, requestVars, seen, zeroLost>>

Die ==
  /\ proc' = "exited"
  /\ pc' = [r \in Requests |-> IF pc[r] \in InMiddleware THEN "cut" ELSE pc[r]]
  /\ client' = [r \in Requests |-> IF pc[r] \in InMiddleware THEN "aborted" ELSE client[r]]
  /\ UNCHANGED <<unwinding, statusCode, started, status, body, gone, recorded, fate,
                 trackerVars, exportVars>>

(* main returns, whether or not Shutdown has seen the requests end.        *)
Exit == proc = "flushing" /\ export = NoExport /\ Die

(* A panic in a batch worker is not on the handler's stack: no recovery.   *)
WorkerPanics(r) == "worker" \in FaultsOf[r] /\ Alive /\ pc[r] = "handling" /\ Die

Stopped == ~Alive /\ UNCHANGED vars

Handler(r) ==
  \/ \E code \in Statuses : BeginAnswer(r, code)
  \/ Answer(r) \/ EncodeFails(r) \/ HandlerPanics(r) \/ HandlerAborts(r)
  \/ Recover(r) \/ Record(r) \/ Leave(r)

Exporter == Collect \/ Deliver \/ Lose

Main == LastCollect \/ Exit

Next ==
  \/ \E r \in Requests : Arrive(r) \/ Handler(r) \/ ConnectionEnds(r) \/ WorkerPanics(r)
  \/ Exporter \/ Main \/ Signal \/ Stopped

Spec == Init /\ [][Next]_vars

\* Handlers come to an end (every call they make has a timeout or fails), the
\* reader's ticker fires and exports end, and main runs to its end.
FairSpec ==
  Spec /\ (\A r \in Requests : WF_vars(Handler(r))) /\ WF_vars(Exporter) /\ WF_vars(Main)

-----------------------------------------------------------------------------
(* Properties                                                              *)

\* Every variable has its type.
TypeOK ==
  /\ proc \in {"serving", "stopping", "flushing", "exited"}
  /\ pc \in [Requests -> InMiddleware \cup {"idle", "done", "cut"}]
  /\ unwinding \in [Requests -> BOOLEAN] /\ started \in [Requests -> BOOLEAN]
  /\ gone \in [Requests -> BOOLEAN]
  /\ statusCode \in [Requests -> Codes]
  /\ status \in [Requests -> Codes \cup {0}] /\ recorded \in [Requests -> Codes \cup {0}]
  /\ body \in [Requests -> Seq(Codes)]
  /\ client \in [Requests -> {"waiting", "complete", "aborted"}]
  /\ DOMAIN counts \subseteq Keys /\ counts \in [DOMAIN counts -> Nat]
  /\ pendingZero \subseteq Keys /\ zeroLost \subseteq Keys
  /\ export = NoExport \/ (DOMAIN export \subseteq Keys /\ export \in [DOMAIN export -> Nat])
  /\ seen \in [Keys -> Nat]
  /\ fate \in [Requests -> {"none", "panic", "abort", "misencoded"}]

InFlight(k) == {r \in Requests : KeyOf[r] = k /\ pc[r] \in InMiddleware}

\* The gauge can be trusted: the tracker counts exactly the requests inside the
\* middleware, panics and aborts included, and forgets a route only once zero is
\* what the backend knows of it, or is about to, unless that one sample was lost.
GaugeCatchesUp ==
  Alive => \A k \in Keys :
    /\ Cardinality(InFlight(k)) = Current(k)
    /\ \/ k \in DOMAIN counts \/ seen[k] = 0 \/ k \in zeroLost
       \/ export # NoExport /\ k \in DOMAIN export /\ export[k] = 0

\* A client never takes the result of a panic for an answer, nor two answers for
\* one: what arrives in full is one body under its own status, a panic before the
\* status line is a 500, and one after it breaks the connection off without a second
\* body.  The body of a 500 under another status needs an encoding error.
OneWholeAnswer ==
  \A r \in Requests :
    /\ client[r] = "complete" =>
         body[r] = <<status[r]>> \/ (fate[r] = "misencoded" /\ body[r] = <<InternalServerError>>)
    /\ client[r] = "complete" /\ fate[r] = "panic" => status[r] = InternalServerError
    /\ client[r] = "aborted" /\ fate[r] = "panic" /\ pc[r] = "done" /\ ~gone[r] =>
         status[r] # 0 /\ body[r] \in {<<>>, <<status[r]>>}

\* request_count tells the truth: a request whose answer arrived was counted
\* before, under the status that arrived, or else as the error it was.
CountedAsSent ==
  \A r \in Requests : client[r] = "complete" =>
    recorded[r] = IF fate[r] = "misencoded" THEN InternalServerError ELSE status[r]

\* A route does not stay in the tracker for good: routes are paths that clients
\* choose, so that keeping them would let the maps grow without end.
IdleRoutesForgotten == \A k \in Keys : k \in DOMAIN counts ~> (k \notin DOMAIN counts \/ ~Alive)
=============================================================================
