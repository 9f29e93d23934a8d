-------------------------- MODULE HttpServerProofs --------------------------
(***************************************************************************)
(* That the gauge, the counter and the answers of HttpServer can be        *)
(* trusted, for any requests, routes, failures and outages.                *)
(***************************************************************************)
EXTENDS HttpServer, FiniteSetTheorems, TLAPS

-----------------------------------------------------------------------------
(* The inductive invariant.                                                *)

RequestTypes ==
  /\ pc \in [Requests -> InMiddleware \cup {"idle", "done", "cut"}]
  /\ unwinding \in [Requests -> BOOLEAN] /\ started \in [Requests -> BOOLEAN]
  /\ gone \in [Requests -> BOOLEAN]
  /\ statusCode \in [Requests -> Codes]
  /\ status \in [Requests -> Codes \cup {0}] /\ recorded \in [Requests -> Codes \cup {0}]
  /\ body \in [Requests -> Seq(Codes)]
  /\ client \in [Requests -> {"waiting", "complete", "aborted"}]
  /\ fate \in [Requests -> {"none", "panic", "abort", "misencoded"}]

TrackerTypes ==
  /\ DOMAIN counts \subseteq Keys /\ counts \in [DOMAIN counts -> Nat]
  /\ pendingZero \subseteq Keys /\ zeroLost \subseteq Keys
  /\ export = NoExport \/ (DOMAIN export \subseteq Keys /\ export \in [DOMAIN export -> Nat])
  /\ seen \in [Keys -> Nat]

\* What the handler and the recovery leave behind: one answer under the status
\* that the recorder holds, or a broken connection.
Finished(r) ==
  /\ ~unwinding[r] =>
       \/ fate[r] = "none" /\ body[r] = <<status[r]>> /\ statusCode[r] = status[r]
       \/ fate[r] = "misencoded" /\ body[r] = <<InternalServerError>>
            /\ statusCode[r] = InternalServerError
       \/ fate[r] = "panic" /\ status[r] = InternalServerError
            /\ body[r] = <<status[r]>> /\ statusCode[r] = status[r]
  /\ unwinding[r] /\ fate[r] = "panic" => status[r] # 0 /\ body[r] \in {<<>>, <<status[r]>>}

\* What each place in the middlewares says of a request.
Accountable(r) ==
  /\ pc[r] \in {"idle", "handling"} =>
       /\ fate[r] = "none" /\ ~unwinding[r]
       /\ ~started[r] /\ status[r] = 0 /\ body[r] = <<>>
  /\ pc[r] = "writing" =>
       /\ fate[r] = "none" /\ ~unwinding[r]
       /\ status[r] # 0 /\ status[r] = statusCode[r] /\ body[r] = <<>>
  /\ pc[r] = "panicking" =>
       /\ fate[r] = "panic" /\ ~unwinding[r]
       /\ started[r] <=> status[r] # 0
       /\ body[r] = <<>> \/ (started[r] /\ body[r] = <<status[r]>>)
  /\ pc[r] = "writing" => started[r]
  /\ pc[r] \in {"recording", "leaving", "done"} => Finished(r)
  /\ pc[r] \in {"leaving", "done"} => recorded[r] = statusCode[r]
  /\ pc[r] \notin {"done", "cut"} => client[r] = "waiting"
  /\ pc[r] = "done" => client[r] = IF unwinding[r] \/ gone[r] THEN "aborted" ELSE "complete"
  /\ pc[r] = "cut" => client[r] = "aborted"

AllAccountable == \A r \in Requests : Accountable(r)

LEMMA CodesAreNonzero == 0 \notin Codes /\ InternalServerError \in Codes /\ OK \in Codes
BY ServerAssumption DEF Codes, InternalServerError, OK

LEMMA InitRequests == Init => RequestTypes /\ AllAccountable
<1> SUFFICES ASSUME Init PROVE RequestTypes /\ AllAccountable
  OBVIOUS
<1>1. RequestTypes
  BY CodesAreNonzero DEF Init, RequestTypes
<1>2. AllAccountable
  BY DEF Init, AllAccountable, Accountable
<1> QED
  BY <1>1, <1>2

\* A request that a step leaves alone stays accountable.
Untouched(q) ==
  /\ pc'[q] = pc[q] /\ unwinding'[q] = unwinding[q]
  /\ statusCode'[q] = statusCode[q] /\ started'[q] = started[q]
  /\ status'[q] = status[q] /\ body'[q] = body[q]
  /\ gone'[q] = gone[q] /\ client'[q] = client[q]
  /\ recorded'[q] = recorded[q] /\ fate'[q] = fate[q]

LEMMA UntouchedKeeps ==
  ASSUME NEW q, Accountable(q), Untouched(q)
  PROVE  Accountable(q)'
BY DEF Accountable, Untouched, Finished

LEMMA FirstPart ==
  ASSUME NEW x
  PROVE  Append(<<>>, x) = <<x>>
OBVIOUS

-----------------------------------------------------------------------------
(* The steps of a handler.                                                 *)

LEMMA BeginAnswerKeeps ==
  ASSUME RequestTypes, AllAccountable, NEW r \in Requests, NEW code \in Statuses, BeginAnswer(r, code)
  PROVE  RequestTypes' /\ AllAccountable'
<1> USE DEF BeginAnswer, Goto, WriteHeader
<1>1. code \in Codes /\ code # 0
  BY ServerAssumption DEF Codes
<1>2. RequestTypes'
  BY <1>1 DEF RequestTypes, InMiddleware
<1>3. Accountable(r)'
  BY <1>1 DEF RequestTypes, AllAccountable, Accountable
<1>4. \A q \in Requests \ {r} : Untouched(q)
  BY DEF RequestTypes, Untouched
<1> QED
  BY <1>2, <1>3, <1>4, UntouchedKeeps DEF AllAccountable

LEMMA AnswerKeeps ==
  ASSUME RequestTypes, AllAccountable, NEW r \in Requests, Answer(r)
  PROVE  RequestTypes' /\ AllAccountable'
<1> USE DEF Answer, Goto, WriteBody
<1>1. body'[r] = <<statusCode[r]>>
  <2>1. body[r] = <<>> /\ body'[r] = Append(body[r], statusCode[r])
    BY DEF RequestTypes, AllAccountable, Accountable
  <2> QED
    BY <2>1, FirstPart
<1>2. RequestTypes'
  <2>1. body' \in [Requests -> Seq(Codes)]
    BY DEF RequestTypes
  <2> QED
    BY <2>1 DEF RequestTypes, InMiddleware
<1>3. Accountable(r)'
  BY <1>1 DEF RequestTypes, AllAccountable, Accountable, Finished
<1>4. \A q \in Requests \ {r} : Untouched(q)
  BY DEF RequestTypes, Untouched
<1> QED
  BY <1>2, <1>3, <1>4, UntouchedKeeps DEF AllAccountable

LEMMA EncodeFailsKeeps ==
  ASSUME RequestTypes, AllAccountable, NEW r \in Requests, EncodeFails(r)
  PROVE  RequestTypes' /\ AllAccountable'
<1> USE CodesAreNonzero DEF EncodeFails, Goto, HttpError, WriteHeader, WriteBody
<1>1. body'[r] = <<InternalServerError>>
  <2>1. body[r] = <<>> /\ body'[r] = Append(body[r], InternalServerError)
    BY DEF RequestTypes, AllAccountable, Accountable
  <2> QED
    BY <2>1, FirstPart
<1>2. RequestTypes'
  <2>1. body' \in [Requests -> Seq(Codes)]
    BY DEF RequestTypes
  <2>2. status' \in [Requests -> Codes \cup {0}]
    BY DEF RequestTypes
  <2> QED
    BY <2>1, <2>2 DEF RequestTypes, InMiddleware
<1>3. Accountable(r)'
  BY <1>1 DEF RequestTypes, AllAccountable, Accountable, Finished
<1>4. \A q \in Requests \ {r} : Untouched(q)
  BY DEF RequestTypes, Untouched
<1> QED
  BY <1>2, <1>3, <1>4, UntouchedKeeps DEF AllAccountable

\* What a panic leaves of the answer.
LEMMA UnwindsTo ==
  ASSUME RequestTypes, AllAccountable, NEW r \in Requests, NEW to, Unwinds(r, to)
  PROVE  /\ pc[r] \in {"handling", "writing"} /\ pc' = [pc EXCEPT ![r] = to]
         /\ body' \in [Requests -> Seq(Codes)]
         /\ \A q \in Requests \ {r} : body'[q] = body[q]
         /\ body'[r] = <<>> \/ (pc[r] = "writing" /\ body'[r] = <<status[r]>>)
<1>1. body[r] = <<>> /\ (pc[r] = "writing" => statusCode[r] = status[r])
  BY DEF AllAccountable, Accountable, Unwinds, Goto
<1>2. CASE UNCHANGED body
  BY <1>1, <1>2 DEF Unwinds, Goto, RequestTypes
<1>3. CASE WriteBody(r, statusCode[r]) /\ Goto(r, "writing", to)
  <2>1. body'[r] = Append(body[r], statusCode[r])
    BY <1>3 DEF WriteBody, RequestTypes
  <2>2. body'[r] = <<statusCode[r]>>
    BY <1>1, <2>1, FirstPart
  <2>3. body' \in [Requests -> Seq(Codes)]
    BY <1>3 DEF WriteBody, RequestTypes
  <2>4. \A q \in Requests \ {r} : body'[q] = body[q]
    BY <1>3 DEF WriteBody, RequestTypes
  <2> QED
    BY <1>1, <1>3, <2>2, <2>3, <2>4 DEF Goto
<1> QED
  BY <1>2, <1>3 DEF Unwinds

LEMMA HandlerPanicsKeeps ==
  ASSUME RequestTypes, AllAccountable, NEW r \in Requests, HandlerPanics(r)
  PROVE  RequestTypes' /\ AllAccountable'
<1>1. /\ pc[r] \in {"handling", "writing"} /\ pc' = [pc EXCEPT ![r] = "panicking"]
      /\ body' \in [Requests -> Seq(Codes)] /\ \A q \in Requests \ {r} : body'[q] = body[q]
      /\ body'[r] = <<>> \/ (pc[r] = "writing" /\ body'[r] = <<status[r]>>)
  BY UnwindsTo DEF HandlerPanics
<1> USE DEF HandlerPanics
<1>2. RequestTypes'
  BY <1>1 DEF RequestTypes, InMiddleware
<1>3. Accountable(r)'
  BY <1>1 DEF RequestTypes, AllAccountable, Accountable
<1>4. \A q \in Requests \ {r} : Untouched(q)
  BY <1>1 DEF RequestTypes, Untouched
<1> QED
  BY <1>2, <1>3, <1>4, UntouchedKeeps DEF AllAccountable

LEMMA HandlerAbortsKeeps ==
  ASSUME RequestTypes, AllAccountable, NEW r \in Requests, HandlerAborts(r)
  PROVE  RequestTypes' /\ AllAccountable'
<1>1. /\ pc[r] \in {"handling", "writing"} /\ pc' = [pc EXCEPT ![r] = "recording"]
      /\ body' \in [Requests -> Seq(Codes)] /\ \A q \in Requests \ {r} : body'[q] = body[q]
  BY UnwindsTo DEF HandlerAborts
<1> USE DEF HandlerAborts
<1>2. RequestTypes'
  BY <1>1 DEF RequestTypes, InMiddleware
<1>3. Accountable(r)'
  BY <1>1 DEF RequestTypes, AllAccountable, Accountable, Finished
<1>4. \A q \in Requests \ {r} : Untouched(q)
  BY <1>1 DEF RequestTypes, Untouched
<1> QED
  BY <1>2, <1>3, <1>4, UntouchedKeeps DEF AllAccountable

LEMMA RecoverKeeps ==
  ASSUME RequestTypes, AllAccountable, NEW r \in Requests, Recover(r)
  PROVE  RequestTypes' /\ AllAccountable'
<1>1. CASE started[r]
  <2> USE <1>1 DEF Recover, Goto
  <2>1. RequestTypes'
    BY DEF RequestTypes, InMiddleware
  <2>2. Accountable(r)'
    BY DEF RequestTypes, AllAccountable, Accountable, Finished
  <2>3. \A q \in Requests \ {r} : Untouched(q)
    BY DEF RequestTypes, Untouched
  <2> QED
    BY <2>1, <2>2, <2>3, UntouchedKeeps DEF AllAccountable
<1>2. CASE ~started[r]
  <2>1. /\ pc[r] = "panicking" /\ pc' = [pc EXCEPT ![r] = "recording"]
        /\ started' = [started EXCEPT ![r] = TRUE]
        /\ statusCode' = [statusCode EXCEPT ![r] = InternalServerError]
        /\ status' = [status EXCEPT ![r] = IF @ = 0 THEN InternalServerError ELSE @]
        /\ body' = [body EXCEPT ![r] = Append(@, InternalServerError)]
        /\ UNCHANGED <<unwinding, gone, client, recorded, fate>>
    BY <1>2 DEF Recover, Goto, HttpError, WriteHeader, WriteBody
  <2>2. status[r] = 0 /\ body[r] = <<>> /\ fate[r] = "panic" /\ ~unwinding[r]
    BY <1>2, <2>1 DEF AllAccountable, Accountable
  <2>3. status'[r] = InternalServerError
    BY <2>1, <2>2 DEF RequestTypes
  <2>4. body'[r] = <<InternalServerError>>
    <3>1. body'[r] = Append(body[r], InternalServerError)
      BY <2>1 DEF RequestTypes
    <3> QED
      BY <2>2, <3>1, FirstPart
  <2>5. RequestTypes'
    <3>1. body' \in [Requests -> Seq(Codes)]
      BY <2>1, CodesAreNonzero DEF RequestTypes
    <3>2. status' \in [Requests -> Codes \cup {0}]
      BY <2>1, CodesAreNonzero DEF RequestTypes
    <3> QED
      BY <2>1, <3>1, <3>2, CodesAreNonzero DEF RequestTypes, InMiddleware
  <2>6. Accountable(r)'
    BY <2>1, <2>2, <2>3, <2>4 DEF RequestTypes, AllAccountable, Accountable, Finished
  <2>7. \A q \in Requests \ {r} : Untouched(q)
    BY <2>1 DEF RequestTypes, Untouched
  <2> QED
    BY <2>5, <2>6, <2>7, UntouchedKeeps DEF AllAccountable
<1> QED
  BY <1>1, <1>2

LEMMA RecordKeeps ==
  ASSUME RequestTypes, AllAccountable, NEW r \in Requests, Record(r)
  PROVE  RequestTypes' /\ AllAccountable'
<1> USE DEF Record, Goto
<1>1. RequestTypes'
  BY DEF RequestTypes, InMiddleware
<1>2. Accountable(r)'
  BY DEF RequestTypes, AllAccountable, Accountable, Finished
<1>3. \A q \in Requests \ {r} : Untouched(q)
  BY DEF RequestTypes, Untouched
<1> QED
  BY <1>1, <1>2, <1>3, UntouchedKeeps DEF AllAccountable

LEMMA LeaveKeeps ==
  ASSUME RequestTypes, AllAccountable, NEW r \in Requests, Leave(r)
  PROVE  RequestTypes' /\ AllAccountable'
<1> USE DEF Leave, Goto
<1>1. RequestTypes'
  BY DEF RequestTypes, InMiddleware
<1>2. Accountable(r)'
  BY DEF RequestTypes, AllAccountable, Accountable, Finished
<1>3. \A q \in Requests \ {r} : Untouched(q)
  BY DEF RequestTypes, Untouched
<1> QED
  BY <1>1, <1>2, <1>3, UntouchedKeeps DEF AllAccountable

LEMMA ArriveKeeps ==
  ASSUME RequestTypes, AllAccountable, NEW r \in Requests, Arrive(r)
  PROVE  RequestTypes' /\ AllAccountable'
<1> USE DEF Arrive, Goto, requestVars
<1>1. RequestTypes'
  BY DEF RequestTypes, InMiddleware
<1>2. Accountable(r)'
  BY DEF RequestTypes, AllAccountable, Accountable
<1>3. \A q \in Requests \ {r} : Untouched(q)
  BY DEF RequestTypes, Untouched
<1> QED
  BY <1>1, <1>2, <1>3, UntouchedKeeps DEF AllAccountable

LEMMA ConnectionEndsKeeps ==
  ASSUME RequestTypes, AllAccountable, NEW r \in Requests, ConnectionEnds(r)
  PROVE  RequestTypes' /\ AllAccountable'
<1> USE DEF ConnectionEnds
<1>1. RequestTypes'
  BY DEF RequestTypes
<1>2. Accountable(r)'
  BY DEF RequestTypes, AllAccountable, Accountable, Finished, InMiddleware
<1>3. \A q \in Requests \ {r} : Untouched(q)
  BY DEF RequestTypes, Untouched
<1> QED
  BY <1>1, <1>2, <1>3, UntouchedKeeps DEF AllAccountable

LEMMA DieKeeps ==
  ASSUME RequestTypes, AllAccountable, Die
  PROVE  RequestTypes' /\ AllAccountable'
<1> USE DEF Die
<1>1. RequestTypes'
  BY DEF RequestTypes
<1>2. \A r \in Requests : Accountable(r)'
  <2> TAKE r \in Requests
  <2>1. CASE pc[r] \in InMiddleware
    BY <2>1 DEF RequestTypes, AllAccountable, Accountable, InMiddleware
  <2>2. CASE pc[r] \notin InMiddleware
    <3>1. Untouched(r)
      BY <2>2 DEF RequestTypes, Untouched
    <3> QED
      BY <3>1, UntouchedKeeps DEF AllAccountable
  <2> QED
    BY <2>1, <2>2
<1> QED
  BY <1>1, <1>2 DEF AllAccountable

-----------------------------------------------------------------------------
(* The tracker.                                                            *)

Counted == Alive => \A k \in Keys : Cardinality(InFlight(k)) = Current(k)

\* What is under way of a route that has been dropped is its zero.
Reported ==
  Alive =>
    /\ \A k \in Keys :
         \/ k \in DOMAIN counts \/ seen[k] = 0 \/ k \in zeroLost
         \/ export # NoExport /\ k \in DOMAIN export /\ export[k] = 0
    /\ export # NoExport => \A k \in DOMAIN export : k \in DOMAIN counts \/ export[k] = 0

TrackerInv == TrackerTypes /\ Counted /\ Reported

LEMMA InitTracker == Init => TrackerInv
<1> SUFFICES ASSUME Init PROVE TrackerInv
  OBVIOUS
<1>1. TrackerTypes
  BY DEF Init, TrackerTypes
<1>2. \A k \in Keys : InFlight(k) = {} /\ Current(k) = 0
  BY DEF Init, InFlight, InMiddleware, Current
<1>3. Counted
  BY <1>2, FS_EmptySet DEF Counted
<1>4. Reported
  BY DEF Init, Reported
<1> QED
  BY <1>1, <1>3, <1>4 DEF TrackerInv

LEMMA InFlightFinite ==
  ASSUME NEW k
  PROVE  IsFiniteSet(InFlight(k)) /\ Cardinality(InFlight(k)) \in Nat
<1>1. InFlight(k) \subseteq Requests
  BY DEF InFlight
<1> QED
  BY <1>1, FS_Subset, FS_CardinalityType, ServerAssumption

LEMMA CurrentNat ==
  ASSUME TrackerTypes, NEW k
  PROVE  Current(k) \in Nat
BY DEF TrackerTypes, Current

LEMMA PutSets ==
  ASSUME TrackerTypes, NEW k \in Keys, NEW n \in Nat, Put(k, n)
  PROVE  /\ DOMAIN counts' = DOMAIN counts \cup {k}
         /\ counts' \in [DOMAIN counts' -> Nat]
         /\ \A x \in Keys : Current(x)' = IF x = k THEN n ELSE Current(x)
<1>1. counts' = [x \in DOMAIN counts \cup {k} |-> IF x = k THEN n ELSE counts[x]]
  BY DEF Put
<1>2. DOMAIN counts' = DOMAIN counts \cup {k}
  BY <1>1
<1>3. counts' \in [DOMAIN counts \cup {k} -> Nat]
  BY <1>1 DEF TrackerTypes
<1>4. \A x \in Keys : Current(x)' = IF x = k THEN n ELSE Current(x)
  BY <1>1, <1>2 DEF Current
<1> QED
  BY <1>2, <1>3, <1>4

\* A snapshot and what it drops: a route at zero stays in flight with nothing.
LEMMA SnapshotDrops ==
  ASSUME TrackerTypes, snapshot
  PROVE  /\ export' = counts
         /\ DOMAIN counts' \subseteq DOMAIN counts
         /\ counts' \in [DOMAIN counts' -> Nat]
         /\ \A k \in DOMAIN counts \ DOMAIN counts' : counts[k] = 0
         /\ \A k \in Keys : Current(k)' = Current(k)
         /\ pendingZero' \subseteq Keys
<1> DEFINE dropped == {k \in DOMAIN counts : counts[k] = 0 /\ k \in pendingZero}
<1>1. /\ export' = counts
      /\ counts' = [k \in DOMAIN counts \ dropped |-> counts[k]]
      /\ pendingZero' = pendingZero \ dropped
  BY DEF snapshot
<1>2. DOMAIN counts' = DOMAIN counts \ dropped
  BY <1>1
<1>3. counts' \in [DOMAIN counts \ dropped -> Nat]
  BY <1>1 DEF TrackerTypes
<1>4. \A k \in Keys : Current(k)' = Current(k)
  BY <1>1, <1>2 DEF Current
<1> QED
  BY <1>1, <1>2, <1>3, <1>4 DEF TrackerTypes

LEMMA ArriveTracks ==
  ASSUME RequestTypes, TrackerInv, NEW r \in Requests, Arrive(r)
  PROVE  TrackerInv'
<1> DEFINE key == KeyOf[r]
<1>1. /\ Alive /\ Alive' /\ pc[r] = "idle" /\ pc' = [pc EXCEPT ![r] = "handling"]
      /\ Put(key, Current(key) + 1) /\ pendingZero' = pendingZero \ {key}
      /\ export' = export /\ seen' = seen /\ zeroLost' = zeroLost
  BY DEF Arrive, Goto, increment, exportVars, Alive
<1>2. key \in Keys /\ Current(key) + 1 \in Nat
  BY CurrentNat, ServerAssumption DEF TrackerInv
<1>3. /\ DOMAIN counts' = DOMAIN counts \cup {key}
      /\ counts' \in [DOMAIN counts' -> Nat]
      /\ \A x \in Keys : Current(x)' = IF x = key THEN Current(key) + 1 ELSE Current(x)
  <2> HIDE DEF key
  <2> QED
    BY <1>1, <1>2, PutSets DEF TrackerInv
<1>4. TrackerTypes'
  BY <1>1, <1>2, <1>3 DEF TrackerInv, TrackerTypes
<1>5. Counted'
  <2>1. InFlight(key)' = InFlight(key) \cup {r} /\ r \notin InFlight(key)
    BY <1>1 DEF RequestTypes, InFlight, InMiddleware
  <2>2. Cardinality(InFlight(key)') = Cardinality(InFlight(key)) + 1
    BY <2>1, InFlightFinite, FS_AddElement
  <2>3. \A k \in Keys \ {key} : InFlight(k)' = InFlight(k)
    BY <1>1 DEF RequestTypes, InFlight, InMiddleware
  <2> QED
    BY <1>1, <1>3, <2>2, <2>3 DEF TrackerInv, Counted
<1>6. Reported'
  BY <1>1, <1>3 DEF TrackerInv, Reported
<1> QED
  BY <1>4, <1>5, <1>6 DEF TrackerInv

LEMMA LeaveTracks ==
  ASSUME RequestTypes, TrackerInv, NEW r \in Requests, Leave(r)
  PROVE  TrackerInv'
<1> DEFINE key == KeyOf[r]
           fewer == IF Current(key) <= 1 THEN 0 ELSE Current(key) - 1
<1>1. /\ Alive /\ Alive' /\ pc[r] = "leaving" /\ pc' = [pc EXCEPT ![r] = "done"]
      /\ export' = export /\ seen' = seen /\ zeroLost' = zeroLost
      /\ decrement(key)
  BY DEF Leave, Goto, exportVars, Alive
<1>2. key \in Keys /\ Current(key) \in Nat
  BY CurrentNat, ServerAssumption DEF TrackerInv
<1>3. fewer \in Nat /\ Put(key, fewer) /\ pendingZero' \subseteq Keys
  <2> HIDE DEF key
  <2> QED
    BY <1>1, <1>2 DEF decrement, TrackerInv, TrackerTypes
<1>4. /\ DOMAIN counts' = DOMAIN counts \cup {key}
      /\ counts' \in [DOMAIN counts' -> Nat]
      /\ \A x \in Keys : Current(x)' = IF x = key THEN fewer ELSE Current(x)
  <2> HIDE DEF key, fewer
  <2> QED
    BY <1>2, <1>3, PutSets DEF TrackerInv
<1>5. TrackerTypes'
  BY <1>1, <1>2, <1>3, <1>4 DEF TrackerInv, TrackerTypes
<1>6. Counted'
  <2>1. InFlight(key)' = InFlight(key) \ {r} /\ r \in InFlight(key)
    BY <1>1 DEF RequestTypes, InFlight, InMiddleware
  <2>2. Cardinality(InFlight(key)') = Cardinality(InFlight(key)) - 1
    BY <2>1, InFlightFinite, FS_RemoveElement
  <2>3. Cardinality(InFlight(key)) = Current(key)
    BY <1>1, <1>2 DEF TrackerInv, Counted
  <2>4. Cardinality(InFlight(key)') \in Nat
    BY <2>1, InFlightFinite, FS_RemoveElement, FS_CardinalityType
  <2>5. Cardinality(InFlight(key)') = fewer
    BY <1>2, <2>2, <2>3, <2>4
  <2>6. \A k \in Keys \ {key} : InFlight(k)' = InFlight(k)
    BY <1>1 DEF RequestTypes, InFlight, InMiddleware
  <2> QED
    BY <1>1, <1>4, <2>5, <2>6 DEF TrackerInv, Counted
<1>7. Reported'
  BY <1>1, <1>4 DEF TrackerInv, Reported
<1> QED
  BY <1>5, <1>6, <1>7 DEF TrackerInv

\* A step on the way through the middlewares leaves the tracker alone.
LEMMA PassingTracks ==
  ASSUME RequestTypes, TrackerInv, Alive, proc' = proc,
         UNCHANGED <<trackerVars, exportVars>>,
         \A q \in Requests : pc[q] \in InMiddleware <=> pc'[q] \in InMiddleware
  PROVE  TrackerInv'
<1>1. UNCHANGED <<counts, pendingZero, export, seen, zeroLost>>
  BY DEF trackerVars, exportVars
<1>2. \A k \in Keys : InFlight(k)' = InFlight(k) /\ Current(k)' = Current(k)
  BY <1>1 DEF InFlight, Current
<1>3. TrackerTypes' /\ Reported'
  BY <1>1 DEF TrackerInv, TrackerTypes, Reported, Alive
<1>4. Counted'
  BY <1>2 DEF TrackerInv, Counted, Alive
<1> QED
  BY <1>3, <1>4 DEF TrackerInv

LEMMA CollectTracks ==
  ASSUME TrackerInv, Alive, proc' # "exited", pc' = pc,
         export = NoExport, snapshot, seen' = seen, zeroLost' = zeroLost
  PROVE  TrackerInv'
<1>1. /\ export' = counts
      /\ DOMAIN counts' \subseteq DOMAIN counts
      /\ counts' \in [DOMAIN counts' -> Nat]
      /\ \A k \in DOMAIN counts \ DOMAIN counts' : counts[k] = 0
      /\ \A k \in Keys : Current(k)' = Current(k)
      /\ pendingZero' \subseteq Keys
  BY SnapshotDrops DEF TrackerInv
<1>2. export' # NoExport
  <2>1. counts \in [DOMAIN counts -> Nat] /\ DOMAIN counts \in SUBSET Keys
    BY DEF TrackerInv, TrackerTypes
  <2> QED
    BY <1>1, <2>1, ServerAssumption
<1>3. TrackerTypes'
  BY <1>1 DEF TrackerInv, TrackerTypes
<1>4. Counted'
  <2>1. \A k \in Keys : InFlight(k)' = InFlight(k)
    BY DEF InFlight
  <2> QED
    BY <1>1, <2>1 DEF TrackerInv, Counted
<1>5. Reported'
  BY <1>1, <1>2 DEF TrackerInv, Reported
<1> QED
  BY <1>3, <1>4, <1>5 DEF TrackerInv

LEMMA ExportEnds ==
  ASSUME TrackerInv, Deliver \/ Lose
  PROVE  TrackerInv'
<1>1. /\ Alive /\ Alive' /\ pc' = pc /\ counts' = counts /\ pendingZero' = pendingZero
      /\ export # NoExport /\ export' = NoExport
  BY DEF Deliver, Lose, Alive, trackerVars
<1>2. DOMAIN export \subseteq Keys /\ export \in [DOMAIN export -> Nat]
  BY <1>1 DEF TrackerInv, TrackerTypes
<1>3. Counted'
  <2>1. \A k \in Keys : InFlight(k)' = InFlight(k) /\ Current(k)' = Current(k)
    BY <1>1 DEF InFlight, Current
  <2> QED
    BY <1>1, <2>1 DEF TrackerInv, Counted
<1>4. CASE Deliver
  <2>1. /\ seen' = [k \in Keys |-> IF k \in DOMAIN export THEN export[k] ELSE seen[k]]
        /\ zeroLost' = zeroLost \ DOMAIN export
    BY <1>4 DEF Deliver
  <2>2. TrackerTypes'
    BY <1>1, <1>2, <2>1 DEF TrackerInv, TrackerTypes
  <2>3. Reported'
    BY <1>1, <1>2, <2>1 DEF TrackerInv, Reported
  <2> QED
    BY <1>3, <2>2, <2>3 DEF TrackerInv
<1>5. CASE Lose
  <2>1. seen' = seen /\ zeroLost' = zeroLost \cup {k \in DOMAIN export : export[k] = 0}
    BY <1>5 DEF Lose
  <2>2. TrackerTypes'
    BY <1>1, <1>2, <2>1 DEF TrackerInv, TrackerTypes
  <2>3. Reported'
    BY <1>1, <1>2, <2>1 DEF TrackerInv, Reported
  <2> QED
    BY <1>3, <2>2, <2>3 DEF TrackerInv
<1> QED
  BY <1>4, <1>5

-----------------------------------------------------------------------------
(* All steps together.                                                     *)

IInv == RequestTypes /\ AllAccountable /\ TrackerInv

LEMMA HandlerKeeps ==
  ASSUME IInv, NEW r \in Requests, Handler(r) \/ ConnectionEnds(r)
  PROVE  IInv'
<1>1. RequestTypes' /\ AllAccountable'
  BY BeginAnswerKeeps, AnswerKeeps, EncodeFailsKeeps, HandlerPanicsKeeps, HandlerAbortsKeeps,
     RecoverKeeps, RecordKeeps, LeaveKeeps, ConnectionEndsKeeps
     DEF IInv, Handler
<1>2. CASE Leave(r)
  BY <1>1, <1>2, LeaveTracks DEF IInv
<1>3. CASE ConnectionEnds(r) \/ (Handler(r) /\ ~Leave(r))
  <2>1. /\ Alive /\ proc' = proc /\ UNCHANGED <<trackerVars, exportVars>>
        /\ \/ pc' = pc
           \/ \E from, to \in InMiddleware : pc[r] = from /\ pc' = [pc EXCEPT ![r] = to]
    <3>1. CASE ConnectionEnds(r)
      BY <3>1 DEF ConnectionEnds
    <3>2. CASE \E code \in Statuses : BeginAnswer(r, code)
      BY <3>2 DEF BeginAnswer, Goto, InMiddleware
    <3>3. CASE Answer(r) \/ EncodeFails(r)
      BY <3>3 DEF Answer, EncodeFails, Goto, InMiddleware
    <3>4. CASE HandlerPanics(r) \/ HandlerAborts(r)
      BY <3>4 DEF HandlerPanics, HandlerAborts, Unwinds, Goto, InMiddleware
    <3>5. CASE Recover(r) \/ Record(r)
      BY <3>5 DEF Recover, Record, Goto, InMiddleware
    <3> QED
      BY <1>3, <3>1, <3>2, <3>3, <3>4, <3>5 DEF Handler
  <2>2. \A q \in Requests : pc[q] \in InMiddleware <=> pc'[q] \in InMiddleware
    BY <2>1 DEF IInv, RequestTypes
  <2>3. TrackerInv'
    BY <2>1, <2>2, PassingTracks DEF IInv
  <2> QED
    BY <1>1, <2>3 DEF IInv
<1> QED
  BY <1>2, <1>3

\* The end of the process leaves no tracker behind.
LEMMA DieTracks ==
  ASSUME IInv, Die
  PROVE  IInv'
<1>1. RequestTypes' /\ AllAccountable'
  BY DieKeeps DEF IInv
<1>2. TrackerTypes'
  BY DEF IInv, TrackerInv, TrackerTypes, Die, trackerVars, exportVars
<1>3. Counted' /\ Reported'
  BY DEF Die, Alive, Counted, Reported
<1> QED
  BY <1>1, <1>2, <1>3 DEF IInv, TrackerInv

LEMMA QuietKeeps ==
  ASSUME IInv, UNCHANGED <<pc, requestVars>>
  PROVE  RequestTypes' /\ AllAccountable'
<1>1. RequestTypes'
  BY DEF IInv, RequestTypes, requestVars
<1>2. \A q \in Requests : Untouched(q)
  BY DEF Untouched, requestVars
<1> QED
  BY <1>1, <1>2, UntouchedKeeps DEF IInv, AllAccountable

LEMMA StutterKeeps ==
  ASSUME IInv, UNCHANGED <<pc, requestVars, trackerVars, exportVars>>,
         proc' = proc \/ proc # "exited"
  PROVE  IInv'
<1>1. RequestTypes' /\ AllAccountable'
  BY QuietKeeps
<1>2. UNCHANGED <<counts, pendingZero, export, seen, zeroLost>>
  BY DEF trackerVars, exportVars
<1>3. \A k \in Keys : InFlight(k)' = InFlight(k) /\ Current(k)' = Current(k)
  BY <1>2 DEF InFlight, Current
<1>4. TrackerTypes' /\ Counted' /\ Reported'
  BY <1>2, <1>3 DEF IInv, TrackerInv, TrackerTypes, Counted, Reported, Alive
<1> QED
  BY <1>1, <1>4 DEF IInv, TrackerInv

LEMMA StepKeeps ==
  ASSUME IInv, [Next]_vars
  PROVE  IInv'
<1>1. CASE \E r \in Requests : Arrive(r)
  BY <1>1, ArriveKeeps, ArriveTracks DEF IInv
<1>2. CASE \E r \in Requests : Handler(r) \/ ConnectionEnds(r)
  BY <1>2, HandlerKeeps
<1>3. CASE Exit \/ \E r \in Requests : WorkerPanics(r)
  BY <1>3, DieTracks DEF Exit, WorkerPanics
<1>4. CASE Collect \/ LastCollect
  <2>1. /\ Alive /\ proc' # "exited" /\ export = NoExport /\ snapshot
        /\ UNCHANGED <<pc, requestVars, seen, zeroLost>>
    BY <1>4 DEF Collect, LastCollect, Alive
  <2> QED
    BY <2>1, CollectTracks, QuietKeeps DEF IInv
<1>5. CASE Deliver \/ Lose
  <2>1. UNCHANGED <<pc, requestVars>>
    BY <1>5 DEF Deliver, Lose
  <2> QED
    BY <1>5, <2>1, ExportEnds, QuietKeeps DEF IInv
<1>6. CASE Signal \/ Stopped \/ UNCHANGED vars
  <2>1. UNCHANGED <<pc, requestVars, trackerVars, exportVars>> /\ (proc' = proc \/ proc # "exited")
    BY <1>6 DEF Signal, Stopped, vars
  <2> QED
    BY <2>1, StutterKeeps
<1> QED
  BY <1>1, <1>2, <1>3, <1>4, <1>5, <1>6 DEF Next, Exporter, Main

\* The inductive invariant holds in every reachable state.
THEOREM Inductive == Spec => []IInv
<1>1. Init => IInv
  BY InitRequests, InitTracker DEF IInv
<1>2. IInv /\ [Next]_vars => IInv'
  BY StepKeeps
<1> QED
  BY <1>1, <1>2, PTL DEF Spec

\* The process, the requests, the tracker and its exports have their types.
THEOREM TypeCorrect == Spec => []TypeOK
<1> DEFINE Proc == proc \in {"serving", "stopping", "flushing", "exited"}
<1>1. Init => Proc
  BY DEF Init
<1>2. Proc /\ [Next]_vars => Proc'
  BY DEF Next, Exporter, Main, Arrive, Handler, ConnectionEnds, WorkerPanics, Signal, Stopped, Die, Exit,
     BeginAnswer, Answer, EncodeFails, HandlerPanics, HandlerAborts, Unwinds, Recover, Record, Leave,
     Collect, Deliver, Lose, LastCollect, vars
<1>3. IInv /\ Proc => TypeOK
  BY DEF IInv, RequestTypes, TrackerInv, TrackerTypes, TypeOK
<1> QED
  BY <1>1, <1>2, <1>3, Inductive, PTL DEF Spec

\* The in-flight gauge counts the requests inside the middleware and forgets a
\* route only when zero is known, on its way, or lost, for any requests and routes.
THEOREM TrueGauge == Spec => []GaugeCatchesUp
<1>1. IInv => GaugeCatchesUp
  BY DEF IInv, TrackerInv, Counted, Reported, GaugeCatchesUp
<1> QED
  BY <1>1, Inductive, PTL

\* No client takes a panic for an answer or two answers for one, for any requests.
THEOREM WholeAnswers == Spec => []OneWholeAnswer
<1>1. IInv => OneWholeAnswer
  <2> SUFFICES ASSUME IInv, NEW r \in Requests
               PROVE  /\ client[r] = "complete" =>
                           body[r] = <<status[r]>>
                             \/ (fate[r] = "misencoded" /\ body[r] = <<InternalServerError>>)
                      /\ client[r] = "complete" /\ fate[r] = "panic" => status[r] = InternalServerError
                      /\ client[r] = "aborted" /\ fate[r] = "panic" /\ pc[r] = "done" /\ ~gone[r] =>
                           status[r] # 0 /\ body[r] \in {<<>>, <<status[r]>>}
    BY DEF OneWholeAnswer
  <2>1. Accountable(r)
    BY DEF IInv, AllAccountable
  <2>2. client[r] = "complete" => pc[r] = "done" /\ ~unwinding[r]
    BY <2>1 DEF Accountable
  <2> QED
    BY <2>1, <2>2 DEF Accountable, Finished
<1> QED
  BY <1>1, Inductive, PTL

\* Every request is counted under the status that its client saw, for any requests.
THEOREM TrueCounter == Spec => []CountedAsSent
<1>1. IInv => CountedAsSent
  <2> SUFFICES ASSUME IInv, NEW r \in Requests, client[r] = "complete"
               PROVE  recorded[r] = IF fate[r] = "misencoded" THEN InternalServerError ELSE status[r]
    BY DEF CountedAsSent
  <2>1. Accountable(r)
    BY DEF IInv, AllAccountable
  <2>2. pc[r] = "done" /\ ~unwinding[r]
    BY <2>1 DEF Accountable
  <2> QED
    BY <2>1, <2>2 DEF Accountable, Finished
<1> QED
  BY <1>1, Inductive, PTL
=============================================================================
