--------------------- MODULE ExtractionLifecycleProofs ---------------------
(***************************************************************************)
(* Proofs about ExtractionLifecycle, for any articles, any calls and any   *)
(* combination of faults.                                                  *)
(***************************************************************************)
EXTENDS ExtractionLifecycle, TLAPS

(***************************************************************************)
(* Type correctness                                                        *)
(***************************************************************************)

USE DEF Statuses, Outcomes, Errors, Owning, Running, Locations

\* What a denied caller is told is a reply.
LEMMA DeniedType ==
  ASSUME NEW r \in Row
  PROVE  Denied(r) \in Reply
BY DEF Row, Denied, Reply, Answer

\* The rows the statements write are rows.
LEMMA RowTypes ==
  /\ PendingRow \in Row
  /\ \A c \in Calls : DoneRow(c) \in Row
  /\ \A c \in Calls, r \in Row : FailedRow(r, c) \in Row
BY DEF PendingRow, DoneRow, FailedRow, Row

\* The replies built from an outcome or an error are replies.
LEMMA AnswerTypes ==
  \A k \in Outcomes \cup Errors, v \in Calls \cup {NoCall} : Answer(k, v) \in Reply
BY DEF Answer, Reply

\* Returning a reply keeps the types of pc and reply.
LEMMA ReturnTypes ==
  ASSUME TypeOK, NEW c \in Calls, NEW from, NEW k \in Outcomes \cup Errors,
         NEW v \in Calls \cup {NoCall}, Return(c, from, Answer(k, v))
  PROVE  pc' \in [Calls -> Locations] /\ reply' \in [Calls -> Reply]
BY AnswerTypes DEF Return, Goto, TypeOK

LEMMA TypeInit == Init => TypeOK
BY DEF Init, TypeOK, Row, NoRow, Reply, NoReply

\* Every step keeps the types.
LEMMA TypeStep == TypeOK /\ [Next]_vars => TypeOK'
<1> SUFFICES ASSUME TypeOK, [Next]_vars PROVE TypeOK'
  OBVIOUS
<1> USE DEF TypeOK
<1>1. ASSUME NEW c \in Calls, Start(c) PROVE TypeOK'
  BY <1>1 DEF Start, Goto
<1>2. ASSUME NEW c \in Calls, ClaimPending(c) PROVE TypeOK'
  BY <1>2, RowTypes DEF ClaimPending, Goto, InsertPending
<1>3. ASSUME NEW c \in Calls, ClaimPendingFails(c) PROVE TypeOK'
  BY <1>3, RowTypes, AnswerTypes DEF ClaimPendingFails, Return, Goto, InsertPending
<1>4. ASSUME NEW c \in Calls, ReadExisting(c) PROVE TypeOK'
  BY <1>4, DeniedType DEF ReadExisting, Return, Goto
<1>5. ASSUME NEW c \in Calls, ReadExistingFails(c) PROVE TypeOK'
  BY <1>5, AnswerTypes DEF ReadExistingFails, Return, Goto
<1>6. ASSUME NEW c \in Calls, RejectInput(c) \/ ExtractorSucceeds(c) \/ ExtractorFails(c) PROVE TypeOK'
  BY <1>6 DEF RejectInput, ExtractorSucceeds, ExtractorFails, Goto
<1>7. ASSUME NEW c \in Calls, CallExtractor(c) PROVE TypeOK'
  BY <1>7 DEF CallExtractor, Goto
<1>8. ASSUME NEW c \in Calls, UpsertSuccess(c) PROVE TypeOK'
  <2>1. reply' \in [Calls -> Reply] /\ pc' \in [Calls -> Locations]
    BY <1>8, ReturnTypes DEF UpsertSuccess
  <2>2. row' \in [Articles -> Row]
    BY <1>8, RowTypes DEF UpsertSuccess
  <2> QED
    BY <1>8, <2>1, <2>2 DEF UpsertSuccess
<1>9. ASSUME NEW c \in Calls, UpsertSuccessFails(c) PROVE TypeOK'
  <2>1. reply' \in [Calls -> Reply] /\ pc' \in [Calls -> Locations]
    BY <1>9, ReturnTypes DEF UpsertSuccessFails
  <2>2. row' \in [Articles -> Row]
    BY <1>9, RowTypes DEF UpsertSuccessFails
  <2> QED
    BY <1>9, <2>1, <2>2 DEF UpsertSuccessFails
<1>10. ASSUME NEW c \in Calls, UpsertFailure(c) PROVE TypeOK'
  <2>1. reply' \in [Calls -> Reply] /\ pc' \in [Calls -> Locations]
    BY <1>10, ReturnTypes DEF UpsertFailure
  <2>2. FailedRow(row[article[c]], c) \in Row
    BY RowTypes
  <2>3. row' \in [Articles -> Row]
    BY <1>10, <2>2 DEF UpsertFailure
  <2> QED
    BY <1>10, <2>1, <2>3 DEF UpsertFailure
<1>11. ASSUME NEW c \in Calls, UpsertFailureFails(c) PROVE TypeOK'
  <2>1. reply' \in [Calls -> Reply] /\ pc' \in [Calls -> Locations]
    BY <1>11, ReturnTypes DEF UpsertFailureFails
  <2>2. FailedRow(row[article[c]], c) \in Row
    BY RowTypes
  <2>3. row' \in [Articles -> Row]
    BY <1>11, <2>2 DEF UpsertFailureFails
  <2> QED
    BY <1>11, <2>1, <2>3 DEF UpsertFailureFails
<1>12. ASSUME NEW c \in Calls, Cancel(c) PROVE TypeOK'
  BY <1>12 DEF Cancel
<1>13. CASE Crash
  BY <1>13 DEF Crash
<1>14. CASE UNCHANGED vars
  BY <1>14 DEF vars
<1> QED
  BY <1>1, <1>2, <1>3, <1>4, <1>5, <1>6, <1>7, <1>8, <1>9, <1>10, <1>11, <1>12,
     <1>13, <1>14
  DEF Next, Step

\* The state of calls and rows always has its type.
THEOREM TypeCorrect == Spec => []TypeOK
<1>1. Init => TypeOK
  BY TypeInit
<1>2. TypeOK /\ [Next]_vars => TypeOK'
  BY TypeStep
<1> QED
  BY <1>1, <1>2, PTL DEF Spec

(***************************************************************************)
(* The inductive invariant.  The history variable owner carries the        *)
(* argument: a row exists exactly when some call owns its article, only    *)
(* the owner ever runs the extractor or writes the row again, and it does  *)
(* so while the row is still pending.                                      *)
(***************************************************************************)

\* A call in one of these locations has not claimed anything yet.
Unclaimed == {"idle", "claim", "read"}

RowHasOwner == \A a \in Articles : row[a].status = "none" <=> owner[a] = NoCall

OwnerClaimed ==
  \A a \in Articles : owner[a] # NoCall =>
    article[owner[a]] = a /\ pc[owner[a]] \notin Unclaimed

OwningCallOwns ==
  \A c \in Calls : pc[c] \in Owning =>
    owner[article[c]] = c /\ row[article[c]].status = "pending"

RanOwns == \A c \in ran : owner[article[c]] = c

SavingHasRun == \A c \in Calls : pc[c] \in {"extract", "save success"} => c \in ran

SilentUntilReturned == \A c \in Calls : pc[c] # "returned" => reply[c] = NoReply

OwnerAccountable ==
  \A a \in Articles : row[a].status = "pending" =>
    \/ pc[owner[a]] \in Owning \cup {"lost"}
    \/ reply[owner[a]].kind \in {"claim error", "persist error"}

\* The three pieces of a row that are determined by its status and its owner.
ColumnsMatch(r, c) ==
  /\ r.status = "pending" => r.result = NoCall
  /\ r.status = "done" => r.result = c
  /\ r.status = "failed" => r.result = NoCall /\ r.error = c

RowNamesOwner == \A a \in Articles : ColumnsMatch(row[a], owner[a])

DoneHasRun == \A a \in Articles : row[a].status = "done" => owner[a] \in ran

IInv ==
  /\ TypeOK
  /\ RowHasOwner
  /\ OwnerClaimed
  /\ OwningCallOwns
  /\ RanOwns
  /\ SavingHasRun
  /\ SilentUntilReturned
  /\ OwnerAccountable
  /\ RowNamesOwner
  /\ DoneHasRun
  /\ RepliesAgreeWithRow

\* The initial states satisfy the invariant.
LEMMA IInvInit == Init => IInv
<1> SUFFICES ASSUME Init PROVE IInv
  OBVIOUS
<1>1. TypeOK
  BY TypeInit
<1> QED
  BY <1>1 DEF Init, IInv, RowHasOwner, OwnerClaimed, OwningCallOwns, RanOwns, SavingHasRun,
    SilentUntilReturned, OwnerAccountable, RowNamesOwner, ColumnsMatch, DoneHasRun,
    RepliesAgreeWithRow, AgreesWith, NoRow, NoReply

HIDE DEF Statuses, Outcomes, Errors, Owning, Running, Locations

\* A call that has not returned has told nothing.
LEMMA NoReplyKind == NoReply.kind = "none"
BY DEF NoReply

\* The types the invariant's other conjuncts need.
Shape ==
  /\ article \in [Calls -> Articles]
  /\ owner \in [Articles -> Calls \cup {NoCall}]
  /\ ran \subseteq Calls

LEMMA ShapeOK == TypeOK => Shape
BY DEF TypeOK, Shape

\* What the other calls see of a step of call c.
OthersUnmoved(c) ==
  /\ article' = article
  /\ \A d \in Calls \ {c} : pc'[d] = pc[d] /\ reply'[d] = reply[d]

\* A step of call c that writes no row keeps the invariant when it neither
\* claims nor silently abandons an article and is truthful about the row.
LEMMA UnwrittenStep ==
  ASSUME IInv, TypeOK', NEW c \in Calls, OthersUnmoved(c),
         row' = row, owner' = owner, ran' \in {ran, ran \cup {c}},
         pc'[c] \in Owning => pc[c] \in Owning,
         pc'[c] \in Unclaimed => pc[c] \in Unclaimed,
         pc'[c] \in {"extract", "save success"} => c \in ran',
         c \in ran' => c \in ran \/ pc[c] \in Owning,
         pc'[c] # "returned" => reply'[c] = NoReply,
         AgreesWith(row[article[c]], reply'[c]),
         pc[c] \in Owning \cup {"lost"} \/ reply[c].kind \in {"claim error", "persist error"} =>
           pc'[c] \in Owning \cup {"lost"} \/ reply'[c].kind \in {"claim error", "persist error"}
  PROVE  IInv'
<1>1. Shape
  BY ShapeOK DEF IInv
<1>2. RowHasOwner' /\ RowNamesOwner'
  BY DEF IInv, RowHasOwner, RowNamesOwner
<1>3. OwnerClaimed'
  BY <1>1 DEF IInv, OwnerClaimed, OthersUnmoved, Shape
<1>4. OwningCallOwns'
  BY <1>1 DEF IInv, OwningCallOwns, OthersUnmoved, Shape
<1>5. RanOwns'
  <2> SUFFICES ASSUME NEW d \in ran' PROVE owner[article[d]] = d
    BY DEF RanOwns, OthersUnmoved
  <2>1. d \in ran \/ (d = c /\ pc[c] \in Owning)
    OBVIOUS
  <2> QED
    BY <2>1 DEF IInv, RanOwns, OwningCallOwns
<1>6. SavingHasRun'
  BY <1>1 DEF IInv, SavingHasRun, OthersUnmoved, Shape
<1>7. SilentUntilReturned'
  BY <1>1 DEF IInv, SilentUntilReturned, OthersUnmoved, Shape
<1>8. OwnerAccountable'
  <2> SUFFICES ASSUME NEW a \in Articles, row[a].status = "pending"
               PROVE  \/ pc'[owner[a]] \in Owning \cup {"lost"}
                      \/ reply'[owner[a]].kind \in {"claim error", "persist error"}
    BY DEF OwnerAccountable
  <2>1. owner[a] \in Calls
    BY <1>1 DEF IInv, RowHasOwner, Shape
  <2> QED
    BY <2>1 DEF IInv, OwnerAccountable, OthersUnmoved
<1>9. DoneHasRun'
  BY DEF IInv, DoneHasRun
<1>10. RepliesAgreeWithRow'
  BY <1>1 DEF IInv, RepliesAgreeWithRow, OthersUnmoved, Shape
<1> QED
  BY <1>2, <1>3, <1>4, <1>5, <1>6, <1>7, <1>8, <1>9, <1>10 DEF IInv

\* A granted claim keeps the invariant, whether the caller learns of it (and
\* runs) or is told that the statement failed.
LEMMA ClaimStep ==
  ASSUME IInv, TypeOK', NEW c \in Calls, OthersUnmoved(c), ran' = ran,
         pc[c] = "claim", row[article[c]].status = "none",
         row' = [row EXCEPT ![article[c]] = PendingRow],
         owner' = [owner EXCEPT ![article[c]] = c],
         \/ pc'[c] = "run" /\ reply'[c] = reply[c]
         \/ pc'[c] = "returned" /\ reply'[c].kind = "claim error"
  PROVE  IInv'
<1> DEFINE a == article[c]
<1>1. Shape
  BY ShapeOK DEF IInv
<1>2. /\ row'[a].status = "pending" /\ row'[a].result = NoCall
      /\ owner'[a] = c /\ a \in Articles
      /\ \A b \in Articles \ {a} : row'[b] = row[b] /\ owner'[b] = owner[b]
  BY <1>1 DEF IInv, TypeOK, Shape, PendingRow
<1>3. /\ pc[c] \in Unclaimed /\ pc[c] \notin Owning
      /\ pc'[c] \notin Unclaimed /\ pc'[c] \notin {"extract", "save success"}
      /\ pc'[c] \in Owning \/ reply'[c].kind = "claim error"
  BY DEF Owning, Unclaimed
<1>4. owner[a] = NoCall
  BY <1>2 DEF IInv, RowHasOwner
<1> HIDE DEF a
<1>5. RowHasOwner'
  <2> SUFFICES ASSUME NEW b \in Articles PROVE row'[b].status = "none" <=> owner'[b] = NoCall
    BY DEF RowHasOwner
  <2>1. CASE b = a
    BY <2>1, <1>2, LifecycleAssumption
  <2>2. CASE b # a
    BY <2>2, <1>2 DEF IInv, RowHasOwner
  <2> QED
    BY <2>1, <2>2
<1>6. OwnerClaimed'
  BY <1>1, <1>2, <1>3 DEF IInv, OwnerClaimed, OthersUnmoved, Shape, a
<1>7. OwningCallOwns'
  <2> SUFFICES ASSUME NEW d \in Calls, pc'[d] \in Owning
               PROVE  owner'[article[d]] = d /\ row'[article[d]].status = "pending"
    BY DEF OwningCallOwns, OthersUnmoved
  <2>1. CASE d = c
    BY <2>1, <1>2 DEF a
  <2>2. CASE d # c
    <3>1. owner[article[d]] = d /\ row[article[d]].status = "pending"
      BY <2>2 DEF IInv, OwningCallOwns, OthersUnmoved
    <3>2. article[d] \in Articles \ {a}
      BY <3>1, <1>1, <1>4, LifecycleAssumption DEF Shape
    <3> QED
      BY <3>1, <3>2, <1>2
  <2> QED
    BY <2>1, <2>2
<1>8. RanOwns'
  <2> SUFFICES ASSUME NEW d \in ran PROVE owner'[article[d]] = d
    BY DEF RanOwns, OthersUnmoved
  <2>1. owner[article[d]] = d /\ d \in Calls /\ article[d] \in Articles
    BY <1>1 DEF IInv, RanOwns, Shape
  <2> QED
    BY <2>1, <1>2, <1>4, LifecycleAssumption
<1>9. SavingHasRun'
  BY <1>1, <1>3 DEF IInv, SavingHasRun, OthersUnmoved, Shape
<1>10. SilentUntilReturned'
  BY <1>1 DEF IInv, SilentUntilReturned, OthersUnmoved, Shape
<1>11. OwnerAccountable'
  <2> SUFFICES ASSUME NEW b \in Articles, row'[b].status = "pending"
               PROVE  \/ pc'[owner'[b]] \in Owning \cup {"lost"}
                      \/ reply'[owner'[b]].kind \in {"claim error", "persist error"}
    BY DEF OwnerAccountable
  <2>1. CASE b = a
    BY <2>1, <1>2, <1>3
  <2>2. CASE b # a
    <3>1. owner[b] \in Calls /\ owner'[b] = owner[b]
      BY <2>2, <1>1, <1>2 DEF IInv, RowHasOwner, Shape
    <3>2. owner[b] # c
      BY <1>3, <3>1, LifecycleAssumption DEF IInv, OwnerClaimed
    <3>3. \/ pc[owner[b]] \in Owning \cup {"lost"}
          \/ reply[owner[b]].kind \in {"claim error", "persist error"}
      BY <2>2, <1>2 DEF IInv, OwnerAccountable
    <3> QED
      BY <3>1, <3>2, <3>3 DEF OthersUnmoved
  <2> QED
    BY <2>1, <2>2
<1>12. RowNamesOwner'
  BY <1>2 DEF IInv, RowNamesOwner, ColumnsMatch
<1>13. DoneHasRun'
  <2> SUFFICES ASSUME NEW b \in Articles, row'[b].status = "done" PROVE owner'[b] \in ran
    BY DEF DoneHasRun
  <2>1. b # a
    BY <1>2
  <2> QED
    BY <2>1, <1>2 DEF IInv, DoneHasRun
<1>14. RepliesAgreeWithRow'
  <2> SUFFICES ASSUME NEW d \in Calls PROVE AgreesWith(row'[article[d]], reply'[d])
    BY DEF RepliesAgreeWithRow, OthersUnmoved
  <2>1. CASE d = c
    <3>0. reply[c] = NoReply
      BY DEF IInv, SilentUntilReturned
    <3>1. reply[c].kind = "none"
      BY <3>0, NoReplyKind
    <3>2. reply'[c].kind \in {"none", "claim error"}
      BY <3>1
    <3> QED
      BY <2>1, <3>2 DEF AgreesWith
  <2>2. CASE d # c /\ article[d] = a
    BY <2>2, <1>2 DEF IInv, RepliesAgreeWithRow, AgreesWith, OthersUnmoved, a
  <2>3. CASE d # c /\ article[d] # a
    BY <2>3, <1>1, <1>2 DEF IInv, RepliesAgreeWithRow, OthersUnmoved, Shape
  <2> QED
    BY <2>1, <2>2, <2>3
<1> QED
  BY <1>5, <1>6, <1>7, <1>8, <1>9, <1>10, <1>11, <1>12, <1>13, <1>14 DEF IInv

\* The owner settling its row keeps the invariant, whether the caller learns
\* of it or is told that the statement failed.
LEMMA SettleStep ==
  ASSUME IInv, TypeOK', NEW c \in Calls, OthersUnmoved(c), ran' = ran, owner' = owner,
         pc[c] \in Owning, pc'[c] = "returned", NEW r,
         row' = [row EXCEPT ![article[c]] = r],
         \/ r = DoneRow(c) /\ c \in ran
         \/ r = FailedRow(row[article[c]], c),
         AgreesWith(r, reply'[c])
  PROVE  IInv'
<1> DEFINE a == article[c]
<1>1. Shape
  BY ShapeOK DEF IInv
<1>2. /\ row'[a] = r /\ a \in Articles
      /\ \A b \in Articles \ {a} : row'[b] = row[b]
  BY <1>1 DEF IInv, TypeOK, Shape
<1>3. owner[a] = c /\ row[a].status = "pending"
  BY DEF IInv, OwningCallOwns
<1>4. row[a] \in Row /\ row[a].result = NoCall
  BY <1>2, <1>3 DEF IInv, TypeOK, RowNamesOwner, ColumnsMatch
<1>5. r.status \in {"done", "failed"} /\ ColumnsMatch(r, c) /\ (r.status = "done" => c \in ran)
  <2>1. CASE r = DoneRow(c) /\ c \in ran
    BY <2>1 DEF DoneRow, ColumnsMatch
  <2>2. CASE r = FailedRow(row[article[c]], c)
    <3>1. r.status = "failed" /\ r.error = c /\ r.result = row[a].result
      BY <2>2, <1>4 DEF FailedRow, Row
    <3> QED
      BY <3>1, <1>4 DEF ColumnsMatch
  <2> QED
    BY <2>1, <2>2
<1>6. "returned" \notin Owning /\ "returned" \notin Unclaimed
  BY DEF Owning, Unclaimed
<1> HIDE DEF a
<1>7. RowHasOwner'
  BY <1>1, <1>2, <1>3, <1>5, LifecycleAssumption DEF IInv, RowHasOwner
<1>8. OwnerClaimed'
  BY <1>1, <1>6 DEF IInv, OwnerClaimed, OthersUnmoved, Shape
<1>9. OwningCallOwns'
  BY <1>1, <1>2, <1>3, <1>6 DEF IInv, OwningCallOwns, OthersUnmoved, Shape
<1>10. RanOwns'
  BY DEF IInv, RanOwns, OthersUnmoved
<1>11. SavingHasRun'
  BY DEF IInv, SavingHasRun, OthersUnmoved
<1>12. SilentUntilReturned'
  BY DEF IInv, SilentUntilReturned, OthersUnmoved
<1>13. OwnerAccountable'
  <2> SUFFICES ASSUME NEW b \in Articles, row'[b].status = "pending"
               PROVE  \/ pc'[owner[b]] \in Owning \cup {"lost"}
                      \/ reply'[owner[b]].kind \in {"claim error", "persist error"}
    BY DEF OwnerAccountable
  <2>1. b # a /\ row[b].status = "pending"
    BY <1>2, <1>5
  <2>2. owner[b] \in Calls
    BY <1>1, <2>1 DEF IInv, RowHasOwner, Shape
  <2>3. owner[b] # c
    BY <2>1, <2>2, LifecycleAssumption DEF IInv, OwnerClaimed, a
  <2> QED
    BY <2>1, <2>2, <2>3 DEF IInv, OwnerAccountable, OthersUnmoved
<1>14. RowNamesOwner'
  BY <1>2, <1>3, <1>5 DEF IInv, RowNamesOwner
<1>15. DoneHasRun'
  BY <1>2, <1>3, <1>5 DEF IInv, DoneHasRun
<1>16. RepliesAgreeWithRow'
  <2> SUFFICES ASSUME NEW d \in Calls PROVE AgreesWith(row'[article[d]], reply'[d])
    BY DEF RepliesAgreeWithRow, OthersUnmoved
  <2>1. CASE d = c
    BY <2>1, <1>2 DEF a
  <2>2. CASE d # c /\ article[d] = a
    <3>1. AgreesWith(row[a], reply[d]) /\ reply'[d] = reply[d]
      BY <2>2 DEF IInv, RepliesAgreeWithRow, OthersUnmoved
    <3> QED
      BY <2>2, <3>1, <1>2, <1>3, <1>5 DEF AgreesWith
  <2>3. CASE d # c /\ article[d] # a
    BY <2>3, <1>1, <1>2 DEF IInv, RepliesAgreeWithRow, OthersUnmoved, Shape
  <2> QED
    BY <2>1, <2>2, <2>3
<1> QED
  BY <1>7, <1>8, <1>9, <1>10, <1>11, <1>12, <1>13, <1>14, <1>15, <1>16 DEF IInv

\* What a denied caller is told agrees with the row it read.
LEMMA DeniedAgrees ==
  ASSUME NEW r \in Row, NEW c, ColumnsMatch(r, c)
  PROVE  AgreesWith(r, Denied(r))
<1> USE DEF AgreesWith, Denied, Answer
<1>1. CASE r.status = "done" /\ r.result # NoCall
  BY <1>1
<1>2. CASE r.status = "done" /\ r.result = NoCall
  BY <1>2
<1>3. CASE r.status = "pending"
  BY <1>3
<1>4. CASE r.status = "failed"
  BY <1>4
<1>5. CASE r.status = "none"
  BY <1>5
<1> QED
  BY <1>1, <1>2, <1>3, <1>4, <1>5 DEF Row, Statuses

\* An infrastructure error says nothing about the row.
LEMMA ErrorsAgree ==
  \A k \in {"claim error", "persist error"} :
    /\ Answer(k, NoCall).kind = k
    /\ \A r : AgreesWith(r, Answer(k, NoCall))
BY DEF AgreesWith, Answer

\* Moving call c within the code before its claim, or after it, keeps the
\* invariant.
LEMMA MoveStep ==
  ASSUME IInv, TypeOK', NEW c \in Calls, NEW from, NEW to, Goto(c, from, to),
         UNCHANGED <<row, article, reply, owner>>, ran' \in {ran, ran \cup {c}},
         to # "returned",
         \/ from \in Unclaimed /\ to \in Unclaimed /\ ran' = ran
         \/ from \in Owning /\ to \in Owning /\ (to \in {"extract", "save success"} => c \in ran')
  PROVE  IInv'
<1>1. /\ pc[c] = from /\ pc'[c] = to
      /\ OthersUnmoved(c)
  BY DEF Goto, IInv, TypeOK, OthersUnmoved
<1>2. pc[c] # "returned" /\ "returned" \notin Owning \cup Unclaimed
  BY <1>1 DEF Owning, Unclaimed
<1>3. reply[c] = NoReply
  BY <1>2 DEF IInv, SilentUntilReturned
<1>4. AgreesWith(row[article[c]], reply[c])
  BY DEF IInv, RepliesAgreeWithRow
<1>5. Unclaimed \cap Owning = {} /\ Unclaimed \cap {"extract", "save success"} = {} /\ "lost" \notin Unclaimed
  BY DEF Unclaimed, Owning
<1>6. /\ pc'[c] \in Owning => pc[c] \in Owning
      /\ pc'[c] \in Unclaimed => pc[c] \in Unclaimed
      /\ pc'[c] \in {"extract", "save success"} => c \in ran'
      /\ c \in ran' => c \in ran \/ pc[c] \in Owning
      /\ pc[c] \in Owning \cup {"lost"} => pc'[c] \in Owning \cup {"lost"}
  BY <1>1, <1>5
<1> QED
  BY <1>1, <1>3, <1>4, <1>6, UnwrittenStep

\* Returning to the caller without a write keeps the invariant when the reply
\* agrees with the row and, if the call owns its article, is an error that
\* leaves the row to be accounted for.
LEMMA ReturnStep ==
  ASSUME IInv, TypeOK', NEW c \in Calls, NEW from, NEW r, Return(c, from, r),
         UNCHANGED <<row, article, owner, ran>>,
         AgreesWith(row[article[c]], r),
         \/ from \in Unclaimed
         \/ from \in Owning /\ r.kind = "persist error"
  PROVE  IInv'
<1>1. /\ pc[c] = from /\ pc'[c] = "returned" /\ reply'[c] = r
      /\ OthersUnmoved(c)
  BY DEF Return, Goto, IInv, TypeOK, OthersUnmoved
<1>2. /\ "returned" \notin Owning /\ "returned" \notin Unclaimed
      /\ pc[c] # "returned" /\ pc[c] # "lost"
      /\ pc[c] \in Unclaimed => pc[c] \notin Owning
  BY <1>1 DEF Owning, Unclaimed
<1>3. reply[c].kind = "none"
  BY <1>2, NoReplyKind DEF IInv, SilentUntilReturned
<1> QED
  BY <1>1, <1>2, <1>3, UnwrittenStep

\* Every step keeps the invariant.
LEMMA IInvStep == IInv /\ [Next]_vars => IInv'
<1> SUFFICES ASSUME IInv, [Next]_vars PROVE IInv'
  OBVIOUS
<1>0. TypeOK /\ TypeOK'
  BY TypeStep DEF IInv
<1>a. /\ \A l \in {"idle", "claim", "read"} : l \in Unclaimed
      /\ \A l \in {"run", "extract", "save success", "save failure"} : l \in Owning
  BY DEF Unclaimed, Owning
<1>b. ASSUME NEW c \in Calls, NEW from, NEW r, Return(c, from, r)
      PROVE  /\ pc[c] = from /\ pc'[c] = "returned" /\ reply'[c] = r
             /\ article' = article => OthersUnmoved(c)
  BY <1>0, <1>b DEF Return, Goto, TypeOK, OthersUnmoved
<1>c. \A c \in Calls :
        /\ article[c] \in Articles /\ row[article[c]] \in Row
        /\ ColumnsMatch(row[article[c]], owner[article[c]])
  BY <1>0 DEF IInv, RowNamesOwner, TypeOK
<1>1. ASSUME NEW c \in Calls, Start(c) PROVE IInv'
  BY <1>0, <1>1, <1>a, MoveStep DEF Start
<1>2. ASSUME NEW c \in Calls, ClaimPending(c) PROVE IInv'
  <2>1. CASE row[article[c]].status = "none"
    <3>1. /\ pc[c] = "claim" /\ pc'[c] = "run" /\ reply' = reply
          /\ OthersUnmoved(c)
      BY <1>0, <1>2, <2>1 DEF ClaimPending, Goto, TypeOK, OthersUnmoved
    <3> QED
      BY <1>0, <1>2, <2>1, <3>1, ClaimStep DEF ClaimPending, InsertPending
  <2>2. CASE row[article[c]].status # "none"
    <3>1. Goto(c, "claim", "read") /\ UNCHANGED <<row, article, reply, owner, ran>>
      BY <1>2, <2>2 DEF ClaimPending, InsertPending
    <3> QED
      BY <1>0, <3>1, <1>a, MoveStep
  <2> QED
    BY <2>1, <2>2
<1>3. ASSUME NEW c \in Calls, ClaimPendingFails(c) PROVE IInv'
  <2>1. Return(c, "claim", Answer("claim error", NoCall)) /\ UNCHANGED <<article, ran>>
    BY <1>3 DEF ClaimPendingFails
  <2>2. /\ pc[c] = "claim" /\ pc'[c] = "returned" /\ reply'[c].kind = "claim error"
        /\ OthersUnmoved(c)
    BY <2>1, <1>b, ErrorsAgree
  <2>3. CASE row[article[c]].status = "none" /\ InsertPending(article[c], c)
    BY <1>0, <2>1, <2>2, <2>3, ClaimStep DEF InsertPending
  <2>4. CASE UNCHANGED <<row, owner>>
    BY <1>0, <1>a, <2>1, <2>4, ErrorsAgree, ReturnStep
  <2> QED
    BY <1>3, <2>3, <2>4 DEF ClaimPendingFails, InsertPending
<1>4. ASSUME NEW c \in Calls, ReadExisting(c) PROVE IInv'
  <2>1. AgreesWith(row[article[c]], Denied(row[article[c]]))
    BY <1>c, DeniedAgrees
  <2> QED
    BY <1>0, <1>4, <1>a, <2>1, ReturnStep DEF ReadExisting
<1>5. ASSUME NEW c \in Calls, ReadExistingFails(c) PROVE IInv'
  BY <1>0, <1>5, <1>a, ErrorsAgree, ReturnStep DEF ReadExistingFails
<1>6. ASSUME NEW c \in Calls, RejectInput(c) PROVE IInv'
  BY <1>0, <1>6, <1>a, MoveStep DEF RejectInput
<1>7. ASSUME NEW c \in Calls, CallExtractor(c) PROVE IInv'
  BY <1>0, <1>7, <1>a, MoveStep DEF CallExtractor
<1>8. ASSUME NEW c \in Calls, ExtractorSucceeds(c) PROVE IInv'
  <2>1. c \in ran
    BY <1>8 DEF ExtractorSucceeds, Goto, IInv, SavingHasRun
  <2> QED
    BY <1>0, <1>8, <1>a, <2>1, MoveStep DEF ExtractorSucceeds
<1>9. ASSUME NEW c \in Calls, ExtractorFails(c) PROVE IInv'
  BY <1>0, <1>9, <1>a, MoveStep DEF ExtractorFails
<1>10. ASSUME NEW c \in Calls, UpsertSuccess(c) PROVE IInv'
  <2>1. /\ pc[c] = "save success" /\ pc'[c] = "returned" /\ OthersUnmoved(c)
        /\ reply'[c] = Answer("newly_extracted", c)
    BY <1>10, <1>b DEF UpsertSuccess
  <2>2. c \in ran /\ pc[c] \in Owning
    BY <1>a, <2>1 DEF IInv, SavingHasRun
  <2>3. AgreesWith(DoneRow(c), Answer("newly_extracted", c))
    BY DEF AgreesWith, Answer, DoneRow
  <2> QED
    BY <1>0, <1>10, <2>1, <2>2, <2>3, SettleStep DEF UpsertSuccess
<1>11. ASSUME NEW c \in Calls, UpsertSuccessFails(c) PROVE IInv'
  <2>1. /\ Return(c, "save success", Answer("persist error", NoCall))
        /\ UNCHANGED <<article, owner, ran>>
    BY <1>11 DEF UpsertSuccessFails
  <2>2. /\ pc[c] = "save success" /\ pc'[c] = "returned" /\ OthersUnmoved(c)
        /\ reply'[c] = Answer("persist error", NoCall)
    BY <2>1, <1>b
  <2>3. c \in ran /\ pc[c] \in Owning
    BY <1>a, <2>2 DEF IInv, SavingHasRun
  <2>4. CASE row' = [row EXCEPT ![article[c]] = DoneRow(c)]
    BY <1>0, <2>1, <2>2, <2>3, <2>4, ErrorsAgree, SettleStep
  <2>5. CASE row' = row
    BY <1>0, <1>a, <2>1, <2>5, ErrorsAgree, ReturnStep
  <2> QED
    BY <1>11, <2>4, <2>5 DEF UpsertSuccessFails
<1>12. ASSUME NEW c \in Calls, UpsertFailure(c) PROVE IInv'
  <2>1. /\ pc[c] = "save failure" /\ pc'[c] = "returned" /\ OthersUnmoved(c)
        /\ reply'[c] = Answer("run error", c)
        /\ row' = [row EXCEPT ![article[c]] = FailedRow(row[article[c]], c)]
    BY <1>12, <1>b DEF UpsertFailure
  <2>2. LET r == FailedRow(row[article[c]], c) IN r.status = "failed" /\ r.error = c
    BY <1>c DEF FailedRow, Row
  <2>3. AgreesWith(FailedRow(row[article[c]], c), Answer("run error", c))
    BY <2>2 DEF AgreesWith, Answer
  <2> QED
    BY <1>0, <1>12, <1>a, <2>1, <2>3, SettleStep DEF UpsertFailure
<1>13. ASSUME NEW c \in Calls, UpsertFailureFails(c) PROVE IInv'
  <2>1. /\ Return(c, "save failure", Answer("persist error", NoCall))
        /\ UNCHANGED <<article, owner, ran>>
    BY <1>13 DEF UpsertFailureFails
  <2>2. /\ pc[c] = "save failure" /\ pc'[c] = "returned" /\ OthersUnmoved(c)
        /\ reply'[c] = Answer("persist error", NoCall)
    BY <2>1, <1>b
  <2>3. CASE row' = [row EXCEPT ![article[c]] = FailedRow(row[article[c]], c)]
    BY <1>0, <1>a, <2>1, <2>2, <2>3, ErrorsAgree, SettleStep
  <2>4. CASE row' = row
    BY <1>0, <1>a, <2>1, <2>4, ErrorsAgree, ReturnStep
  <2> QED
    BY <1>13, <2>3, <2>4 DEF UpsertFailureFails
<1>14. CASE UNCHANGED <<row, pc, article, reply, owner, ran>>
  BY <1>0, <1>14
  DEF IInv, RowHasOwner, OwnerClaimed, OwningCallOwns, RanOwns, SavingHasRun,
      SilentUntilReturned, OwnerAccountable, RowNamesOwner, DoneHasRun, RepliesAgreeWithRow
<1>15. CASE Crash
  <2>1. /\ row' = row /\ article' = article /\ reply' = reply /\ owner' = owner /\ ran' = ran
        /\ \A c \in Calls : pc'[c] \in {pc[c], "lost"} /\ (pc[c] = "returned" => pc'[c] = "returned")
    BY <1>15 DEF Crash, Running, Owning
  <2>2. "lost" \notin Owning /\ "lost" \notin Unclaimed
    BY DEF Owning, Unclaimed
  <2>3. Shape
    BY <1>0, ShapeOK
  <2>4. OwnerClaimed' /\ OwningCallOwns'
    BY <2>1, <2>2, <2>3 DEF IInv, OwnerClaimed, OwningCallOwns, Shape
  <2>5. RowHasOwner' /\ RanOwns' /\ RowNamesOwner' /\ DoneHasRun' /\ RepliesAgreeWithRow'
    BY <2>1 DEF IInv, RowHasOwner, RanOwns, RowNamesOwner, DoneHasRun, RepliesAgreeWithRow
  <2>6. SavingHasRun' /\ SilentUntilReturned'
    BY <2>1 DEF IInv, SavingHasRun, SilentUntilReturned
  <2>7. OwnerAccountable'
    BY <2>1, <2>3 DEF IInv, OwnerAccountable, RowHasOwner, Shape
  <2> QED
    BY <1>0, <2>4, <2>5, <2>6, <2>7 DEF IInv
<1> QED
  BY <1>1, <1>2, <1>3, <1>4, <1>5, <1>6, <1>7, <1>8, <1>9, <1>10, <1>11, <1>12, <1>13,
     <1>14, <1>15
  DEF Next, Step, Cancel, vars

\* The inductive invariant holds in every reachable state.
THEOREM Invariance == Spec => []IInv
<1>1. Init => IInv
  BY IInvInit
<1>2. IInv /\ [Next]_vars => IInv'
  BY IInvStep
<1> QED
  BY <1>1, <1>2, PTL DEF Spec

(***************************************************************************)
(* What follows for callers and for the extractor                          *)
(***************************************************************************)

\* ClaimPending lets at most one call per article reach the extractor.
THEOREM AtMostOneRun == Spec => []OneRunPerArticle
<1>1. IInv => OneRunPerArticle
  BY DEF IInv, RanOwns, OneRunPerArticle
<1> QED
  BY <1>1, Invariance, PTL

\* A row is left pending only by a crash or by an infrastructure error that
\* some caller was told about.
THEOREM FaultsStrand == Spec => []StrandedOnlyByFaults
<1>1. ASSUME IInv PROVE StrandedOnlyByFaults
  <2> SUFFICES ASSUME NEW a \in Articles, row[a].status = "pending"
               PROVE  \E c \in Calls :
                        /\ article[c] = a
                        /\ \/ pc[c] \in Owning \cup {"lost"}
                           \/ reply[c].kind \in {"claim error", "persist error"}
    BY DEF StrandedOnlyByFaults
  <2>1. owner[a] \in Calls
    BY <1>1, ShapeOK DEF IInv, RowHasOwner, Shape
  <2>2. article[owner[a]] = a
    BY <1>1, <2>1, LifecycleAssumption DEF IInv, OwnerClaimed
  <2> QED
    BY <1>1, <2>1, <2>2 DEF IInv, OwnerAccountable
<1> QED
  BY <1>1, Invariance, PTL

\* What any caller was told stays true of the row.
THEOREM TruthfulReplies == Spec => []RepliesAgreeWithRow
<1>1. IInv => RepliesAgreeWithRow
  BY DEF IInv
<1> QED
  BY <1>1, Invariance, PTL

\* A stored result was produced by a run for the article it is stored under.
THEOREM ResultsFromRuns == Spec => []RowsComeFromRuns
<1>1. ASSUME IInv PROVE RowsComeFromRuns
  <2> SUFFICES ASSUME NEW a \in Articles
               PROVE  /\ row[a].status = "done" =>
                           row[a].result \in ran /\ article[row[a].result] = a
                      /\ row[a].status = "failed" => row[a].result = NoCall
    BY DEF RowsComeFromRuns
  <2>1. CASE row[a].status = "done"
    <3>1. owner[a] \in ran /\ row[a].result = owner[a] /\ owner[a] # NoCall
      BY <1>1, <2>1 DEF IInv, DoneHasRun, RowNamesOwner, ColumnsMatch, RowHasOwner
    <3> QED
      BY <1>1, <2>1, <3>1 DEF IInv, OwnerClaimed
  <2>2. CASE row[a].status # "done"
    BY <1>1, <2>2 DEF IInv, RowNamesOwner, ColumnsMatch
  <2> QED
    BY <2>1, <2>2
<1> QED
  BY <1>1, Invariance, PTL

\* Only pending rows and missing rows are ever written.
LEMMA SettledRowStep ==
  ASSUME IInv, [Next]_vars, NEW a \in Articles, row[a].status \in {"done", "failed"}
  PROVE  row'[a] = row[a]
<1>1. ASSUME NEW c \in Calls, NEW r, row' = [row EXCEPT ![article[c]] = r],
             row[article[c]].status \in {"none", "pending"}
      PROVE  row'[a] = row[a]
  BY <1>1 DEF IInv, TypeOK
<1>2. ASSUME NEW c \in Calls, pc[c] \in {"save success", "save failure"}
      PROVE  row[article[c]].status = "pending"
  BY <1>2 DEF IInv, OwningCallOwns, Owning
<1>3. ASSUME NEW c \in Calls, ClaimPending(c) \/ ClaimPendingFails(c) PROVE row'[a] = row[a]
  BY <1>1, <1>3 DEF ClaimPending, ClaimPendingFails, InsertPending
<1>4. ASSUME NEW c \in Calls, UpsertSuccess(c) \/ UpsertSuccessFails(c) PROVE row'[a] = row[a]
  BY <1>1, <1>2, <1>4 DEF UpsertSuccess, UpsertSuccessFails, Return, Goto
<1>5. ASSUME NEW c \in Calls, UpsertFailure(c) \/ UpsertFailureFails(c) PROVE row'[a] = row[a]
  BY <1>1, <1>2, <1>5 DEF UpsertFailure, UpsertFailureFails, Return, Goto
<1>6. CASE row' = row
  BY <1>6
<1> QED
  BY <1>3, <1>4, <1>5, <1>6
  DEF Next, Step, Start, ReadExisting, ReadExistingFails, RejectInput, CallExtractor,
      ExtractorSucceeds, ExtractorFails, Cancel, Crash, vars

\* A done or failed row never changes, although the upserts are unconditional.
THEOREM SettledRowsStay == Spec => SettledForever
<1>1. IInv /\ [Next]_vars =>
        [\A a \in Articles : row[a].status \in {"done", "failed"} => row'[a] = row[a]]_vars
  BY SettledRowStep
<1> QED
  BY <1>1, Invariance, PTL DEF Spec, SettledForever

(***************************************************************************)
(* ExtractionLifecycle implements ClaimOnce: every step is a step of the   *)
(* promise or hidden from it.                                              *)
(***************************************************************************)

(* The two variables of the promise.                                       *)

Slots == [a \in Articles |-> [phase |-> row[a].status, by |-> owner[a]]]

Tellings == [c \in Calls |-> Told(reply[c])]

Slot(status, c) == [phase |-> status, by |-> c]

\* The actions of the promise, over its mapped variables.
LEMMA PromiseActions ==
  ASSUME NEW c \in Calls, NEW a \in Articles,
         \/ /\ Slots[a].phase = "none" /\ Tellings[c] = Promise!Nothing
            /\ \A b \in Articles : Slots[b].by # c
            /\ Slots' = [Slots EXCEPT ![a] = Slot("pending", c)]
            /\ \/ Tellings' = Tellings
               \/ Tellings' = [Tellings EXCEPT ![c] = Promise!Trouble]
         \/ /\ Slots[a] = Slot("pending", c) /\ Tellings[c] = Promise!Nothing
            /\ \E outcome \in {"done", "failed"} :
                 /\ Slots' = [Slots EXCEPT ![a].phase = outcome]
                 /\ \/ Tellings' = [Tellings EXCEPT ![c] = [kind |-> outcome, of |-> c]]
                    \/ Tellings' = [Tellings EXCEPT ![c] = Promise!Trouble]
         \/ /\ Slots[a].phase # "none" /\ Tellings[c] = Promise!Nothing
            /\ \A b \in Articles : Slots[b].by # c
            /\ Tellings' = [Tellings EXCEPT ![c] = Promise!View(Slots[a])]
            /\ Slots' = Slots
         \/ /\ Tellings[c] = Promise!Nothing
            /\ Tellings' = [Tellings EXCEPT ![c] = Promise!Trouble]
            /\ Slots' = Slots
  PROVE  Promise!Next
<1> USE DEF Slots, Tellings, Slot
<1>1. Promise!Take(a, c) \/ Promise!Settle(a, c) \/ Promise!Observe(a, c) \/ Promise!GiveUp(c)
  BY DEF Promise!Take, Promise!Settle, Promise!Observe, Promise!GiveUp, Promise!Tell,
         Promise!OwnsNothing
<1> QED
  BY <1>1 DEF Promise!Next

LEMMA InitRefines == Init => Promise!Init
BY DEF Init, NoRow, NoReply, Told, Promise!Init, Promise!Nothing

-----------------------------------------------------------------------------
(* What a call's step looks like to the promise.                           *)

LEMMA Unheard ==
  ASSUME IInv, NEW c \in Calls, pc[c] # "returned"
  PROVE  Tellings[c] = Promise!Nothing
<1>1. reply[c] = NoReply
  BY DEF IInv, SilentUntilReturned
<1>2. Told(NoReply) = Promise!Nothing
  BY DEF Told, NoReply, Promise!Nothing
<1> QED
  BY <1>1, <1>2 DEF Tellings

LEMMA UnclaimedOwnsNothing ==
  ASSUME IInv, NEW c \in Calls, pc[c] \in Unclaimed
  PROVE  \A b \in Articles : Slots[b].by # c
<1> SUFFICES ASSUME NEW b \in Articles, owner[b] = c PROVE FALSE
  BY DEF Slots
<1> QED
  BY LifecycleAssumption DEF IInv, OwnerClaimed

LEMMA OwnerHolds ==
  ASSUME IInv, NEW c \in Calls, pc[c] \in Owning
  PROVE  Slots[article[c]] = Slot("pending", c)
BY DEF IInv, TypeOK, OwningCallOwns, Slots, Slot

LEMMA ReturnTells ==
  ASSUME IInv, NEW c \in Calls, NEW from, NEW r, Return(c, from, r)
  PROVE  Tellings' = [Tellings EXCEPT ![c] = Told(r)]
BY DEF Return, IInv, TypeOK, Tellings

LEMMA HiddenTells ==
  ASSUME reply' = reply
  PROVE  Tellings' = Tellings
BY DEF Tellings

LEMMA HiddenHolds ==
  ASSUME row' = row, owner' = owner
  PROVE  Slots' = Slots
BY DEF Slots

\* Errors of the infrastructure are trouble.
LEMMA TroubleTold ==
  \A k \in {"claim error", "persist error", "convert error"} : Told(Answer(k, NoCall)) = Promise!Trouble
BY DEF Told, Answer, Promise!Trouble

\* INSERT ... DO NOTHING takes the slot when there is no row.
LEMMA InsertTakes ==
  ASSUME IInv, NEW c \in Calls, InsertPending(article[c], c), row[article[c]].status = "none"
  PROVE  /\ Slots[article[c]].phase = "none"
         /\ Slots' = [Slots EXCEPT ![article[c]] = Slot("pending", c)]
BY DEF IInv, TypeOK, InsertPending, PendingRow, Slots, Slot

LEMMA InsertSkips ==
  ASSUME NEW c \in Calls, InsertPending(article[c], c), row[article[c]].status # "none"
  PROVE  Slots' = Slots
BY HiddenHolds DEF InsertPending

\* What the denied caller is told is the slot's view, or trouble.
LEMMA DeniedViews ==
  ASSUME IInv, NEW a \in Articles
  PROVE  \/ Slots[a].phase # "none" /\ Told(Denied(row[a])) = Promise!View(Slots[a])
         \/ Told(Denied(row[a])) = Promise!Trouble
<1>1. row[a] \in Row /\ ColumnsMatch(row[a], owner[a])
  BY DEF IInv, TypeOK, RowNamesOwner
<1>2. Slots[a] = [phase |-> row[a].status, by |-> owner[a]]
  BY DEF Slots
<1> USE DEF Denied, Told, Answer, ColumnsMatch, Promise!View, Promise!Trouble
<1>3. CASE row[a].status = "done" /\ row[a].result # NoCall
  BY <1>1, <1>2, <1>3
<1>4. CASE row[a].status = "done" /\ row[a].result = NoCall
  BY <1>4
<1>5. CASE row[a].status = "pending"
  BY <1>2, <1>5
<1>6. CASE row[a].status = "failed"
  <2>1. row[a].error = owner[a]
    BY <1>1, <1>6
  <2>2. Denied(row[a]) = [kind |-> "already_failed", value |-> owner[a]]
    BY <1>6, <2>1
  <2>3. Told(Denied(row[a])) = [kind |-> "failed", of |-> owner[a]]
    <3> HIDE DEF Denied
    <3> QED
      BY <2>2
  <2>4. Promise!View(Slots[a]) = [kind |-> "failed", of |-> owner[a]]
    BY <1>2, <1>6
  <2>5. Slots[a].phase # "none"
    BY <1>2, <1>6
  <2> QED
    BY <2>3, <2>4, <2>5
<1>7. CASE row[a].status = "none"
  BY <1>7
<1> QED
  BY <1>1, <1>3, <1>4, <1>5, <1>6, <1>7 DEF Row, Statuses

-----------------------------------------------------------------------------
LEMMA ClaimRefines ==
  ASSUME IInv, NEW c \in Calls, ClaimPending(c) \/ ClaimPendingFails(c)
  PROVE  Promise!Next \/ (Slots' = Slots /\ Tellings' = Tellings)
<1>1. pc[c] = "claim" /\ article[c] \in Articles
  BY DEF ClaimPending, ClaimPendingFails, Return, Goto, IInv, TypeOK
<1>2. Tellings[c] = Promise!Nothing /\ \A b \in Articles : Slots[b].by # c
  BY <1>1, Unheard, UnclaimedOwnsNothing DEF Unclaimed
<1>3. CASE ClaimPending(c)
  <2>1. InsertPending(article[c], c) /\ Tellings' = Tellings
    BY <1>3, HiddenTells DEF ClaimPending
  <2>2. CASE row[article[c]].status = "none"
    BY <1>1, <1>2, <2>1, <2>2, InsertTakes, PromiseActions
  <2>3. CASE row[article[c]].status # "none"
    BY <2>1, <2>3, InsertSkips
  <2> QED
    BY <2>2, <2>3
<1>4. CASE ClaimPendingFails(c)
  <2>1. Tellings' = [Tellings EXCEPT ![c] = Promise!Trouble]
    <3>1. Return(c, "claim", Answer("claim error", NoCall))
      BY <1>4 DEF ClaimPendingFails
    <3>2. Tellings' = [Tellings EXCEPT ![c] = Told(Answer("claim error", NoCall))]
      BY <3>1, ReturnTells
    <3> QED
      BY <3>2, TroubleTold
  <2>2. CASE InsertPending(article[c], c) /\ row[article[c]].status = "none"
    BY <1>1, <1>2, <2>1, <2>2, InsertTakes, PromiseActions
  <2>3. CASE ~(InsertPending(article[c], c) /\ row[article[c]].status = "none")
    <3>1. Slots' = Slots
      BY <1>4, <2>3, InsertSkips, HiddenHolds DEF ClaimPendingFails
    <3> QED
      BY <1>1, <1>2, <2>1, <3>1, PromiseActions
  <2> QED
    BY <2>2, <2>3
<1> QED
  BY <1>3, <1>4

LEMMA ReadRefines ==
  ASSUME IInv, NEW c \in Calls, ReadExisting(c) \/ ReadExistingFails(c)
  PROVE  Promise!Next
<1>1. pc[c] = "read" /\ article[c] \in Articles /\ Slots' = Slots
  BY HiddenHolds DEF ReadExisting, ReadExistingFails, Return, Goto, IInv, TypeOK
<1>2. Tellings[c] = Promise!Nothing /\ \A b \in Articles : Slots[b].by # c
  BY <1>1, Unheard, UnclaimedOwnsNothing DEF Unclaimed
<1>3. CASE ReadExisting(c)
  <2>1. Tellings' = [Tellings EXCEPT ![c] = Told(Denied(row[article[c]]))]
    BY <1>3, ReturnTells DEF ReadExisting
  <2> QED
    BY <1>1, <1>2, <2>1, DeniedViews, PromiseActions
<1>4. CASE ReadExistingFails(c)
  <2>1. Tellings' = [Tellings EXCEPT ![c] = Promise!Trouble]
    BY <1>4, ReturnTells, TroubleTold DEF ReadExistingFails
  <2> QED
    BY <1>1, <1>2, <2>1, PromiseActions
<1> QED
  BY <1>3, <1>4

\* The last statement of the owner settles its slot.
LEMMA WriteSettles ==
  ASSUME IInv, NEW c \in Calls, owner' = owner
  PROVE  /\ row' = [row EXCEPT ![article[c]] = DoneRow(c)]
              => Slots' = [Slots EXCEPT ![article[c]].phase = "done"]
         /\ row' = [row EXCEPT ![article[c]] = FailedRow(@, c)]
              => Slots' = [Slots EXCEPT ![article[c]].phase = "failed"]
<1>1. article[c] \in Articles /\ row \in [Articles -> Row]
  BY DEF IInv, TypeOK
<1>2. DoneRow(c).status = "done" /\ FailedRow(row[article[c]], c).status = "failed"
  BY <1>1 DEF DoneRow, FailedRow, Row
<1>3. ASSUME row' = [row EXCEPT ![article[c]] = DoneRow(c)]
      PROVE  Slots' = [Slots EXCEPT ![article[c]].phase = "done"]
  <2>1. \A b \in Articles : row'[b].status = IF b = article[c] THEN "done" ELSE row[b].status
    BY <1>1, <1>2, <1>3
  <2> QED
    BY <1>1, <2>1 DEF Slots
<1>4. ASSUME row' = [row EXCEPT ![article[c]] = FailedRow(@, c)]
      PROVE  Slots' = [Slots EXCEPT ![article[c]].phase = "failed"]
  <2>1. \A b \in Articles : row'[b].status = IF b = article[c] THEN "failed" ELSE row[b].status
    BY <1>1, <1>2, <1>4
  <2> QED
    BY <1>1, <2>1 DEF Slots
<1> QED
  BY <1>3, <1>4

LEMMA SettleRefines ==
  ASSUME IInv, NEW c \in Calls,
         UpsertSuccess(c) \/ UpsertSuccessFails(c) \/ UpsertFailure(c) \/ UpsertFailureFails(c)
  PROVE  Promise!Next
<1> DEFINE a == article[c]
<1>1. pc[c] \in {"save success", "save failure"} /\ a \in Articles /\ owner' = owner
  BY DEF UpsertSuccess, UpsertSuccessFails, UpsertFailure, UpsertFailureFails, Return, Goto,
         IInv, TypeOK
<1>2. Tellings[c] = Promise!Nothing /\ Slots[a] = Slot("pending", c)
  BY <1>1, Unheard, OwnerHolds DEF Owning
<1>4. CASE UpsertSuccess(c)
  <2>1. Tellings' = [Tellings EXCEPT ![c] = [kind |-> "done", of |-> c]]
    BY <1>4, ReturnTells DEF UpsertSuccess, Told, Answer
  <2>2. Slots' = [Slots EXCEPT ![a].phase = "done"]
    BY <1>1, <1>4, WriteSettles DEF UpsertSuccess
  <2> QED
    BY <1>1, <1>2, <2>1, <2>2, PromiseActions
<1>5. CASE UpsertFailure(c)
  <2>1. Tellings' = [Tellings EXCEPT ![c] = [kind |-> "failed", of |-> c]]
    BY <1>5, ReturnTells DEF UpsertFailure, Told, Answer
  <2>2. Slots' = [Slots EXCEPT ![a].phase = "failed"]
    BY <1>1, <1>5, WriteSettles DEF UpsertFailure
  <2> QED
    BY <1>1, <1>2, <2>1, <2>2, PromiseActions
<1>6. CASE UpsertSuccessFails(c) \/ UpsertFailureFails(c)
  <2>1. Tellings' = [Tellings EXCEPT ![c] = Promise!Trouble]
    BY <1>6, ReturnTells, TroubleTold DEF UpsertSuccessFails, UpsertFailureFails
  <2>2. CASE row' = row
    BY <1>1, <1>2, <2>1, <2>2, HiddenHolds, PromiseActions
  <2>3. CASE row' # row
    <3>1. \E outcome \in {"done", "failed"} : Slots' = [Slots EXCEPT ![a].phase = outcome]
      BY <1>1, <1>6, <2>3, WriteSettles DEF UpsertSuccessFails, UpsertFailureFails
    <3> QED
      BY <1>1, <1>2, <2>1, <3>1, PromiseActions
  <2> QED
    BY <2>2, <2>3
<1> QED
  BY <1>4, <1>5, <1>6

\* Every other step is hidden.
LEMMA OtherHidden ==
  ASSUME NEW c \in Calls,
         \/ Start(c) \/ RejectInput(c) \/ CallExtractor(c) \/ ExtractorSucceeds(c)
         \/ ExtractorFails(c) \/ Cancel(c) \/ Crash \/ UNCHANGED vars
  PROVE  Slots' = Slots /\ Tellings' = Tellings
<1>1. row' = row /\ owner' = owner /\ reply' = reply
  BY DEF Start, RejectInput, CallExtractor, ExtractorSucceeds, ExtractorFails, Cancel, Crash, vars
<1> QED
  BY <1>1, HiddenHolds, HiddenTells

LEMMA StepRefines == IInv /\ [Next]_vars => [Promise!Next]_(Promise!vars)
<1> SUFFICES ASSUME IInv, [Next]_vars
             PROVE  Promise!Next \/ (Slots' = Slots /\ Tellings' = Tellings)
  BY DEF Promise!vars, Slots, Tellings
<1>1. ASSUME NEW c \in Calls, Start(c) \/ Step(c) \/ Cancel(c)
      PROVE  Promise!Next \/ (Slots' = Slots /\ Tellings' = Tellings)
  <2> QED
    BY <1>1, ClaimRefines, ReadRefines, SettleRefines, OtherHidden DEF Step
<1>2. CASE Crash \/ UNCHANGED vars
  <2>1. row' = row /\ owner' = owner /\ reply' = reply
    BY <1>2 DEF Crash, vars
  <2> QED
    BY <2>1, HiddenHolds, HiddenTells
<1> QED
  BY <1>1, <1>2 DEF Next

\* Whatever calls race and whatever fails, callers are given what ClaimOnce
\* promises them.
THEOREM Refinement == Spec => ImplementsClaimOnce
<1>1. Init => Promise!Init
  BY InitRefines
<1>2. IInv /\ [Next]_vars => [Promise!Next]_(Promise!vars)
  BY StepRefines
<1> QED
  BY <1>1, <1>2, Invariance, PTL DEF Spec, ImplementsClaimOnce, Promise!Spec
=============================================================================
