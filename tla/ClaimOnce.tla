----------------------------- MODULE ClaimOnce -----------------------------
(***************************************************************************)
(* What persisted extraction promises its callers, without statements,     *)
(* contexts or program counters: every article is a slot that one call     *)
(* takes at most once and settles at most once, every other call is told   *)
(* what the slot holds at one instant, and a call that is told nothing     *)
(* useful (an infrastructure error) may have left the slot in any state    *)
(* its next step could have produced.                                      *)
(*                                                                         *)
(* ExtractionLifecycle implements this specification.                      *)
(***************************************************************************)
CONSTANTS Articles, Calls, NoCall

VARIABLES
  slot,   \* slot[a]: the phase of article a and the call that took it
  told    \* told[c]: the single answer call c has been given

vars == <<slot, told>>

Phases == {"none", "pending", "done", "failed"}

Nothing == [kind |-> "nothing", of |-> NoCall]

Trouble == [kind |-> "trouble", of |-> NoCall]

\* What a call that did not take the slot is told about it.
View(s) == [kind |-> s.phase, of |-> IF s.phase = "pending" THEN NoCall ELSE s.by]

Tell(c, t) ==
  /\ told[c] = Nothing
  /\ told' = [told EXCEPT ![c] = t]

OwnsNothing(c) == \A a \in Articles : slot[a].by # c

Init ==
  /\ slot = [a \in Articles |-> [phase |-> "none", by |-> NoCall]]
  /\ told = [c \in Calls |-> Nothing]

(* A call takes a free slot; the answer that it did may get lost.          *)
Take(a, c) ==
  /\ slot[a].phase = "none"
  /\ told[c] = Nothing
  /\ OwnsNothing(c)
  /\ slot' = [slot EXCEPT ![a] = [phase |-> "pending", by |-> c]]
  /\ \/ UNCHANGED told
     \/ Tell(c, Trouble)

(* The call that took the slot settles it, once, and is told how.          *)
Settle(a, c) ==
  /\ slot[a] = [phase |-> "pending", by |-> c]
  /\ \E outcome \in {"done", "failed"} :
       /\ slot' = [slot EXCEPT ![a].phase = outcome]
       /\ \/ Tell(c, [kind |-> outcome, of |-> c])
          \/ Tell(c, Trouble)

(* Another call is told what the slot holds now.                           *)
Observe(a, c) ==
  /\ slot[a].phase # "none"
  /\ OwnsNothing(c)
  /\ Tell(c, View(slot[a]))
  /\ UNCHANGED slot

(* A call is told that something went wrong; the slot is as it was.        *)
GiveUp(c) ==
  /\ Tell(c, Trouble)
  /\ UNCHANGED slot

Next == \E c \in Calls : GiveUp(c) \/ \E a \in Articles : Take(a, c) \/ Settle(a, c) \/ Observe(a, c)

Spec == Init /\ [][Next]_vars
=============================================================================
