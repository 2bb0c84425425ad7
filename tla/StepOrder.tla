----------------------------- MODULE StepOrder -----------------------------
(***************************************************************************)
(* What the sink's queue promises to whoever submits a step, without a     *)
(* word on leaders, budgets and promotions: one step at a time, in the     *)
(* order of submission, each begun at most once, and every call answered.  *)
(* SinkQueue implements it (as long as no step panics).                    *)
(***************************************************************************)
EXTENDS Sequences

CONSTANT Jobs

VARIABLES
  pending,  \* submitted, in order
  inHand,   \* the one job being carried out, if any
  started,  \* jobs whose step has begun
  settled,  \* jobs that are over, run or dropped
  reply     \* what each call answered

vars == <<pending, inHand, started, settled, reply>>

TypeOK ==
  /\ pending \in Seq(Jobs)
  /\ inHand \in SUBSET Jobs
  /\ started \in SUBSET Jobs
  /\ settled \in SUBSET Jobs
  /\ reply \in [Jobs -> {"none", "ok", "gaveUp"}]

Init ==
  /\ pending = <<>>
  /\ inHand = {}
  /\ started = {}
  /\ settled = {}
  /\ reply = [j \in Jobs |-> "none"]

Accept(j) ==
  /\ j \notin inHand \cup settled
  /\ \A i \in DOMAIN pending : pending[i] # j
  /\ pending' = Append(pending, j)
  /\ UNCHANGED <<inHand, started, settled, reply>>

TakeFirst ==
  /\ inHand = {} /\ pending # <<>>
  /\ inHand' = {Head(pending)}
  /\ pending' = Tail(pending)
  /\ UNCHANGED <<started, settled, reply>>

Begin(j) ==
  /\ inHand = {j} /\ j \notin started
  /\ started' = started \cup {j}
  /\ UNCHANGED <<pending, inHand, settled, reply>>

\* With a step that was begun it is over; without, it is dropped.
Conclude(j) ==
  /\ inHand = {j}
  /\ settled' = settled \cup {j}
  /\ inHand' = {}
  /\ UNCHANGED <<pending, started, reply>>

\* A call may give up on a step that is not over; the step stays.
Answer(j) ==
  /\ reply[j] = "none"
  /\ \/ j \in settled /\ reply' = [reply EXCEPT ![j] = "ok"]
     \/ j \notin settled /\ reply' = [reply EXCEPT ![j] = "gaveUp"]
  /\ UNCHANGED <<pending, inHand, started, settled>>

Next ==
  \/ \E j \in Jobs : Accept(j) \/ Begin(j) \/ Conclude(j) \/ Answer(j)
  \/ TakeFirst

Safety == Init /\ [][Next]_vars

Spec ==
  /\ Safety
  /\ WF_vars(TakeFirst)
  /\ \A j \in Jobs : WF_vars(Conclude(j))
=============================================================================
