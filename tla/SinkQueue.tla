----------------------------- MODULE SinkQueue -----------------------------
(***************************************************************************)
(* The step queue of one conversation's sink (src/sink.go).                *)
(*                                                                         *)
(* Every event the gateway renders into a conversation is a step, and      *)
(* every step goes through submit.  There is no goroutine of the sink's    *)
(* own: the calls share the work.  The call that finds nobody draining     *)
(* leads: it runs the queued steps, its own and other calls', in order, at *)
(* most sinkDrainBudget of them, and then hands the lead to the call that  *)
(* waits at the head of the queue.  A call whose context ends walks away   *)
(* and leaves its step behind; a panicking step aborts the queue.          *)
(*                                                                         *)
(* One element of Jobs is one submit call and the sinkJob it creates.  The *)
(* state is the sink's (queue, draining), the sinkJob's (waiting,          *)
(* promoted, lead, finished) and the call's own: where it is in the code   *)
(* (pc), the job it executes (cur), the steps it has run in this drain     *)
(* (used), what follows the execution or the hand-over it is in (next),    *)
(* and what it answers its caller (reply).  An action is one critical      *)
(* section of s.mu, or one step outside of it.                             *)
(***************************************************************************)
EXTENDS Naturals, Sequences

CONSTANTS
  Jobs,     \* the submit calls, each with its job
  Budget,   \* sinkDrainBudget
  Faulty,   \* the jobs whose step may panic
  NoJob     \* stands for no job at all

ASSUME QueueAssumption ==
  /\ Budget \in Nat \ {0}
  /\ Faulty \subseteq Jobs
  /\ NoJob \notin Jobs

VARIABLES
  queue,      \* s.queue
  draining,   \* s.draining
  waiting,    \* job.waiting
  promoted,   \* job.promoted
  lead,       \* job.lead holds its one token
  finished,   \* job.finished, and job.done is closed
  pc, cur, used, next, reply,
  cancelled,  \* the context of the call has ended
  ended,      \* the lifetime of the gateway has ended
  parked,     \* the call that holds s.mu while it sends to a full job.lead
  started,    \* history: the jobs whose step has begun
  reaborted   \* history: one panic has aborted the queue a second time

jobVars  == <<waiting, promoted, lead, finished>>
callVars == <<pc, cur, used, next, reply>>
around   == <<cancelled, ended, parked, started, reaborted>>
vars == <<queue, draining, jobVars, callVars, around>>

Places == {"idle", "drain", "take", "execute", "step", "abort", "abortAgain",
           "handOff", "sending", "await", "lead", "leaving", "receive",
           "stopped", "returned"}
Replies == {"none", "ok", "gaveUp", "panicked"}

TypeOK ==
  /\ queue \in Seq(Jobs)
  /\ draining \in BOOLEAN
  /\ waiting \in SUBSET Jobs
  /\ promoted \in SUBSET Jobs
  /\ lead \in SUBSET Jobs
  /\ finished \in SUBSET Jobs
  /\ pc \in [Jobs -> Places]
  /\ cur \in [Jobs -> Jobs \cup {NoJob}]
  /\ used \in [Jobs -> Nat]
  /\ next \in [Jobs -> {"drain", "await", "stopped", "returned"}]
  /\ reply \in [Jobs -> Replies]
  /\ cancelled \in SUBSET Jobs
  /\ ended \in BOOLEAN
  /\ parked \in Jobs \cup {NoJob}
  /\ started \in SUBSET Jobs
  /\ reaborted \in BOOLEAN
  /\ \A j \in Jobs : pc[j] \in {"execute", "step", "sending"} => cur[j] \in Jobs

Init ==
  /\ queue = <<>>
  /\ draining = FALSE
  /\ waiting = {}
  /\ promoted = {}
  /\ lead = {}
  /\ finished = {}
  /\ pc = [j \in Jobs |-> "idle"]
  /\ cur = [j \in Jobs |-> NoJob]
  /\ used = [j \in Jobs |-> 0]
  /\ next = [j \in Jobs |-> "drain"]
  /\ reply = [j \in Jobs |-> "none"]
  /\ cancelled = {}
  /\ ended = FALSE
  /\ parked = NoJob
  /\ started = {}
  /\ reaborted = FALSE

-----------------------------------------------------------------------------
(* Helpers.                                                                *)

Unlocked == parked = NoJob

Goto(j, place) == pc' = [pc EXCEPT ![j] = place]

Queued == {queue[i] : i \in 1 .. Len(queue)}

\* settleLocked: done is closed once, whoever settles first.
Settle(k) == finished' = finished \cup {k}

\* What the loop that executed the job does next: drain goes round within its
\* budget and hands over when it is spent, handOff looks at the next head.
Resume(j) ==
  IF next[j] = "drain" /\ used[j] + 1 < Budget
  THEN /\ Goto(j, "drain")
       /\ used' = [used EXCEPT ![j] = @ + 1]
       /\ UNCHANGED next
  ELSE /\ Goto(j, "handOff")
       /\ next' = [next EXCEPT ![j] = IF @ = "drain" THEN "await" ELSE @]
       /\ UNCHANGED used

LeadsAlways == TRUE
\* A submit leads when nobody drains.
Leads == ~draining

PopTwice(j) ==
  queue' = queue /\ cur' = [cur EXCEPT ![j] = Head(queue)]
Pop(j) ==
  queue' = Tail(queue) /\ cur' = [cur EXCEPT ![j] = Head(queue)]

WaitsRegardless(k) == TRUE
StillWaits(k) == k \in waiting

ForgetsPromotion(j) == "returned"
\* A promotion that came in before the call left is passed on, not lost.
AfterLeave(j) ==
  IF j \in promoted /\ j \notin finished THEN "receive" ELSE "returned"

-----------------------------------------------------------------------------
(* submit, drain and execute.                                              *)

Submit(j) ==
  /\ pc[j] = "idle" /\ Unlocked
  /\ queue' = Append(queue, j)
  /\ waiting' = waiting \cup {j}
  /\ draining' = TRUE
  /\ Goto(j, IF Leads THEN "drain" ELSE "await")
  /\ UNCHANGED <<promoted, lead, finished, cur, used, next, reply, around>>

\* The context has not ended when the loop looks; it may end before take.
Continue(j) ==
  /\ pc[j] = "drain" /\ j \notin cancelled
  /\ Goto(j, "take")
  /\ UNCHANGED <<queue, draining, jobVars, cur, used, next, reply, around>>

StepDown(j) ==
  /\ pc[j] = "drain" /\ j \in cancelled /\ Unlocked
  /\ waiting' = waiting \ {j}
  /\ Goto(j, "handOff")
  /\ next' = [next EXCEPT ![j] = "stopped"]
  /\ UNCHANGED <<queue, draining, promoted, lead, finished, cur, used, reply,
                 around>>

TakeNothing(j) ==
  /\ pc[j] = "take" /\ queue = <<>> /\ Unlocked
  /\ draining' = FALSE
  /\ Goto(j, "await")
  /\ UNCHANGED <<queue, jobVars, cur, used, next, reply, around>>

Take(j) ==
  /\ pc[j] = "take" /\ queue # <<>> /\ Unlocked
  /\ Pop(j)
  /\ next' = [next EXCEPT ![j] = "drain"]
  /\ Goto(j, "execute")
  /\ UNCHANGED <<draining, jobVars, used, reply, around>>

\* execute finds the lifetime over: the step is dropped, and settled.
DropStep(j) ==
  /\ pc[j] = "execute" /\ ended /\ Unlocked
  /\ Settle(cur[j])
  /\ Resume(j)
  /\ UNCHANGED <<queue, draining, waiting, promoted, lead, cur, reply, around>>

BeginStep(j) ==
  /\ pc[j] = "execute" /\ ~ended
  /\ started' = started \cup {cur[j]}
  /\ Goto(j, "step")
  /\ UNCHANGED <<queue, draining, jobVars, cur, used, next, reply, cancelled,
                 ended, parked, reaborted>>

EndStep(j) ==
  /\ pc[j] = "step" /\ Unlocked
  /\ Settle(cur[j])
  /\ Resume(j)
  /\ UNCHANGED <<queue, draining, waiting, promoted, lead, cur, reply, around>>

\* The step panics: execute settles it on the way out, and the deferred
\* abort of the loop around it comes next.
PanicStep(j) ==
  /\ pc[j] = "step" /\ cur[j] \in Faulty /\ Unlocked
  /\ Settle(cur[j])
  /\ Goto(j, "abort")
  /\ UNCHANGED <<queue, draining, waiting, promoted, lead, cur, used, next,
                 reply, around>>

AbortSilently ==
  queue' = <<>> /\ draining' = FALSE /\ UNCHANGED finished
AbortQueue ==
  /\ finished' = finished \cup Queued
  /\ queue' = <<>>
  /\ draining' = FALSE

\* abort.  A panic inside a handOff that drain called meets two deferred
\* aborts, handOff's and then drain's: both of them clear the queue.
Abort(j) ==
  /\ pc[j] = "abort" /\ Unlocked
  /\ AbortQueue
  /\ IF next[j] \in {"await", "stopped"}
     THEN Goto(j, "abortAgain") /\ UNCHANGED reply
     ELSE Goto(j, "returned") /\ reply' = [reply EXCEPT ![j] = "panicked"]
  /\ UNCHANGED <<waiting, promoted, lead, cur, used, next, around>>

AbortAgain(j) ==
  /\ pc[j] = "abortAgain" /\ Unlocked
  /\ AbortQueue
  /\ reaborted' = TRUE
  /\ Goto(j, "returned")
  /\ reply' = [reply EXCEPT ![j] = "panicked"]
  /\ UNCHANGED <<waiting, promoted, lead, cur, used, next, cancelled, ended,
                 parked, started>>

-----------------------------------------------------------------------------
(* handOff: promote the waiter at the head, or run the step it left behind. *)

HandOffNothing(j) ==
  /\ pc[j] = "handOff" /\ queue = <<>> /\ Unlocked
  /\ draining' = FALSE
  /\ Goto(j, next[j])
  /\ UNCHANGED <<queue, jobVars, cur, used, next, reply, around>>

Promote(j) ==
  /\ pc[j] = "handOff" /\ queue # <<>> /\ StillWaits(Head(queue)) /\ Unlocked
  /\ Head(queue) \notin lead
  /\ promoted' = promoted \cup {Head(queue)}
  /\ lead' = lead \cup {Head(queue)}
  /\ Goto(j, next[j])
  /\ UNCHANGED <<queue, draining, waiting, finished, cur, used, next, reply,
                 around>>

\* The head was promoted before and has not taken its token: the send blocks,
\* and s.mu is held meanwhile.
PromoteBlocks(j) ==
  /\ pc[j] = "handOff" /\ queue # <<>> /\ StillWaits(Head(queue)) /\ Unlocked
  /\ Head(queue) \in lead
  /\ promoted' = promoted \cup {Head(queue)}
  /\ cur' = [cur EXCEPT ![j] = Head(queue)]
  /\ parked' = j
  /\ Goto(j, "sending")
  /\ UNCHANGED <<queue, draining, waiting, lead, finished, used, next, reply,
                 cancelled, ended, started, reaborted>>

Sent(j) ==
  /\ pc[j] = "sending" /\ cur[j] \notin lead
  /\ lead' = lead \cup {cur[j]}
  /\ parked' = NoJob
  /\ Goto(j, next[j])
  /\ UNCHANGED <<queue, draining, waiting, promoted, finished, cur, used, next,
                 reply, cancelled, ended, started, reaborted>>

TakeAbandoned(j) ==
  /\ pc[j] = "handOff" /\ queue # <<>> /\ ~StillWaits(Head(queue)) /\ Unlocked
  /\ Pop(j)
  /\ Goto(j, "execute")
  /\ UNCHANGED <<draining, jobVars, used, next, reply, around>>

-----------------------------------------------------------------------------
(* await: done, lead and the context race; the select takes any that is    *)
(* ready.                                                                  *)

Return(j, answer) ==
  /\ Goto(j, "returned")
  /\ reply' = [reply EXCEPT ![j] = answer]

AwaitDone(j) ==
  /\ pc[j] = "await" /\ j \in finished
  /\ Return(j, "ok")
  /\ UNCHANGED <<queue, draining, jobVars, cur, used, next, around>>

AwaitLead(j) ==
  /\ pc[j] = "await" /\ j \in lead
  /\ lead' = lead \ {j}
  /\ Goto(j, "lead")
  /\ UNCHANGED <<queue, draining, waiting, promoted, finished, cur, used, next,
                 reply, around>>

\* The promoted waiter drains, unless its own step is settled already.
Lead(j) ==
  /\ pc[j] = "lead" /\ Unlocked
  /\ promoted' = promoted \ {j}
  /\ \/ /\ j \in finished
        /\ Return(j, "ok")
        /\ UNCHANGED used
     \/ /\ j \notin finished
        /\ Goto(j, "drain")
        /\ used' = [used EXCEPT ![j] = 0]
        /\ UNCHANGED reply
  /\ UNCHANGED <<queue, draining, waiting, lead, finished, cur, next, around>>

AwaitCancelled(j) ==
  /\ pc[j] = "await" /\ j \in cancelled
  /\ Goto(j, "leaving")
  /\ UNCHANGED <<queue, draining, jobVars, cur, used, next, reply, around>>

Leave(j) ==
  /\ pc[j] = "leaving" /\ Unlocked
  /\ waiting' = waiting \ {j}
  /\ promoted' = promoted \ {j}
  /\ reply' = [reply EXCEPT ![j] = IF j \in finished THEN "ok" ELSE "gaveUp"]
  /\ Goto(j, AfterLeave(j))
  /\ UNCHANGED <<queue, draining, lead, finished, cur, used, next, around>>

LeaveReceive(j) ==
  /\ pc[j] = "receive" /\ j \in lead
  /\ lead' = lead \ {j}
  /\ Goto(j, "handOff")
  /\ next' = [next EXCEPT ![j] = "returned"]
  /\ UNCHANGED <<queue, draining, waiting, promoted, finished, cur, used, reply,
                 around>>

StoppedOutcome(j) ==
  /\ pc[j] = "stopped" /\ Unlocked
  /\ Return(j, IF j \in finished THEN "ok" ELSE "gaveUp")
  /\ UNCHANGED <<queue, draining, jobVars, cur, used, next, around>>

-----------------------------------------------------------------------------
(* The world around the queue.                                             *)

Cancel(j) ==
  /\ j \notin cancelled /\ pc[j] # "returned"
  /\ cancelled' = cancelled \cup {j}
  /\ UNCHANGED <<queue, draining, jobVars, callVars, ended, parked, started,
                 reaborted>>

EndLifetime ==
  /\ ~ended
  /\ ended' = TRUE
  /\ UNCHANGED <<queue, draining, jobVars, callVars, cancelled, parked, started,
                 reaborted>>

-----------------------------------------------------------------------------
Drain(j) ==
  \/ Continue(j) \/ StepDown(j) \/ TakeNothing(j) \/ Take(j)
  \/ DropStep(j) \/ BeginStep(j) \/ EndStep(j) \/ PanicStep(j)
  \/ Abort(j) \/ AbortAgain(j)

HandOff(j) ==
  \/ HandOffNothing(j) \/ Promote(j) \/ PromoteBlocks(j) \/ Sent(j)
  \/ TakeAbandoned(j)

Await(j) ==
  \/ AwaitDone(j) \/ AwaitLead(j) \/ Lead(j) \/ AwaitCancelled(j) \/ Leave(j)
  \/ LeaveReceive(j) \/ StoppedOutcome(j)

\* What a call does by itself once it is submitted.
Advance(j) == Drain(j) \/ HandOff(j) \/ Await(j)

AllReturned == \A j \in Jobs : pc[j] = "returned"

\* Every call is over: the model has no more of them.
Quiescent == AllReturned /\ UNCHANGED vars

Next ==
  \/ \E j \in Jobs : Submit(j) \/ Advance(j) \/ Cancel(j)
  \/ EndLifetime
  \/ Quiescent

Spec == Init /\ [][Next]_vars

\* The Go scheduler runs every goroutine, a step returns (its render calls
\* are bounded by the HTTP client), and s.mu is starvation-free.
FairSpec == Spec /\ \A j \in Jobs : WF_vars(Advance(j))

-----------------------------------------------------------------------------
(* Properties.                                                             *)

Working == {"drain", "take", "execute", "step", "abort", "handOff", "sending"}

\* The calls that have the lead: they drain, or they are asked to.
HasLead(j) == pc[j] \in Working \cup {"lead", "receive"} \/ j \in promoted

\* Two steps of one conversation never run at the same time, whoever leads,
\* gives up, is promoted or panics in between (until a second abort).
StepsNeverOverlap ==
  ~reaborted =>
    \A i, j \in Jobs : pc[i] = "step" /\ pc[j] = "step" => i = j

\* The lead is never lost and never doubled: the sink says it is draining
\* exactly when one call has the lead, and queued steps always have a leader.
LeadIsUnique ==
  ~reaborted =>
    /\ \A i, j \in Jobs : HasLead(i) /\ HasLead(j) => i = j
    /\ draining <=> \E j \in Jobs : HasLead(j)
    /\ queue # <<>> => draining

\* No step is lost: what was submitted and is not settled is in the queue, or
\* in the hands of a leader, even after a panic.
NothingLost ==
  \A j \in Jobs :
    pc[j] # "idle" /\ j \notin finished =>
      \/ j \in Queued
      \/ \E k \in Jobs : pc[k] \in {"execute", "step"} /\ cur[k] = j

\* A promotion reaches its waiter without ever blocking under s.mu, and the
\* waiter that was promoted still has its own step to run.
PromotionArrives ==
  ~reaborted =>
    /\ Unlocked
    /\ \A j \in Jobs : j \in promoted =>
         /\ j \notin finished /\ j \in waiting
         /\ queue # <<>> /\ Head(queue) = j
         /\ pc[j] = "lead" \/ (pc[j] \in {"await", "leaving"} /\ j \in lead)

\* A leader that stops because its context ended has had its own step settled
\* first: submit answers it nil, never the context's error.
LeaderIsServed ==
  ~reaborted => \A j \in Jobs : pc[j] = "stopped" => j \in finished

\* A step is begun at most once, and never after it has been settled.
RunsOnce ==
  [][\A j \in Jobs : pc[j] = "execute" /\ pc'[j] = "step" =>
       cur[j] \notin started /\ cur[j] \notin finished]_vars

\* Whatever the leader does, gives up or breaks, a step is in somebody's hands
\* until it is settled, and it is begun at most once, never after that: a step
\* that an abort settles with an error is never run.
StepsAreKept == []NothingLost /\ RunsOnce

\* Every step that was submitted is settled in the end, even if every caller
\* gives up or the lifetime ends, as long as no step panics: the second abort
\* after a panic may park a call under s.mu for ever.
EveryStepSettles ==
  \A j \in Jobs : pc[j] # "idle" ~> j \in finished

\* Every call returns, as long as no step panics.
EveryCallReturns ==
  \A j \in Jobs : pc[j] # "idle" ~> pc[j] = "returned"

\* The queue never stalls: where no step panics, neither a step nor a caller is
\* left behind in it.
QueueDrains == EveryStepSettles /\ EveryCallReturns

\* What the tests' bubble says of every call: none is parked for ever behind
\* s.mu, because nobody sends on a full channel while holding it.
LockIsNotParkedOn == Unlocked

\* The queue is the abstract one, in the order of submission.
Order == INSTANCE StepOrder WITH
  pending <- queue,
  inHand  <- {cur[j] : j \in {k \in Jobs : pc[k] \in {"execute", "step"}}},
  settled <- finished

ImplementsStepOrder == Order!Spec
=============================================================================
