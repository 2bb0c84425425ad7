-------------------------- MODULE SinkQueueProofs --------------------------
(***************************************************************************)
(* Theorems about SinkQueue, for any set of calls and any budget.          *)
(*                                                                         *)
(* TypeOK is inductive by itself.  The safety properties are not: that the *)
(* lead is unique rests on where a promotion may be found, which rests on  *)
(* which job is at the head of the queue, which rests on what the queue    *)
(* holds.  QueueInv below is their inductive strengthening; it holds until *)
(* one panic aborts the queue twice (reaborted), and what that does is in  *)
(* the findings.  Refinement is about queues without panics: they do what  *)
(* StepOrder allows.                                                       *)
(***************************************************************************)
EXTENDS SinkQueue, SequenceTheorems, TLAPS

\* The lead is with one call; the sink drains exactly then.
LeadInv ==
  /\ \A i, j \in Jobs : HasLead(i) /\ HasLead(j) => i = j
  /\ draining <=> \E j \in Jobs : HasLead(j)
  /\ queue # <<>> => draining

\* The token of a promotion is in the channel until its waiter, or the leaver
\* that waives it, takes it; nobody blocks on sending it.
TokenInv ==
  /\ parked = NoJob
  /\ \A j \in Jobs :
       /\ pc[j] # "sending"
       /\ j \in lead <=>
            \/ pc[j] = "receive"
            \/ j \in promoted /\ pc[j] \in {"await", "leaving"}
       /\ pc[j] = "lead" => j \in promoted
       /\ pc[j] = "idle" => j \notin waiting
       /\ j \in promoted =>
            /\ pc[j] \in {"await", "leaving", "lead"}
            /\ j \in waiting
            /\ queue # <<>> /\ Head(queue) = j

\* A call that may still be promoted is one that will look at its channel, and
\* the leader finds its own step first.
ServeInv ==
  \A j \in Jobs :
    /\ j \in waiting /\ j \notin finished =>
         pc[j] \in Working \cup {"await", "leaving", "lead"}
    /\ pc[j] \in {"handOff", "execute", "step"} /\ next[j] \in {"stopped", "returned"}
         => j \notin waiting
    /\ pc[j] = "receive" => j \notin waiting
    /\ pc[j] = "handOff" => next[j] # "drain"
    /\ pc[j] \in {"drain", "take"} /\ j \notin finished =>
         queue # <<>> /\ Head(queue) = j
    /\ pc[j] = "handOff" /\ next[j] # "returned" /\ j \notin finished =>
         queue # <<>> /\ Head(queue) = j
    /\ pc[j] \in {"execute", "step"} /\ next[j] # "returned" /\ j \notin finished =>
         cur[j] = j
    /\ pc[j] = "stopped" => j \in finished
    /\ pc[j] \in {"abort", "abortAgain"} => j \in finished \/ j \notin waiting

\* A job is in one place: not submitted, in the queue, in hand, or settled.
\* This holds whatever panics.
PlaceInv ==
  /\ \A i, k \in 1 .. Len(queue) : queue[i] = queue[k] => i = k
  /\ \A i \in 1 .. Len(queue) :
       /\ pc[queue[i]] # "idle"
       /\ queue[i] \notin finished /\ queue[i] \notin started
  /\ \A k \in Jobs : pc[k] \in {"execute", "step"} =>
       /\ cur[k] \notin finished /\ pc[cur[k]] # "idle"
       /\ \A i \in 1 .. Len(queue) : queue[i] # cur[k]
       /\ \A l \in Jobs : pc[l] \in {"execute", "step"} /\ cur[l] = cur[k] => l = k
       /\ pc[k] = "execute" => cur[k] \notin started
  /\ \A j \in Jobs : pc[j] = "idle" => j \notin finished /\ j \notin started

QueueInv == LeadInv /\ TokenInv /\ ServeInv

IInv == TypeOK /\ PlaceInv /\ NothingLost /\ (~reaborted => QueueInv)
-----------------------------------------------------------------------------
\* The queue holds jobs.
LEMMA QueuedAreJobs == TypeOK => Queued \subseteq Jobs
  BY ElementOfSeq DEF TypeOK, Queued

\* Wherever the loop goes on, it stays in drain or handOff.
LEMMA ResumeType ==
  ASSUME TypeOK, NEW j \in Jobs, Resume(j)
  PROVE  /\ \/ pc' = [pc EXCEPT ![j] = "drain"]
            \/ pc' = [pc EXCEPT ![j] = "handOff"]
         /\ used' \in [Jobs -> Nat]
         /\ next' \in [Jobs -> {"drain", "await", "stopped", "returned"}]
<1> USE DEF TypeOK, Resume, Goto
<1>1. CASE next[j] = "drain" /\ used[j] + 1 < Budget
  BY <1>1
<1>2. CASE ~(next[j] = "drain" /\ used[j] + 1 < Budget)
  BY <1>2
<1> QED
  BY <1>1, <1>2

\* Type correctness: every step of every call keeps the state well-formed.
LEMMA InitTypeOK == Init => TypeOK
<1> SUFFICES ASSUME Init PROVE TypeOK
  OBVIOUS
<1>1. queue \in Seq(Jobs)
  BY DEF Init
<1> QED
  BY <1>1 DEF Init, TypeOK, Places, Replies

\* Every step of the queue and of the world around it keeps the types.
LEMMA NextTypeOK == TypeOK /\ [Next]_vars => TypeOK'
<1> SUFFICES ASSUME TypeOK, [Next]_vars PROVE TypeOK'
  OBVIOUS
<1> USE DEF TypeOK, Places, Replies, Goto, Pop, Leads, StillWaits, AfterLeave,
            jobVars, callVars, around
<1>1. ASSUME NEW j \in Jobs, Submit(j) PROVE TypeOK'
  BY <1>1 DEF Submit
<1>2. ASSUME NEW j \in Jobs, Continue(j) PROVE TypeOK'
  BY <1>2 DEF Continue
<1>3. ASSUME NEW j \in Jobs, StepDown(j) PROVE TypeOK'
  BY <1>3 DEF StepDown
<1>4. ASSUME NEW j \in Jobs, TakeNothing(j) PROVE TypeOK'
  BY <1>4 DEF TakeNothing
<1>5. ASSUME NEW j \in Jobs, Take(j) PROVE TypeOK'
  <2>1. Head(queue) \in Jobs /\ Tail(queue) \in Seq(Jobs)
    BY <1>5, HeadTailProperties DEF Take
  <2> QED
    BY <1>5, <2>1 DEF Take
<1>6. ASSUME NEW j \in Jobs, DropStep(j) PROVE TypeOK'
  <2>1. cur[j] \in Jobs
    BY <1>6 DEF DropStep
  <2>2. CASE pc' = [pc EXCEPT ![j] = "drain"]
    BY <1>6, <2>1, <2>2, ResumeType DEF DropStep, Settle
  <2>3. CASE pc' = [pc EXCEPT ![j] = "handOff"]
    BY <1>6, <2>1, <2>3, ResumeType DEF DropStep, Settle
  <2> QED
    BY <1>6, <2>2, <2>3, ResumeType DEF DropStep
<1>7. ASSUME NEW j \in Jobs, BeginStep(j) PROVE TypeOK'
  BY <1>7 DEF BeginStep
<1>8. ASSUME NEW j \in Jobs, EndStep(j) PROVE TypeOK'
  <2>1. cur[j] \in Jobs
    BY <1>8 DEF EndStep
  <2>2. CASE pc' = [pc EXCEPT ![j] = "drain"]
    BY <1>8, <2>1, <2>2, ResumeType DEF EndStep, Settle
  <2>3. CASE pc' = [pc EXCEPT ![j] = "handOff"]
    BY <1>8, <2>1, <2>3, ResumeType DEF EndStep, Settle
  <2> QED
    BY <1>8, <2>2, <2>3, ResumeType DEF EndStep
<1>9. ASSUME NEW j \in Jobs, PanicStep(j) PROVE TypeOK'
  BY <1>9 DEF PanicStep, Settle
<1>10. ASSUME NEW j \in Jobs, Abort(j) PROVE TypeOK'
  <2>1. finished' \in SUBSET Jobs /\ queue' \in Seq(Jobs)
    BY <1>10, QueuedAreJobs DEF Abort, AbortQueue
  <2>2. CASE pc' = [pc EXCEPT ![j] = "abortAgain"] /\ UNCHANGED reply
    BY <1>10, <2>1, <2>2 DEF Abort, AbortQueue
  <2>3. CASE /\ pc' = [pc EXCEPT ![j] = "returned"]
             /\ reply' = [reply EXCEPT ![j] = "panicked"]
    BY <1>10, <2>1, <2>3 DEF Abort, AbortQueue
  <2> QED
    BY <1>10, <2>2, <2>3 DEF Abort
<1>11. ASSUME NEW j \in Jobs, AbortAgain(j) PROVE TypeOK'
  <2>1. finished' \in SUBSET Jobs /\ queue' \in Seq(Jobs)
    BY <1>11, QueuedAreJobs DEF AbortAgain, AbortQueue
  <2> QED
    BY <1>11, <2>1 DEF AbortAgain, AbortQueue
<1>12. ASSUME NEW j \in Jobs, HandOffNothing(j) PROVE TypeOK'
  BY <1>12 DEF HandOffNothing
<1>13. ASSUME NEW j \in Jobs, Promote(j) PROVE TypeOK'
  BY <1>13 DEF Promote
<1>14. ASSUME NEW j \in Jobs, PromoteBlocks(j) PROVE TypeOK'
  BY <1>14 DEF PromoteBlocks
<1>15. ASSUME NEW j \in Jobs, Sent(j) PROVE TypeOK'
  BY <1>15 DEF Sent
<1>16. ASSUME NEW j \in Jobs, TakeAbandoned(j) PROVE TypeOK'
  <2>1. Head(queue) \in Jobs /\ Tail(queue) \in Seq(Jobs)
    BY <1>16, HeadTailProperties DEF TakeAbandoned
  <2> QED
    BY <1>16, <2>1 DEF TakeAbandoned
<1>17. ASSUME NEW j \in Jobs, AwaitDone(j) PROVE TypeOK'
  BY <1>17 DEF AwaitDone, Return
<1>18. ASSUME NEW j \in Jobs, AwaitLead(j) PROVE TypeOK'
  BY <1>18 DEF AwaitLead
<1>19. ASSUME NEW j \in Jobs, Lead(j) PROVE TypeOK'
  <2>1. CASE pc' = [pc EXCEPT ![j] = "returned"]
    BY <1>19, <2>1 DEF Lead, Return
  <2>2. CASE pc' = [pc EXCEPT ![j] = "drain"]
    BY <1>19, <2>2 DEF Lead, Return
  <2> QED
    BY <1>19, <2>1, <2>2 DEF Lead, Return
<1>20. ASSUME NEW j \in Jobs, AwaitCancelled(j) PROVE TypeOK'
  BY <1>20 DEF AwaitCancelled
<1>21. ASSUME NEW j \in Jobs, Leave(j) PROVE TypeOK'
  BY <1>21 DEF Leave
<1>22. ASSUME NEW j \in Jobs, LeaveReceive(j) PROVE TypeOK'
  BY <1>22 DEF LeaveReceive
<1>23. ASSUME NEW j \in Jobs, StoppedOutcome(j) PROVE TypeOK'
  BY <1>23 DEF StoppedOutcome, Return
<1>24. ASSUME NEW j \in Jobs, Cancel(j) PROVE TypeOK'
  BY <1>24 DEF Cancel
<1>25. CASE EndLifetime
  BY <1>25 DEF EndLifetime
<1>26. CASE UNCHANGED vars
  BY <1>26 DEF vars
<1> QED
  BY <1>1, <1>2, <1>3, <1>4, <1>5, <1>6, <1>7, <1>8, <1>9, <1>10, <1>11, <1>12,
     <1>13, <1>14, <1>15, <1>16, <1>17, <1>18, <1>19, <1>20, <1>21, <1>22,
     <1>23, <1>24, <1>25, <1>26 DEF Next, Advance, Drain, HandOff, Await,
     Quiescent

\* The state is well-formed in every behaviour.
THEOREM TypeCorrect == Spec => []TypeOK
  BY InitTypeOK, NextTypeOK, PTL DEF Spec

-----------------------------------------------------------------------------
(* The lead.                                                               *)

\* What Tail, as pop takes it, leaves of a queue that is not empty.
LEMMA TailFacts ==
  ASSUME TypeOK, queue # <<>>
  PROVE  /\ Len(queue) \in Nat \ {0}
         /\ Head(queue) = queue[1] /\ Head(queue) \in Jobs
         /\ Tail(queue) \in Seq(Jobs)
         /\ Len(Tail(queue)) = Len(queue) - 1
         /\ \A i \in 1 .. Len(Tail(queue)) : Tail(queue)[i] = queue[i + 1]
  BY HeadTailProperties, LenProperties, EmptySeq DEF TypeOK

\* What submit's append makes of the queue.
LEMMA AppendFacts ==
  ASSUME TypeOK, NEW j \in Jobs
  PROVE  /\ Len(queue) \in Nat
         /\ Append(queue, j) # <<>>
         /\ Len(Append(queue, j)) = Len(queue) + 1
         /\ \A i \in 1 .. Len(queue) : Append(queue, j)[i] = queue[i]
         /\ Append(queue, j)[Len(queue) + 1] = j
         /\ queue = <<>> => Head(Append(queue, j)) = j
         /\ queue # <<>> => Head(Append(queue, j)) = Head(queue)
  BY AppendProperties, LenProperties, EmptySeq DEF TypeOK

\* A step that leaves the lead where it is.
LEMMA SameLead ==
  ASSUME LeadInv, \A k \in Jobs : HasLead(k)' <=> HasLead(k),
         draining' = draining, queue' # <<>> => draining
  PROVE  LeadInv'
  BY DEF LeadInv

\* Without a second abort, every step keeps the lead unique and promotions
\* with a waiter at the head (submit, take, handOff, leave and abort).
LEMMA QueueInvStep ==
  ASSUME TypeOK, TypeOK', PlaceInv, QueueInv, ~reaborted', [Next]_vars
  PROVE  QueueInv'
<1> USE DEF QueueInv, Goto, Pop, Leads, StillWaits, AfterLeave, jobVars,
            callVars, around, Working, Places, Unlocked
<1>1. ASSUME NEW j \in Jobs, Submit(j) PROVE QueueInv'
  <2>1. LeadInv'
    BY AppendFacts, <1>1 DEF Submit, LeadInv, HasLead, TokenInv, TypeOK
  <2>2. TokenInv'
    <3>1. j \notin promoted
      BY <1>1 DEF Submit, TokenInv
    <3>2. \A k \in Jobs : k \in promoted => Head(queue') = k /\ queue' # <<>>
      BY <1>1, AppendFacts DEF Submit, TokenInv
    <3>3. pc'[j] \in {"await", "drain"} /\ \A k \in Jobs : k # j => pc'[k] = pc[k]
      BY <1>1 DEF Submit, TypeOK
    <3> QED
      BY <1>1, <3>1, <3>2, <3>3 DEF Submit, TokenInv, TypeOK
  <2>3. ServeInv'
    <3>1. /\ pc'[j] \in {"await", "drain"}
          /\ pc'[j] = "drain" => queue # <<>> \/ Head(queue') = j
          /\ pc'[j] = "drain" => ~draining
      BY <1>1, AppendFacts DEF Submit, TypeOK
    <3>2. ~draining => queue = <<>>
      BY DEF LeadInv
    <3>3. queue' # <<>> /\ (queue # <<>> => Head(queue') = Head(queue))
      BY <1>1, AppendFacts DEF Submit
    <3>4. /\ \A k \in Jobs : k # j => pc'[k] = pc[k] /\ (k \in waiting' <=> k \in waiting)
          /\ finished' = finished /\ next' = next /\ cur' = cur
      BY <1>1 DEF Submit, TypeOK
    <3> QED
      BY <3>1, <3>2, <3>3, <3>4 DEF ServeInv
  <2> QED
    BY <2>1, <2>2, <2>3
<1>2. ASSUME NEW j \in Jobs, Continue(j) PROVE QueueInv'
  <2>1. LeadInv'
    BY <1>2 DEF Continue, LeadInv, HasLead, TokenInv, TypeOK
  <2>2. TokenInv'
    BY <1>2 DEF Continue, TokenInv, LeadInv, HasLead, ServeInv, PlaceInv, TypeOK
  <2>3. ServeInv'
    BY <1>2 DEF Continue, ServeInv, LeadInv, HasLead, TokenInv, PlaceInv, TypeOK
  <2> QED
    BY <2>1, <2>2, <2>3
<1>3. ASSUME NEW j \in Jobs, StepDown(j) PROVE QueueInv'
  <2>1. LeadInv'
    BY <1>3 DEF StepDown, LeadInv, HasLead, TokenInv, TypeOK
  <2>2. TokenInv'
    BY <1>3 DEF StepDown, TokenInv, LeadInv, HasLead, ServeInv, PlaceInv, TypeOK
  <2>3. ServeInv'
    BY <1>3 DEF StepDown, ServeInv, LeadInv, HasLead, TokenInv, PlaceInv, TypeOK
  <2> QED
    BY <2>1, <2>2, <2>3
<1>4. ASSUME NEW j \in Jobs, TakeNothing(j) PROVE QueueInv'
  <2>1. LeadInv'
    BY <1>4 DEF TakeNothing, LeadInv, HasLead, TokenInv, TypeOK
  <2>2. TokenInv'
    BY <1>4 DEF TakeNothing, TokenInv, LeadInv, HasLead, ServeInv, PlaceInv, TypeOK
  <2>3. ServeInv'
    BY <1>4 DEF TakeNothing, ServeInv, LeadInv, HasLead, TokenInv, PlaceInv, TypeOK
  <2> QED
    BY <2>1, <2>2, <2>3
<1>5. ASSUME NEW j \in Jobs, Take(j) PROVE QueueInv'
  <2>1. LeadInv'
    BY TailFacts, <1>5 DEF Take, LeadInv, HasLead, TokenInv, TypeOK
  <2>2. TokenInv'
    BY TailFacts, <1>5 DEF Take, TokenInv, LeadInv, HasLead, ServeInv, PlaceInv, TypeOK
  <2>3. ServeInv'
    BY TailFacts, <1>5 DEF Take, ServeInv, LeadInv, HasLead, TokenInv, PlaceInv, TypeOK
  <2> QED
    BY <2>1, <2>2, <2>3
<1>6. ASSUME NEW j \in Jobs, DropStep(j) PROVE QueueInv'
  <2>1. LeadInv'
    <3>1. pc[j] \in Working /\ pc'[j] \in Working /\ promoted' = promoted
      BY <1>6 DEF DropStep, Resume, TypeOK
    <3>2. \A k \in Jobs : k # j => pc'[k] = pc[k]
      BY <1>6 DEF DropStep, Resume, TypeOK
    <3>3. \A k \in Jobs : HasLead(k)' <=> HasLead(k)
      BY <3>1, <3>2 DEF HasLead
    <3> QED
      BY <1>6, <3>3, SameLead DEF DropStep, LeadInv
  <2>2. TokenInv'
    <3>1. /\ pc'[j] \in {"drain", "handOff"}
          /\ \A k \in Jobs : k # j => pc'[k] = pc[k]
      BY <1>6 DEF DropStep, Resume, TypeOK
    <3>2. j \notin promoted /\ j \notin lead
      BY <1>6 DEF DropStep, TokenInv
    <3> QED
      BY <1>6, <3>1, <3>2 DEF DropStep, TokenInv
  <2>3. ServeInv'
    BY <1>6 DEF DropStep, Settle, Resume, ServeInv, LeadInv, HasLead, TokenInv, PlaceInv, TypeOK
  <2> QED
    BY <2>1, <2>2, <2>3
<1>7. ASSUME NEW j \in Jobs, BeginStep(j) PROVE QueueInv'
  <2>1. LeadInv'
    BY <1>7 DEF BeginStep, LeadInv, HasLead, TokenInv, TypeOK
  <2>2. TokenInv'
    BY <1>7 DEF BeginStep, TokenInv, LeadInv, HasLead, ServeInv, PlaceInv, TypeOK
  <2>3. ServeInv'
    BY <1>7 DEF BeginStep, ServeInv, LeadInv, HasLead, TokenInv, PlaceInv, TypeOK
  <2> QED
    BY <2>1, <2>2, <2>3
<1>8. ASSUME NEW j \in Jobs, EndStep(j) PROVE QueueInv'
  <2>1. LeadInv'
    <3>1. pc[j] \in Working /\ pc'[j] \in Working /\ promoted' = promoted
      BY <1>8 DEF EndStep, Resume, TypeOK
    <3>2. \A k \in Jobs : k # j => pc'[k] = pc[k]
      BY <1>8 DEF EndStep, Resume, TypeOK
    <3>3. \A k \in Jobs : HasLead(k)' <=> HasLead(k)
      BY <3>1, <3>2 DEF HasLead
    <3> QED
      BY <1>8, <3>3, SameLead DEF EndStep, LeadInv
  <2>2. TokenInv'
    <3>1. /\ pc'[j] \in {"drain", "handOff"}
          /\ \A k \in Jobs : k # j => pc'[k] = pc[k]
      BY <1>8 DEF EndStep, Resume, TypeOK
    <3>2. j \notin promoted /\ j \notin lead
      BY <1>8 DEF EndStep, TokenInv
    <3> QED
      BY <1>8, <3>1, <3>2 DEF EndStep, TokenInv
  <2>3. ServeInv'
    BY <1>8 DEF EndStep, Settle, Resume, ServeInv, LeadInv, HasLead, TokenInv, PlaceInv, TypeOK
  <2> QED
    BY <2>1, <2>2, <2>3
<1>9. ASSUME NEW j \in Jobs, PanicStep(j) PROVE QueueInv'
  <2>1. LeadInv'
    BY <1>9 DEF PanicStep, Settle, LeadInv, HasLead, TokenInv, TypeOK
  <2>2. TokenInv'
    BY <1>9 DEF PanicStep, Settle, TokenInv, LeadInv, HasLead, ServeInv, PlaceInv, TypeOK
  <2>3. ServeInv'
    BY <1>9 DEF PanicStep, Settle, ServeInv, LeadInv, HasLead, TokenInv, PlaceInv, TypeOK
  <2> QED
    BY <2>1, <2>2, <2>3
<1>10. ASSUME NEW j \in Jobs, Abort(j) PROVE QueueInv'
  <2>1. LeadInv'
    <3>1. /\ pc'[j] \in {"abortAgain", "returned"}
          /\ \A k \in Jobs : k # j => pc'[k] = pc[k]
          /\ promoted' = promoted
      BY <1>10 DEF Abort, TypeOK
    <3>2. \A k \in Jobs : HasLead(k) => k = j
      BY <1>10 DEF Abort, LeadInv, HasLead
    <3>3. j \notin promoted
      BY <1>10 DEF Abort, TokenInv
    <3>4. \A k \in Jobs : ~HasLead(k)'
      BY <3>1, <3>2, <3>3 DEF HasLead
    <3> QED
      BY <1>10, <3>4 DEF Abort, AbortQueue, LeadInv
  <2>2. TokenInv'
    BY <1>10 DEF Abort, AbortQueue, Queued, TokenInv, LeadInv, HasLead, ServeInv, PlaceInv, TypeOK
  <2>3. ServeInv'
    BY <1>10 DEF Abort, AbortQueue, Queued, ServeInv, LeadInv, HasLead, TokenInv, PlaceInv, TypeOK
  <2> QED
    BY <2>1, <2>2, <2>3
<1>11. ASSUME NEW j \in Jobs, AbortAgain(j) PROVE QueueInv'
  BY <1>11 DEF AbortAgain
<1>12. ASSUME NEW j \in Jobs, HandOffNothing(j) PROVE QueueInv'
  <2>1. LeadInv'
    <3>1. pc'[j] \in {"await", "stopped", "returned"}
      BY <1>12 DEF HandOffNothing, ServeInv, TypeOK
    <3>2. \A k \in Jobs : ~HasLead(k)'
      BY <1>12, <3>1 DEF HandOffNothing, LeadInv, HasLead, TokenInv, TypeOK
    <3> QED
      BY <1>12, <3>2 DEF HandOffNothing, LeadInv
  <2>2. TokenInv'
    BY <1>12 DEF HandOffNothing, TokenInv, LeadInv, HasLead, ServeInv, PlaceInv, TypeOK
  <2>3. ServeInv'
    BY <1>12 DEF HandOffNothing, ServeInv, LeadInv, HasLead, TokenInv, PlaceInv, TypeOK
  <2> QED
    BY <2>1, <2>2, <2>3
<1>13. ASSUME NEW j \in Jobs, Promote(j) PROVE QueueInv'
  <2>1. LeadInv'
    <3>1. Head(queue) \in Jobs
      BY <1>13, TailFacts DEF Promote
    <3>2. pc'[j] \in {"await", "stopped", "returned"}
      BY <1>13 DEF Promote, ServeInv, TypeOK
    <3>3. \A k \in Jobs : HasLead(k)' <=> k = Head(queue)
      BY <1>13, <3>1, <3>2 DEF Promote, LeadInv, HasLead, TokenInv, TypeOK
    <3> QED
      BY <1>13, <3>1, <3>3 DEF Promote, LeadInv, HasLead
  <2>2. TokenInv'
    BY TailFacts, <1>13 DEF Promote, TokenInv, LeadInv, HasLead, ServeInv, PlaceInv, TypeOK
  <2>3. ServeInv'
    BY TailFacts, <1>13 DEF Promote, ServeInv, LeadInv, HasLead, TokenInv, PlaceInv, TypeOK
  <2> QED
    BY <2>1, <2>2, <2>3
<1>14. ASSUME NEW j \in Jobs, PromoteBlocks(j) PROVE QueueInv'
  BY <1>14 DEF PromoteBlocks, LeadInv, HasLead, TokenInv, TypeOK
<1>15. ASSUME NEW j \in Jobs, Sent(j) PROVE QueueInv'
  BY <1>15 DEF Sent, LeadInv, HasLead, TokenInv, TypeOK
<1>16. ASSUME NEW j \in Jobs, TakeAbandoned(j) PROVE QueueInv'
  <2>1. LeadInv'
    BY TailFacts, <1>16 DEF TakeAbandoned, LeadInv, HasLead, TokenInv, TypeOK
  <2>2. TokenInv'
    BY TailFacts, <1>16 DEF TakeAbandoned, TokenInv, LeadInv, HasLead, ServeInv, PlaceInv, TypeOK
  <2>3. ServeInv'
    BY TailFacts, <1>16 DEF TakeAbandoned, ServeInv, LeadInv, HasLead, TokenInv, PlaceInv, TypeOK
  <2> QED
    BY <2>1, <2>2, <2>3
<1>17. ASSUME NEW j \in Jobs, AwaitDone(j) PROVE QueueInv'
  <2>1. LeadInv'
    BY <1>17 DEF AwaitDone, Return, LeadInv, HasLead, TokenInv, TypeOK
  <2>2. TokenInv'
    BY <1>17 DEF AwaitDone, Return, TokenInv, LeadInv, HasLead, ServeInv, PlaceInv, TypeOK
  <2>3. ServeInv'
    BY <1>17 DEF AwaitDone, Return, ServeInv, LeadInv, HasLead, TokenInv, PlaceInv, TypeOK
  <2> QED
    BY <2>1, <2>2, <2>3
<1>18. ASSUME NEW j \in Jobs, AwaitLead(j) PROVE QueueInv'
  <2>1. LeadInv'
    BY <1>18 DEF AwaitLead, LeadInv, HasLead, TokenInv, TypeOK
  <2>2. TokenInv'
    BY <1>18 DEF AwaitLead, TokenInv, LeadInv, HasLead, ServeInv, PlaceInv, TypeOK
  <2>3. ServeInv'
    BY <1>18 DEF AwaitLead, ServeInv, LeadInv, HasLead, TokenInv, PlaceInv, TypeOK
  <2> QED
    BY <2>1, <2>2, <2>3
<1>19. ASSUME NEW j \in Jobs, Lead(j) PROVE QueueInv'
  <2>0. /\ j \notin finished /\ j \in promoted
        /\ pc' = [pc EXCEPT ![j] = "drain"]
    BY <1>19, TailFacts DEF Lead, Return, TokenInv, PlaceInv, TypeOK
  <2>1. LeadInv'
    <3>1. \A k \in Jobs : HasLead(k)' <=> HasLead(k)
      BY <1>19, <2>0 DEF Lead, HasLead, TypeOK
    <3> QED
      BY <1>19, <3>1, SameLead DEF Lead, LeadInv
  <2>2. TokenInv'
    BY <1>19, <2>0 DEF Lead, TokenInv, TypeOK
  <2>3. ServeInv'
    BY <1>19, <2>0 DEF Lead, ServeInv, TokenInv, LeadInv, HasLead, TypeOK
  <2> QED
    BY <2>1, <2>2, <2>3
<1>20. ASSUME NEW j \in Jobs, AwaitCancelled(j) PROVE QueueInv'
  <2>1. LeadInv'
    BY <1>20 DEF AwaitCancelled, LeadInv, HasLead, TokenInv, TypeOK
  <2>2. TokenInv'
    BY <1>20 DEF AwaitCancelled, TokenInv, LeadInv, HasLead, ServeInv, PlaceInv, TypeOK
  <2>3. ServeInv'
    BY <1>20 DEF AwaitCancelled, ServeInv, LeadInv, HasLead, TokenInv, PlaceInv, TypeOK
  <2> QED
    BY <2>1, <2>2, <2>3
<1>21. ASSUME NEW j \in Jobs, Leave(j) PROVE QueueInv'
  <2>0. j \in promoted => j \notin finished
    BY TailFacts DEF TokenInv, PlaceInv
  <2>00. /\ pc'[j] = IF j \in promoted THEN "receive" ELSE "returned"
         /\ \A k \in Jobs : k # j => pc'[k] = pc[k]
    BY <1>21, <2>0 DEF Leave, TypeOK
  <2>1. LeadInv'
    <3>1. \A k \in Jobs : HasLead(k)' <=> HasLead(k)
      <4>1. HasLead(j)' <=> HasLead(j)
        BY <1>21, <2>00 DEF Leave, HasLead
      <4>2. ASSUME NEW k \in Jobs, k # j PROVE HasLead(k)' <=> HasLead(k)
        BY <1>21, <2>00, <4>2 DEF Leave, HasLead
      <4> QED
        BY <4>1, <4>2
    <3> QED
      BY <1>21, <3>1, SameLead DEF Leave, LeadInv
  <2>2. TokenInv'
    BY <1>21, <2>00 DEF Leave, TokenInv, TypeOK
  <2>3. ServeInv'
    BY <1>21 DEF Leave, ServeInv, LeadInv, HasLead, TokenInv, PlaceInv, TypeOK
  <2> QED
    BY <2>1, <2>2, <2>3
<1>22. ASSUME NEW j \in Jobs, LeaveReceive(j) PROVE QueueInv'
  <2>1. LeadInv'
    BY <1>22 DEF LeaveReceive, LeadInv, HasLead, TokenInv, TypeOK
  <2>2. TokenInv'
    BY <1>22 DEF LeaveReceive, TokenInv, LeadInv, HasLead, ServeInv, PlaceInv, TypeOK
  <2>3. ServeInv'
    BY <1>22 DEF LeaveReceive, ServeInv, LeadInv, HasLead, TokenInv, PlaceInv, TypeOK
  <2> QED
    BY <2>1, <2>2, <2>3
<1>23. ASSUME NEW j \in Jobs, StoppedOutcome(j) PROVE QueueInv'
  <2>1. LeadInv'
    BY <1>23 DEF StoppedOutcome, Return, LeadInv, HasLead, TokenInv, TypeOK
  <2>2. TokenInv'
    BY <1>23 DEF StoppedOutcome, Return, TokenInv, LeadInv, HasLead, ServeInv, PlaceInv, TypeOK
  <2>3. ServeInv'
    BY <1>23 DEF StoppedOutcome, Return, ServeInv, LeadInv, HasLead, TokenInv, PlaceInv, TypeOK
  <2> QED
    BY <2>1, <2>2, <2>3
<1>24. ASSUME NEW j \in Jobs, Cancel(j) PROVE QueueInv'
  <2>1. LeadInv'
    BY <1>24 DEF Cancel, LeadInv, HasLead, TokenInv, TypeOK
  <2>2. TokenInv'
    BY <1>24 DEF Cancel, TokenInv, LeadInv, HasLead, ServeInv, PlaceInv, TypeOK
  <2>3. ServeInv'
    BY <1>24 DEF Cancel, ServeInv, LeadInv, HasLead, TokenInv, PlaceInv, TypeOK
  <2> QED
    BY <2>1, <2>2, <2>3
<1>25. CASE EndLifetime
  BY <1>25 DEF EndLifetime, LeadInv, TokenInv, ServeInv, HasLead
<1>26. CASE UNCHANGED vars
  BY <1>26 DEF vars, LeadInv, TokenInv, ServeInv, HasLead
<1> QED
  BY <1>1, <1>2, <1>3, <1>4, <1>5, <1>6, <1>7, <1>8, <1>9, <1>10, <1>11, <1>12,
     <1>13, <1>14, <1>15, <1>16, <1>17, <1>18, <1>19, <1>20, <1>21, <1>22,
     <1>23, <1>24, <1>25, <1>26 DEF Next, Advance, Drain, HandOff, Await,
     Quiescent
-----------------------------------------------------------------------------
(* Where the jobs are.                                                     *)

InHand(k) == pc[k] \in {"execute", "step"}

\* A step of the call j that touches neither the queue nor a job in hand.
LEMMA SamePlace ==
  ASSUME TypeOK, PlaceInv, NothingLost,
         queue' = queue, finished' = finished, started' = started,
         \A k \in Jobs : /\ pc'[k] = "idle" <=> pc[k] = "idle"
                         /\ InHand(k)' <=> InHand(k)
                         /\ pc'[k] = "execute" <=> pc[k] = "execute"
                         /\ InHand(k) => cur'[k] = cur[k]
  PROVE  PlaceInv' /\ NothingLost'
<1>1. \A k \in Jobs : InHand(k) => cur[k] \in Jobs
  BY DEF InHand, TypeOK
<1>2. \A i \in 1 .. Len(queue) : queue[i] \in Jobs
  BY ElementOfSeq DEF TypeOK
<1>3. PlaceInv'
  BY <1>1, <1>2 DEF PlaceInv, InHand
<1>4. NothingLost'
  BY DEF NothingLost, Queued, InHand
<1> QED
  BY <1>3, <1>4

\* After submit, the new job is queued, and all that was queued still is.
LEMMA QueuedAfterAppend ==
  ASSUME TypeOK, NEW j \in Jobs, queue' = Append(queue, j)
  PROVE  Queued \subseteq Queued' /\ j \in Queued'
<1>1. ASSUME NEW i \in 1 .. Len(queue) PROVE queue[i] \in Queued'
  <2>1. i \in 1 .. Len(queue') /\ queue'[i] = queue[i]
    BY AppendFacts
  <2> QED
    BY <2>1 DEF Queued
<1>2. j \in Queued'
  <2>1. Len(queue) + 1 \in 1 .. Len(queue') /\ queue'[Len(queue) + 1] = j
    BY AppendFacts
  <2> QED
    BY <2>1 DEF Queued
<1> QED
  BY <1>1, <1>2 DEF Queued

\* After pop, what was queued is queued still, or is the job popped.
LEMMA QueuedAfterTake ==
  ASSUME TypeOK, queue # <<>>, queue' = Tail(queue)
  PROVE  Queued \subseteq Queued' \cup {Head(queue)}
<1>1. ASSUME NEW i \in 1 .. Len(queue) PROVE queue[i] \in Queued' \cup {Head(queue)}
  <2>1. CASE i = 1
    BY <2>1, TailFacts
  <2>2. CASE i # 1
    <3>1. i - 1 \in 1 .. Len(queue') /\ queue'[i - 1] = queue[i]
      BY <2>2, TailFacts
    <3> QED
      BY <3>1 DEF Queued
  <2> QED
    BY <2>1, <2>2
<1> QED
  BY <1>1 DEF Queued

\* Every step keeps each unsettled job in the queue or in one call's hands.
LEMMA PlaceStep ==
  ASSUME TypeOK, TypeOK', PlaceInv, NothingLost, [Next]_vars
  PROVE  PlaceInv' /\ NothingLost'
<1> USE DEF Goto, Pop, Leads, StillWaits, AfterLeave, jobVars, callVars, around, Places
<1>0. \A i \in 1 .. Len(queue) : queue[i] \in Jobs
  BY ElementOfSeq DEF TypeOK
<1>1. ASSUME NEW j \in Jobs, Submit(j) PROVE PlaceInv' /\ NothingLost'
  <2>1. PlaceInv'
    <3>1. /\ pc'[j] \notin {"idle", "execute", "step"} /\ pc[j] = "idle"
          /\ \A k \in Jobs : k # j => pc'[k] = pc[k]
          /\ finished' = finished /\ started' = started /\ cur' = cur
      BY <1>1 DEF Submit, TypeOK
    <3>2. \A i \in 1 .. Len(queue) : queue[i] # j /\ queue'[i] = queue[i]
      BY <1>1, AppendFacts DEF Submit, PlaceInv
    <3>3. /\ Len(queue) \in Nat /\ Len(queue') = Len(queue) + 1
          /\ queue'[Len(queue) + 1] = j
      BY <1>1, AppendFacts DEF Submit
    <3>4. j \notin finished /\ j \notin started
      BY <3>1 DEF PlaceInv
    <3>5. \A k \in Jobs : pc[k] \in {"execute", "step"} =>
             cur[k] \in Jobs /\ cur[k] # j
      BY <3>1 DEF PlaceInv, TypeOK
    <3> QED
      BY <1>0, <3>1, <3>2, <3>3, <3>4, <3>5 DEF PlaceInv
  <2>2. NothingLost'
    <3>1. Queued \subseteq Queued' /\ j \in Queued' /\ finished' = finished
      BY <1>1, QueuedAfterAppend DEF Submit
    <3>2. \A k \in Jobs : k # j => pc'[k] = pc[k]
      BY <1>1 DEF Submit, TypeOK
    <3>3. \A k \in Jobs : pc[k] \in {"execute", "step"} => k # j /\ cur'[k] = cur[k]
      BY <1>1 DEF Submit
    <3> QED
      BY <3>1, <3>2, <3>3 DEF NothingLost
  <2> QED
    BY <2>1, <2>2
<1>2. ASSUME NEW j \in Jobs, Continue(j) PROVE PlaceInv' /\ NothingLost'
  BY <1>2, SamePlace DEF Continue, TypeOK, InHand
<1>3. ASSUME NEW j \in Jobs, StepDown(j) PROVE PlaceInv' /\ NothingLost'
  BY <1>3, SamePlace DEF StepDown, TypeOK, InHand
<1>4. ASSUME NEW j \in Jobs, TakeNothing(j) PROVE PlaceInv' /\ NothingLost'
  BY <1>4, SamePlace DEF TakeNothing, TypeOK, InHand
<1>5. ASSUME NEW j \in Jobs, Take(j) PROVE PlaceInv' /\ NothingLost'
  <2>1. PlaceInv'
    BY TailFacts, <1>0, <1>5 DEF Take, PlaceInv, Queued, TypeOK
  <2>2. NothingLost'
    <3>1. Queued \subseteq Queued' \cup {Head(queue)} /\ finished' = finished
      BY <1>5, QueuedAfterTake DEF Take
    <3>2. pc'[j] = "execute" /\ cur'[j] = Head(queue) /\ pc[j] \notin {"execute", "step", "idle"}
      BY <1>5 DEF Take, TypeOK
    <3>3. \A k \in Jobs : k # j => pc'[k] = pc[k] /\ cur'[k] = cur[k]
      BY <1>5 DEF Take, TypeOK
    <3> QED
      BY <3>1, <3>2, <3>3 DEF NothingLost
  <2> QED
    BY <2>1, <2>2
<1>6. ASSUME NEW j \in Jobs, DropStep(j) PROVE PlaceInv' /\ NothingLost'
  <2>0. /\ pc[j] \in {"execute", "step"} /\ cur[j] \in Jobs
        /\ pc'[j] \in {"drain", "handOff"}
        /\ \A k \in Jobs : k # j => pc'[k] = pc[k]
        /\ cur' = cur /\ queue' = queue /\ started' = started
        /\ finished' = finished \cup {cur[j]}
    BY <1>6 DEF DropStep, Settle, Resume, TypeOK
  <2>1. PlaceInv'
    <3>1. \A i \in 1 .. Len(queue) : queue[i] # cur[j]
      BY <2>0 DEF PlaceInv
    <3>2. \A k \in Jobs : pc[k] \in {"execute", "step"} /\ k # j => cur[k] # cur[j]
      BY <2>0 DEF PlaceInv
    <3>3. \A k \in Jobs : pc'[k] = "idle" <=> pc[k] = "idle"
      BY <2>0
    <3>4. \A k \in Jobs : pc'[k] \in {"execute", "step"} => k # j /\ pc'[k] = pc[k]
      BY <2>0
    <3>5. pc[cur[j]] # "idle"
      BY <2>0 DEF PlaceInv
    <3>6. \A k \in Jobs : pc[k] \in {"execute", "step"} => cur[k] \in Jobs
      BY DEF TypeOK
    <3> QED
      BY <1>0, <2>0, <3>1, <3>2, <3>3, <3>4, <3>5, <3>6 DEF PlaceInv
  <2>2. NothingLost'
    <3>1. Queued' = Queued
      BY <2>0 DEF Queued
    <3> QED
      BY <2>0, <3>1 DEF NothingLost
  <2> QED
    BY <2>1, <2>2
<1>7. ASSUME NEW j \in Jobs, BeginStep(j) PROVE PlaceInv' /\ NothingLost'
  <2>1. PlaceInv'
    BY <1>0, <1>7 DEF BeginStep, PlaceInv, Queued, TypeOK
  <2>2. NothingLost'
    <3>1. Queued' = Queued /\ finished' = finished /\ cur' = cur
      BY <1>7 DEF BeginStep, Queued
    <3>2. /\ pc'[j] = "step" /\ pc[j] = "execute"
          /\ \A k \in Jobs : k # j => pc'[k] = pc[k]
      BY <1>7 DEF BeginStep, TypeOK
    <3> QED
      BY <3>1, <3>2 DEF NothingLost
  <2> QED
    BY <2>1, <2>2
<1>8. ASSUME NEW j \in Jobs, EndStep(j) PROVE PlaceInv' /\ NothingLost'
  <2>0. /\ pc[j] \in {"execute", "step"} /\ cur[j] \in Jobs
        /\ pc'[j] \in {"drain", "handOff"}
        /\ \A k \in Jobs : k # j => pc'[k] = pc[k]
        /\ cur' = cur /\ queue' = queue /\ started' = started
        /\ finished' = finished \cup {cur[j]}
    BY <1>8 DEF EndStep, Settle, Resume, TypeOK
  <2>1. PlaceInv'
    <3>1. \A i \in 1 .. Len(queue) : queue[i] # cur[j]
      BY <2>0 DEF PlaceInv
    <3>2. \A k \in Jobs : pc[k] \in {"execute", "step"} /\ k # j => cur[k] # cur[j]
      BY <2>0 DEF PlaceInv
    <3>3. \A k \in Jobs : pc'[k] = "idle" <=> pc[k] = "idle"
      BY <2>0
    <3>4. \A k \in Jobs : pc'[k] \in {"execute", "step"} => k # j /\ pc'[k] = pc[k]
      BY <2>0
    <3>5. pc[cur[j]] # "idle"
      BY <2>0 DEF PlaceInv
    <3>6. \A k \in Jobs : pc[k] \in {"execute", "step"} => cur[k] \in Jobs
      BY DEF TypeOK
    <3> QED
      BY <1>0, <2>0, <3>1, <3>2, <3>3, <3>4, <3>5, <3>6 DEF PlaceInv
  <2>2. NothingLost'
    <3>1. Queued' = Queued
      BY <2>0 DEF Queued
    <3> QED
      BY <2>0, <3>1 DEF NothingLost
  <2> QED
    BY <2>1, <2>2
<1>9. ASSUME NEW j \in Jobs, PanicStep(j) PROVE PlaceInv' /\ NothingLost'
  <2>1. PlaceInv'
    BY <1>0, <1>9 DEF PanicStep, Settle, PlaceInv, Queued, TypeOK
  <2>2. NothingLost'
    BY <1>0, <1>9 DEF PanicStep, Settle, NothingLost, Queued, TypeOK
  <2> QED
    BY <2>1, <2>2
<1>10. ASSUME NEW j \in Jobs, Abort(j) PROVE PlaceInv' /\ NothingLost'
  <2>0. /\ pc[j] \notin {"idle", "execute", "step"}
        /\ pc'[j] \notin {"idle", "execute", "step"}
        /\ \A k \in Jobs : k # j => pc'[k] = pc[k]
        /\ cur' = cur /\ queue' = <<>> /\ started' = started
        /\ finished' = finished \cup Queued
    BY <1>10 DEF Abort, AbortQueue, TypeOK
  <2>00. \A k \in Jobs : pc'[k] \in {"idle", "execute", "step"} => pc'[k] = pc[k]
    BY <2>0
  <2>000. \A k \in Jobs : pc[k] \in {"idle", "execute", "step"} => pc'[k] = pc[k]
    BY <2>0
  <2>1. PlaceInv'
    <3>1. 1 .. Len(queue') = {}
      BY <2>0
    <3>2. \A k \in Jobs : pc[k] = "idle" => k \notin Queued
      BY DEF PlaceInv, Queued
    <3>3. \A k \in Jobs : pc[k] \in {"execute", "step"} => cur[k] \in Jobs /\ cur[k] \notin Queued
      BY DEF PlaceInv, Queued, TypeOK
    <3>4. \A k \in Jobs : pc'[k] = "idle" => k \notin finished' /\ k \notin started'
      BY <2>0, <2>00, <3>2 DEF PlaceInv
    <3>5. ASSUME NEW k \in Jobs, pc'[k] \in {"execute", "step"}
          PROVE  /\ cur'[k] \notin finished' /\ pc'[cur'[k]] # "idle"
                 /\ \A l \in Jobs : pc'[l] \in {"execute", "step"} /\ cur'[l] = cur'[k]
                                      => l = k
                 /\ pc'[k] = "execute" => cur'[k] \notin started'
      BY <2>0, <2>00, <3>3, <3>5 DEF PlaceInv
    <3> QED
      BY <3>1, <3>4, <3>5 DEF PlaceInv
  <2>2. NothingLost'
    BY <2>0, <2>00, <2>000 DEF NothingLost
  <2> QED
    BY <2>1, <2>2
<1>11. ASSUME NEW j \in Jobs, AbortAgain(j) PROVE PlaceInv' /\ NothingLost'
  <2>0. /\ pc[j] \notin {"idle", "execute", "step"}
        /\ pc'[j] \notin {"idle", "execute", "step"}
        /\ \A k \in Jobs : k # j => pc'[k] = pc[k]
        /\ cur' = cur /\ queue' = <<>> /\ started' = started
        /\ finished' = finished \cup Queued
    BY <1>11 DEF AbortAgain, AbortQueue, TypeOK
  <2>00. \A k \in Jobs : pc'[k] \in {"idle", "execute", "step"} => pc'[k] = pc[k]
    BY <2>0
  <2>000. \A k \in Jobs : pc[k] \in {"idle", "execute", "step"} => pc'[k] = pc[k]
    BY <2>0
  <2>1. PlaceInv'
    <3>1. 1 .. Len(queue') = {}
      BY <2>0
    <3>2. \A k \in Jobs : pc[k] = "idle" => k \notin Queued
      BY DEF PlaceInv, Queued
    <3>3. \A k \in Jobs : pc[k] \in {"execute", "step"} => cur[k] \in Jobs /\ cur[k] \notin Queued
      BY DEF PlaceInv, Queued, TypeOK
    <3>4. \A k \in Jobs : pc'[k] = "idle" => k \notin finished' /\ k \notin started'
      BY <2>0, <2>00, <3>2 DEF PlaceInv
    <3>5. ASSUME NEW k \in Jobs, pc'[k] \in {"execute", "step"}
          PROVE  /\ cur'[k] \notin finished' /\ pc'[cur'[k]] # "idle"
                 /\ \A l \in Jobs : pc'[l] \in {"execute", "step"} /\ cur'[l] = cur'[k]
                                      => l = k
                 /\ pc'[k] = "execute" => cur'[k] \notin started'
      BY <2>0, <2>00, <3>3, <3>5 DEF PlaceInv
    <3> QED
      BY <3>1, <3>4, <3>5 DEF PlaceInv
  <2>2. NothingLost'
    BY <2>0, <2>00, <2>000 DEF NothingLost
  <2> QED
    BY <2>1, <2>2
<1>12. ASSUME NEW j \in Jobs, HandOffNothing(j) PROVE PlaceInv' /\ NothingLost'
  BY <1>12, SamePlace DEF HandOffNothing, TypeOK, InHand
<1>13. ASSUME NEW j \in Jobs, Promote(j) PROVE PlaceInv' /\ NothingLost'
  BY <1>13, SamePlace DEF Promote, TypeOK, InHand
<1>14. ASSUME NEW j \in Jobs, PromoteBlocks(j) PROVE PlaceInv' /\ NothingLost'
  BY <1>14, SamePlace DEF PromoteBlocks, TypeOK, InHand
<1>15. ASSUME NEW j \in Jobs, Sent(j) PROVE PlaceInv' /\ NothingLost'
  BY <1>15, SamePlace DEF Sent, TypeOK, InHand
<1>16. ASSUME NEW j \in Jobs, TakeAbandoned(j) PROVE PlaceInv' /\ NothingLost'
  <2>1. PlaceInv'
    BY TailFacts, <1>0, <1>16 DEF TakeAbandoned, PlaceInv, Queued, TypeOK
  <2>2. NothingLost'
    <3>1. Queued \subseteq Queued' \cup {Head(queue)} /\ finished' = finished
      BY <1>16, QueuedAfterTake DEF TakeAbandoned
    <3>2. pc'[j] = "execute" /\ cur'[j] = Head(queue) /\ pc[j] \notin {"execute", "step", "idle"}
      BY <1>16 DEF TakeAbandoned, TypeOK
    <3>3. \A k \in Jobs : k # j => pc'[k] = pc[k] /\ cur'[k] = cur[k]
      BY <1>16 DEF TakeAbandoned, TypeOK
    <3> QED
      BY <3>1, <3>2, <3>3 DEF NothingLost
  <2> QED
    BY <2>1, <2>2
<1>17. ASSUME NEW j \in Jobs, AwaitDone(j) PROVE PlaceInv' /\ NothingLost'
  BY <1>17, SamePlace DEF AwaitDone, Return, TypeOK, InHand
<1>18. ASSUME NEW j \in Jobs, AwaitLead(j) PROVE PlaceInv' /\ NothingLost'
  BY <1>18, SamePlace DEF AwaitLead, TypeOK, InHand
<1>19. ASSUME NEW j \in Jobs, Lead(j) PROVE PlaceInv' /\ NothingLost'
  BY <1>19, SamePlace DEF Lead, Return, TypeOK, InHand
<1>20. ASSUME NEW j \in Jobs, AwaitCancelled(j) PROVE PlaceInv' /\ NothingLost'
  BY <1>20, SamePlace DEF AwaitCancelled, TypeOK, InHand
<1>21. ASSUME NEW j \in Jobs, Leave(j) PROVE PlaceInv' /\ NothingLost'
  BY <1>21, SamePlace DEF Leave, TypeOK, InHand
<1>22. ASSUME NEW j \in Jobs, LeaveReceive(j) PROVE PlaceInv' /\ NothingLost'
  BY <1>22, SamePlace DEF LeaveReceive, TypeOK, InHand
<1>23. ASSUME NEW j \in Jobs, StoppedOutcome(j) PROVE PlaceInv' /\ NothingLost'
  BY <1>23, SamePlace DEF StoppedOutcome, Return, TypeOK, InHand
<1>24. ASSUME NEW j \in Jobs, Cancel(j) PROVE PlaceInv' /\ NothingLost'
  BY <1>24, SamePlace DEF Cancel, TypeOK, InHand
<1>25. CASE EndLifetime
  BY <1>25, SamePlace DEF EndLifetime, InHand
<1>26. CASE UNCHANGED vars
  BY <1>26, SamePlace DEF vars, InHand
<1> QED
  BY <1>1, <1>2, <1>3, <1>4, <1>5, <1>6, <1>7, <1>8, <1>9, <1>10, <1>11, <1>12,
     <1>13, <1>14, <1>15, <1>16, <1>17, <1>18, <1>19, <1>20, <1>21, <1>22,
     <1>23, <1>24, <1>25, <1>26 DEF Next, Advance, Drain, HandOff, Await,
     Quiescent
-----------------------------------------------------------------------------
(* The theorems.                                                           *)

\* A new sink satisfies the invariant: nothing is queued and nobody drains.
LEMMA InitIInv == Init => IInv
<1> SUFFICES ASSUME Init PROVE IInv
  OBVIOUS
<1>1. TypeOK
  BY InitTypeOK
<1>2. PlaceInv /\ NothingLost
  BY DEF Init, PlaceInv, NothingLost
<1>3. QueueInv
  BY DEF Init, QueueInv, LeadInv, TokenInv, ServeInv, HasLead, Working
<1> QED
  BY <1>1, <1>2, <1>3 DEF IInv

\* Every step keeps the invariant.
LEMMA InvStep ==
  ASSUME IInv, [Next]_vars
  PROVE  IInv'
<1>1. TypeOK'
  BY NextTypeOK DEF IInv
<1>2. PlaceInv' /\ NothingLost'
  BY <1>1, PlaceStep DEF IInv
<1>3. ~reaborted' => ~reaborted
  BY DEF Next, Advance, Drain, HandOff, Await, Quiescent, vars, around, Submit,
    Continue, StepDown, TakeNothing, Take, DropStep, BeginStep, EndStep,
    PanicStep, Abort, AbortAgain, HandOffNothing, Promote, PromoteBlocks,
    Sent, TakeAbandoned, AwaitDone, AwaitLead, Lead, AwaitCancelled, Leave,
    LeaveReceive, StoppedOutcome, Cancel, EndLifetime
<1>4. ~reaborted' => QueueInv'
  BY <1>1, <1>3, QueueInvStep DEF IInv
<1> QED
  BY <1>1, <1>2, <1>4 DEF IInv

\* The inductive invariant, for any number of calls, any budget and any
\* choice of the steps that panic.
THEOREM Invariance == Spec => []IInv
  BY InitIInv, InvStep, PTL DEF Spec

\* Steps of one conversation are mutually exclusive.
THEOREM MutualExclusion == Spec => []StepsNeverOverlap
<1>1. IInv => StepsNeverOverlap
  BY DEF IInv, QueueInv, LeadInv, HasLead, Working, StepsNeverOverlap
<1> QED
  BY <1>1, Invariance, PTL

\* The lead is neither lost nor doubled through promotion, leaving, stepping
\* down and aborting.
THEOREM UniqueLead == Spec => []LeadIsUnique
<1>1. IInv => LeadIsUnique
  BY DEF IInv, QueueInv, LeadInv, LeadIsUnique
<1> QED
  BY <1>1, Invariance, PTL

\* A promotion always finds a waiter that will take it, with its step still to
\* run, and never blocks under the lock.
THEOREM PromotionIsSafe == Spec => []PromotionArrives
<1>1. IInv => PromotionArrives
  <2> SUFFICES ASSUME IInv, ~reaborted PROVE PromotionArrives
    BY DEF PromotionArrives
  <2>1. ASSUME NEW j \in Jobs, j \in promoted PROVE j \notin finished
    BY <2>1, TailFacts DEF IInv, QueueInv, TokenInv, PlaceInv
  <2> QED
    BY <2>1 DEF IInv, QueueInv, TokenInv, PromotionArrives, Unlocked
<1> QED
  BY <1>1, Invariance, PTL

\* A leader that steps down answers nil.
THEOREM LeaderServed == Spec => []LeaderIsServed
<1>1. IInv => LeaderIsServed
  BY DEF IInv, QueueInv, ServeInv, LeaderIsServed
<1> QED
  BY <1>1, Invariance, PTL

\* Whatever panics, no submitted step disappears unsettled.
THEOREM NoStepLost == Spec => []NothingLost
<1>1. IInv => NothingLost
  BY DEF IInv
<1> QED
  BY <1>1, Invariance, PTL

\* Whatever panics, no step is begun twice or after it was settled.
THEOREM StepsRunOnce == Spec => RunsOnce
<1>1. IInv => \A j \in Jobs : pc[j] = "execute" /\ pc'[j] = "step" =>
                 cur[j] \notin started /\ cur[j] \notin finished
  BY DEF IInv, PlaceInv
<1> QED
  BY <1>1, Invariance, PTL DEF RunsOnce

\* A step stays in somebody's hands until it is settled, and is begun once.
THEOREM StepsKept == Spec => StepsAreKept
  BY NoStepLost, StepsRunOnce DEF StepsAreKept
-----------------------------------------------------------------------------
(* The refinement of StepOrder, where no step panics.                      *)

\* The job in hand, as StepOrder sees it.
Hand == {cur[j] : j \in {k \in Jobs : pc[k] \in {"execute", "step"}}}

\* A call that was answered has only a promotion left to pass on.
AnswerInv ==
  \A j \in Jobs : reply[j] # "none" =>
    \/ pc[j] \in {"receive", "returned"}
    \/ pc[j] \in {"handOff", "execute", "step"} /\ next[j] = "returned"

\* Nothing aborts.
CalmInv ==
  /\ ~reaborted
  /\ \A j \in Jobs : pc[j] \notin {"abort", "abortAgain"}

OrderInv == AnswerInv /\ CalmInv

\* The leader has its job in hand, and nobody else has one.
LEMMA HandIsLeaders ==
  ASSUME IInv, CalmInv, NEW j \in Jobs, HasLead(j)
  PROVE  Hand = IF InHand(j) THEN {cur[j]} ELSE {}
<1>1. \A k \in Jobs : InHand(k) => k = j
  BY DEF IInv, QueueInv, LeadInv, CalmInv, HasLead, Working, InHand
<1> QED BY <1>1 DEF Hand, InHand

\* A step that neither takes a job in hand nor puts one down.
LEMMA SameHand ==
  ASSUME \A k \in Jobs : /\ InHand(k)' <=> InHand(k)
                         /\ InHand(k) => cur'[k] = cur[k]
  PROVE  Hand' = Hand
BY DEF Hand, InHand

\* What is begun, dropped or taken is in the hands of somebody.
LEMMA HandStep ==
  ASSUME IInv, CalmInv, NEW j \in Jobs, NEW place \in Places,
         pc' = [pc EXCEPT ![j] = place],
         \A k \in Jobs : k # j => cur'[k] = cur[k], HasLead(j)
  PROVE  Hand' = IF place \in {"execute", "step"} THEN {cur'[j]} ELSE {}
<1>1. \A k \in Jobs : InHand(k) => k = j
  BY DEF IInv, QueueInv, LeadInv, CalmInv, HasLead, Working, InHand
<1>2. pc'[j] = place /\ \A k \in Jobs : k # j => pc'[k] = pc[k]
  BY DEF IInv, TypeOK
<1>3. \A k \in Jobs : InHand(k)' => k = j
  BY <1>1, <1>2 DEF InHand
<1> QED BY <1>2, <1>3 DEF Hand, InHand

\* Every step leaves calls answered once, and nothing aborted.
LEMMA OrderInvStep ==
  ASSUME Faulty = {}, IInv, OrderInv, [Next]_vars
  PROVE  OrderInv'
<1> USE DEF IInv, TypeOK, OrderInv
<1>1. CalmInv'
  <2>1. \A j \in Jobs : ~PanicStep(j) /\ ~Abort(j) /\ ~AbortAgain(j)
    BY DEF PanicStep, Abort, AbortAgain, CalmInv
  <2>2. reaborted' = reaborted
    BY <2>1 DEF Next, Advance, Drain, HandOff, Await, Quiescent, vars, around,
       Submit, Continue, StepDown, TakeNothing, Take, DropStep, BeginStep,
       EndStep, HandOffNothing, Promote, PromoteBlocks, Sent, TakeAbandoned,
       AwaitDone, AwaitLead, Lead, AwaitCancelled, Leave, LeaveReceive,
       StoppedOutcome, Cancel, EndLifetime
  <2>3. \/ pc' = pc
        \/ \E j \in Jobs, place \in Places \ {"abort", "abortAgain"} :
             pc' = [pc EXCEPT ![j] = place]
    BY <2>1 DEF Next, Advance, Drain, HandOff, Await, Quiescent, vars, callVars,
       Submit, Continue, StepDown, TakeNothing, Take, DropStep, BeginStep,
       EndStep, HandOffNothing, Promote, PromoteBlocks, Sent, TakeAbandoned,
       AwaitDone, AwaitLead, Lead, AwaitCancelled, Leave, LeaveReceive,
       StoppedOutcome, Cancel, EndLifetime, Return, Resume, Goto, AfterLeave,
       Places
  <2> QED BY <2>2, <2>3 DEF CalmInv
<1>2. AnswerInv'
  \* Only the step of a call changes where it is.
  <2>1. ASSUME NEW j \in Jobs,
               \A k \in Jobs : k # j => /\ reply'[k] = reply[k]
                                        /\ pc'[k] = pc[k] /\ next'[k] = next[k],
               reply'[j] # "none" =>
                 \/ pc'[j] \in {"receive", "returned"}
                 \/ pc'[j] \in {"handOff", "execute", "step"}
                    /\ next'[j] = "returned"
        PROVE  AnswerInv'
    BY <2>1 DEF AnswerInv
  <2>2. ASSUME NEW j \in Jobs,
               \/ Submit(j) \/ Continue(j) \/ StepDown(j) \/ TakeNothing(j)
               \/ Take(j) \/ AwaitLead(j) \/ AwaitCancelled(j)
        PROVE  AnswerInv'
    <3>1. reply[j] = "none"
      BY <2>2 DEF Submit, Continue, StepDown, TakeNothing, Take, AwaitLead,
                  AwaitCancelled, AnswerInv
    <3>2. /\ reply' = reply
          /\ \A k \in Jobs : k # j => pc'[k] = pc[k] /\ next'[k] = next[k]
      BY <2>2 DEF Submit, Continue, StepDown, TakeNothing, Take, AwaitLead,
                  AwaitCancelled, Goto, Pop
    <3> QED BY <2>1, <3>1, <3>2
  <2>3. ASSUME NEW j \in Jobs, DropStep(j) \/ EndStep(j)
        PROVE  AnswerInv'
    BY <2>1, <2>3 DEF DropStep, EndStep, Resume, Goto, AnswerInv
  <2>4. ASSUME NEW j \in Jobs, BeginStep(j) \/ TakeAbandoned(j) \/ LeaveReceive(j)
        PROVE  AnswerInv'
    BY <2>1, <2>4 DEF BeginStep, TakeAbandoned, LeaveReceive, Goto, Pop,
                      AnswerInv
  <2>5. ASSUME NEW j \in Jobs, HandOffNothing(j) \/ Promote(j)
        PROVE  AnswerInv'
    BY <2>1, <2>5 DEF HandOffNothing, Promote, Goto, AnswerInv
  <2>6. ASSUME NEW j \in Jobs, AwaitDone(j) \/ Leave(j) \/ StoppedOutcome(j)
        PROVE  AnswerInv'
    BY <2>1, <2>6 DEF AwaitDone, Leave, StoppedOutcome, Return, Goto,
                      AfterLeave
  <2>7. ASSUME NEW j \in Jobs, Lead(j)
        PROVE  AnswerInv'
    BY <2>1, <2>7 DEF Lead, Return, Goto, AnswerInv
  <2>8. CASE EndLifetime \/ Quiescent \/ UNCHANGED vars
              \/ \E j \in Jobs : Cancel(j)
    BY <2>8 DEF EndLifetime, Quiescent, vars, Cancel, callVars, AnswerInv
  <2>9. \A j \in Jobs : /\ ~PanicStep(j) /\ ~Abort(j) /\ ~AbortAgain(j)
                        /\ ~PromoteBlocks(j) /\ ~Sent(j)
    <3>1. QueueInv /\ QueueInv'
      <4>1. IInv'
        BY InvStep
      <4> QED BY <1>1, <4>1 DEF CalmInv
    <3>2. \A j \in Jobs : pc[j] # "sending" /\ pc'[j] # "sending"
      BY <3>1 DEF QueueInv, TokenInv
    <3> QED BY <3>2 DEF PanicStep, Abort, AbortAgain, PromoteBlocks, Sent,
                        CalmInv, Goto, Places
  <2> QED BY <2>2, <2>3, <2>4, <2>5, <2>6, <2>7, <2>8, <2>9
          DEF Next, Advance, Drain, HandOff, Await
<1> QED BY <1>1, <1>2

\* Every step of the queue is a step of StepOrder, or none.
LEMMA OrderStep ==
  ASSUME Faulty = {}, IInv, OrderInv, [Next]_vars
  PROVE  [Order!Next]_(Order!vars)
<1> USE DEF IInv, TypeOK, OrderInv, Goto, Places
<1> DEFINE Same == queue' = queue /\ Hand' = Hand /\ started' = started
                   /\ finished' = finished /\ reply' = reply
<1>0. Same => UNCHANGED Order!vars
  BY DEF Order!vars, Hand
<1>1. ASSUME NEW j \in Jobs, Submit(j)
      PROVE  Order!Accept(j)
  <2>1. Hand' = Hand
    <3>1. ~InHand(j) /\ ~InHand(j)'
      BY <1>1 DEF Submit, InHand, Leads
    <3> QED BY <1>1, <3>1, SameHand DEF Submit, InHand
  <2>2. j \notin Hand \cup finished /\ \A i \in DOMAIN queue : queue[i] # j
    <3>1. DOMAIN queue = 1 .. Len(queue)
      OBVIOUS
    <3> QED BY <1>1, <3>1 DEF Submit, PlaceInv, Hand
  <2>3. queue' = Append(queue, j) /\ UNCHANGED <<started, finished, reply>>
    BY <1>1 DEF Submit, around
  <2> QED BY <2>1, <2>2, <2>3 DEF Order!Accept, Hand
<1>2. ASSUME NEW j \in Jobs, Take(j) \/ TakeAbandoned(j)
      PROVE  Order!TakeFirst
  <2>1. HasLead(j) /\ ~InHand(j)
    BY <1>2 DEF Take, TakeAbandoned, HasLead, Working, InHand
  <2>2. Hand = {}
    BY <2>1, HandIsLeaders
  <2>3. Hand' = {cur'[j]}
    <3>1. pc' = [pc EXCEPT ![j] = "execute"]
          /\ \A k \in Jobs : k # j => cur'[k] = cur[k]
      BY <1>2 DEF Take, TakeAbandoned, Pop
    <3> QED BY <2>1, <3>1, HandStep
  <2>4. cur'[j] = Head(queue) /\ queue' = Tail(queue) /\ queue # <<>>
        /\ UNCHANGED <<started, finished, reply>>
    BY <1>2 DEF Take, TakeAbandoned, Pop, jobVars, around
  <2> QED BY <2>2, <2>3, <2>4 DEF Order!TakeFirst, Hand
<1>3. ASSUME NEW j \in Jobs, NEW i \in Jobs, i = cur[j], BeginStep(j)
      PROVE  Order!Begin(i)
  <2>1. HasLead(j) /\ InHand(j)
    BY <1>3 DEF BeginStep, HasLead, Working, InHand
  <2>2. Hand = {i} /\ i \notin started
    BY <1>3, <2>1, HandIsLeaders DEF BeginStep, PlaceInv
  <2>3. Hand' = Hand
    <3>1. pc' = [pc EXCEPT ![j] = "step"] /\ cur' = cur
      BY <1>3 DEF BeginStep
    <3> QED BY <1>3, <2>1, <2>2, <3>1, HandStep
  <2>4. started' = started \cup {i} /\ UNCHANGED <<queue, finished, reply>>
    BY <1>3 DEF BeginStep, jobVars
  <2> QED BY <2>2, <2>3, <2>4 DEF Order!Begin, Hand
<1>4. ASSUME NEW j \in Jobs, NEW i \in Jobs, i = cur[j],
             DropStep(j) \/ EndStep(j)
      PROVE  Order!Conclude(i)
  <2>1. HasLead(j) /\ InHand(j)
    BY <1>4 DEF DropStep, EndStep, HasLead, Working, InHand
  <2>2. Hand = {i}
    BY <1>4, <2>1, HandIsLeaders
  <2>3. Hand' = {}
    <3>1. PICK place \in {"drain", "handOff"} : pc' = [pc EXCEPT ![j] = place]
      BY <1>4 DEF DropStep, EndStep, Resume
    <3>2. cur' = cur
      BY <1>4 DEF DropStep, EndStep
    <3> QED BY <2>1, <3>1, <3>2, HandStep
  <2>4. finished' = finished \cup {i} /\ UNCHANGED <<queue, started, reply>>
    BY <1>4 DEF DropStep, EndStep, Settle, around
  <2> QED BY <2>2, <2>3, <2>4 DEF Order!Conclude, Hand
\* A step that touches no job in hand.
<1>5. ASSUME NEW j \in Jobs, NEW place \in Places \ {"execute", "step"},
             pc' = [pc EXCEPT ![j] = place], ~InHand(j), cur' = cur
      PROVE  Hand' = Hand
  BY <1>5, SameHand DEF InHand
<1>6. ASSUME NEW j \in Jobs,
             \/ AwaitDone(j) \/ Leave(j) \/ StoppedOutcome(j)
             \/ Lead(j) /\ j \in finished
      PROVE  Order!Answer(j)
  <2>1. reply[j] = "none"
    BY <1>6 DEF AwaitDone, Leave, StoppedOutcome, Lead, AnswerInv
  <2>2. /\ UNCHANGED <<queue, finished, started, cur>> /\ ~InHand(j)
        /\ \E place \in Places \ {"execute", "step"} :
             pc' = [pc EXCEPT ![j] = place]
    BY <1>6 DEF AwaitDone, Leave, StoppedOutcome, Lead, Return, AfterLeave,
                InHand, jobVars, around
  <2>3. Hand' = Hand
    BY <1>5, <2>2
  <2>4. reply' = [reply EXCEPT ![j] = IF j \in finished THEN "ok" ELSE "gaveUp"]
    BY <1>6 DEF AwaitDone, Leave, StoppedOutcome, Lead, Return
  <2> QED BY <2>1, <2>2, <2>3, <2>4 DEF Order!Answer, Hand
<1>7. ASSUME NEW j \in Jobs,
             \/ Continue(j) \/ StepDown(j) \/ TakeNothing(j)
             \/ HandOffNothing(j) \/ Promote(j) \/ AwaitLead(j)
             \/ Lead(j) /\ j \notin finished
             \/ AwaitCancelled(j) \/ LeaveReceive(j)
      PROVE  Same
  <2>1. /\ UNCHANGED <<queue, finished, started, reply, cur>> /\ ~InHand(j)
        /\ \E place \in Places \ {"execute", "step"} :
             pc' = [pc EXCEPT ![j] = place]
    BY <1>7 DEF Continue, StepDown, TakeNothing, HandOffNothing, Promote,
                AwaitLead, Lead, AwaitCancelled, LeaveReceive, InHand,
                jobVars, around
  <2> QED BY <1>5, <2>1
<1>8. CASE EndLifetime \/ Quiescent \/ UNCHANGED vars \/ \E j \in Jobs : Cancel(j)
  <2>1. UNCHANGED <<queue, finished, started, callVars>>
    BY <1>8 DEF EndLifetime, Quiescent, vars, Cancel, around, jobVars
  <2>2. Hand' = Hand
    BY <2>1 DEF callVars, Hand
  <2> QED BY <1>0, <2>1, <2>2 DEF callVars
<1>9. \A j \in Jobs : /\ ~PanicStep(j) /\ ~Abort(j) /\ ~AbortAgain(j)
                      /\ ~PromoteBlocks(j) /\ ~Sent(j)
  <2>1. IInv' /\ CalmInv'
    BY InvStep, OrderInvStep
  <2>2. \A j \in Jobs : pc[j] # "sending" /\ pc'[j] # "sending"
    BY <2>1 DEF QueueInv, TokenInv, CalmInv
  <2> QED BY <2>2 DEF PanicStep, Abort, AbortAgain, PromoteBlocks, Sent,
                      CalmInv
<1>10. \A j \in Jobs : InHand(j) => cur[j] \in Jobs
  BY DEF InHand
<1>11. ASSUME NEW j \in Jobs, BeginStep(j) \/ DropStep(j) \/ EndStep(j)
       PROVE  Order!Next
  <2>1. PICK i \in Jobs : i = cur[j]
    BY <1>10, <1>11 DEF BeginStep, DropStep, EndStep, InHand
  <2> QED BY <1>3, <1>4, <1>11, <2>1 DEF Order!Next
<1>12. ASSUME NEW j \in Jobs, Advance(j)
       PROVE  Order!Next \/ Same
  BY <1>2, <1>6, <1>7, <1>9, <1>11, <1>12
     DEF Advance, Drain, HandOff, Await, Order!Next
<1> QED BY <1>0, <1>1, <1>8, <1>12 DEF Next, Order!Next

\* Where no step panics the queue is the abstract one: one step at a time, in
\* the order of submission, each begun at most once, every call answered once.
\* (What must happen in the end is left to the runs.)
THEOREM Refinement ==
  ASSUME Faulty = {}
  PROVE  Spec => Order!Safety
<1>1. Init => Order!Init /\ OrderInv
  BY DEF Init, Order!Init, OrderInv, AnswerInv, CalmInv
<1>2. IInv /\ OrderInv /\ [Next]_vars => OrderInv'
  BY OrderInvStep
<1>3. IInv /\ OrderInv /\ [Next]_vars => [Order!Next]_(Order!vars)
  BY OrderStep
<1> QED BY Invariance, <1>1, <1>2, <1>3, PTL DEF Spec, Order!Safety
=============================================================================
