---------------------------- MODULE GatewayProofs ----------------------------
(***************************************************************************)
(* Theorems of Socket and Gateway: the safety of the websocket client, how *)
(* long it backs off, and that the runtime runs it and nothing else.  They *)
(* hold for any number of slots, connections, close codes and calls of     *)
(* Close.                                                                  *)
(***************************************************************************)
EXTENDS Gateway, FiniteSetTheorems, TLAPS

\* The places in which session has a connection.
InSession == {"hello", "identify", "read", "full", "unbeat", "close"}

\* Where a connection is open, and that it has a number.
Connected ==
  /\ open => pc \in InSession
  /\ pc \in InSession => conn # 0

\* What the last error says of the next try.
Finality ==
  /\ pc \in {"new", "dial", "backoff"} => verdict \notin permanentCloseCodes
  /\ pc \in {"wait", "done"} /\ on => verdict \in permanentCloseCodes

\* There are handlers only between the first connection and the return.
Peopled == pc \in {"new", "done"} => workers = 0

SocketInv ==
  /\ SocketTypeOK /\ OneHeartbeat /\ AckIsOwn /\ SlotsAreCounted
  /\ Connected /\ Finality /\ Peopled

-----------------------------------------------------------------------------
\* The first state of the client.
LEMMA SocketInitHolds == SocketInit => SocketInv
<1> SUFFICES ASSUME SocketInit PROVE SocketInv
  OBVIOUS
<1>1. SocketTypeOK
  <2>1. /\ 1 \in 1 .. MaxBackoff /\ 0 \in 0 .. MaxLosses /\ 0 \in 0 .. Conns
        /\ 0 \in 0 .. MaxInFlight /\ 0 \in 0 .. MaxWorkers
    BY SocketAssumption DEF SocketAssumption
  <2> QED BY <2>1, SocketAssumption
          DEF SocketInit, SocketTypeOK, SocketAssumption, Places
<1> QED BY <1>1 DEF SocketInit, SocketInv, OneHeartbeat, AckIsOwn,
                    SlotsAreCounted, Connected, Finality, Peopled, InSession,
                    permanentCloseCodes

\* The steps of run, of the handlers and of the outside keep the types.
LEMMA TypesKept ==
  ASSUME SocketInv,
         Run \/ RunStep \/ HandlerEnds \/ WorkerLeaves \/ FallSilent \/ ContextEnds
  PROVE  SocketTypeOK'
<1> USE SocketAssumption DEF SocketInv, SocketTypeOK, SocketAssumption, Places,
      link, pulse, retry, pool
<1>1. CASE Run
  BY <1>1 DEF Run, BeginRun, NextRound
<1>2. CASE AfterSession
  BY <1>2 DEF AfterSession, Retries
<1>3. CASE WaitedOut
  BY <1>3 DEF WaitedOut, NextRound, NextBackoff
<1>4. CASE WaitCut
  BY <1>4 DEF WaitCut
<1>5. CASE Return
  BY <1>5 DEF Return, WorkersGone
<1>6. CASE Dial
  <2>1. (conn % Conns) + 1 \in 0 .. Conns
    BY SocketAssumption DEF SocketAssumption, SocketTypeOK
  <2> QED BY <1>6, <2>1 DEF Dial
<1>7. CASE DialFails
  BY <1>7 DEF DialFails
<1>8. CASE Hello
  BY <1>8 DEF Hello
<1>9. CASE HandshakeFails
  BY <1>9 DEF HandshakeFails
<1>10. CASE Identify
  <2>1. 1 \in 1 .. MaxBackoff /\ 0 \in 0 .. MaxLosses
    BY SocketAssumption DEF SocketAssumption
  <2>2. beat' \in [1 .. Conns -> {"off", "ticking", "swapped", "failed"}]
    BY <1>10 DEF Identify
  <2> QED BY <1>10, <2>1, <2>2
          DEF Identify, BackoffOnceConnected, AckedAtStart
<1>11. CASE Event
  BY <1>11 DEF Event, Readable
<1>12. CASE Nothing
  BY <1>12 DEF Nothing, Readable
<1>13. CASE Acknowledged
  BY <1>13 DEF Acknowledged, Readable
<1>14. CASE AskedAway
  BY <1>14 DEF AskedAway, Readable
<1>15. CASE ReadFails
  BY <1>15 DEF ReadFails
<1>16. CASE Handle
  BY <1>16 DEF Handle
<1>17. CASE HandleNot
  BY <1>17 DEF HandleNot
<1>18. CASE StopBeat
  BY <1>18 DEF StopBeat
<1>19. CASE BeatStopped
  BY <1>19 DEF BeatStopped, BeatGone
<1>20. CASE Close
  BY <1>20 DEF Close
<1>21. CASE HandlerEnds
  BY <1>21 DEF HandlerEnds, SlotGivenBack
<1>22. CASE WorkerLeaves
  BY <1>22 DEF WorkerLeaves, OutOfGroup
<1>23. CASE FallSilent
  BY <1>23 DEF FallSilent
<1>24. CASE ContextEnds
  BY <1>24 DEF ContextEnds
<1> QED BY <1>1, <1>2, <1>3, <1>4, <1>5, <1>6, <1>7, <1>8, <1>9, <1>10,
           <1>11, <1>12, <1>13, <1>14, <1>15, <1>16, <1>17, <1>18, <1>19,
           <1>20, <1>21, <1>22, <1>23, <1>24 DEF RunStep

\* And the other parts of the invariant.
LEMMA PartsKept ==
  ASSUME SocketInv,
         Run \/ RunStep \/ HandlerEnds \/ WorkerLeaves \/ FallSilent \/ ContextEnds
  PROVE  /\ OneHeartbeat' /\ AckIsOwn' /\ SlotsAreCounted'
         /\ Connected' /\ Finality' /\ Peopled'
<1> USE SocketAssumption DEF SocketInv, SocketTypeOK, SocketAssumption, Places,
      InSession, OneHeartbeat, AckIsOwn, SlotsAreCounted, Connected, Finality,
      Peopled, permanentCloseCodes, link, pulse, retry, pool
<1>1. CASE Run
  BY <1>1 DEF Run, BeginRun, NextRound
<1>2. CASE AfterSession
  BY <1>2 DEF AfterSession, Retries
<1>3. CASE WaitedOut
  BY <1>3 DEF WaitedOut, NextRound, NextBackoff
<1>4. CASE WaitCut
  BY <1>4 DEF WaitCut
<1>5. CASE Return
  BY <1>5 DEF Return, WorkersGone
<1>6. CASE Dial
  BY <1>6 DEF Dial
<1>7. CASE DialFails
  BY <1>7 DEF DialFails
<1>8. CASE Hello
  BY <1>8 DEF Hello
<1>9. CASE HandshakeFails
  BY <1>9 DEF HandshakeFails
<1>10. CASE Identify
  BY <1>10 DEF Identify, BackoffOnceConnected, AckedAtStart
<1>11. CASE Event
  BY <1>11 DEF Event, Readable
<1>12. CASE Nothing
  BY <1>12 DEF Nothing, Readable
<1>13. CASE Acknowledged
  BY <1>13 DEF Acknowledged, Readable
<1>14. CASE AskedAway
  BY <1>14 DEF AskedAway, Readable
<1>15. CASE ReadFails
  BY <1>15 DEF ReadFails
<1>16. CASE Handle
  BY <1>16 DEF Handle
<1>17. CASE HandleNot
  BY <1>17 DEF HandleNot
<1>18. CASE StopBeat
  BY <1>18 DEF StopBeat
<1>19. CASE BeatStopped
  BY <1>19 DEF BeatStopped, BeatGone
<1>20. CASE Close
  BY <1>20 DEF Close
<1>21. CASE HandlerEnds
  BY <1>21 DEF HandlerEnds, SlotGivenBack
<1>22. CASE WorkerLeaves
  BY <1>22 DEF WorkerLeaves, OutOfGroup
<1>23. CASE FallSilent
  BY <1>23 DEF FallSilent
<1>24. CASE ContextEnds
  BY <1>24 DEF ContextEnds
<1> QED BY <1>1, <1>2, <1>3, <1>4, <1>5, <1>6, <1>7, <1>8, <1>9, <1>10,
           <1>11, <1>12, <1>13, <1>14, <1>15, <1>16, <1>17, <1>18, <1>19,
           <1>20, <1>21, <1>22, <1>23, <1>24 DEF RunStep

\* The heartbeat.
LEMMA BeatKeeps ==
  ASSUME SocketInv, NEW c \in 1 .. Conns, HeartbeatStep(c)
  PROVE  SocketInv'
<1> USE DEF SocketInv, SocketTypeOK, InSession, OneHeartbeat, AckIsOwn,
      SlotsAreCounted, Connected, Finality, Peopled, Beats,
      link, pulse, retry, pool
<1>1. CASE Tick(c)
  BY <1>1 DEF Tick, AckedOnceSwapped
<1>2. CASE Written(c)
  BY <1>2 DEF Written, Told
<1>3. CASE WriteFails(c)
  BY <1>3 DEF WriteFails
<1>4. CASE CloseUnacked(c)
  BY <1>4 DEF CloseUnacked
<1>5. CASE BeatEnds(c)
  BY <1>5 DEF BeatEnds, Told
<1> QED BY <1>1, <1>2, <1>3, <1>4, <1>5 DEF HeartbeatStep

LEMMA SocketStutter ==
  ASSUME SocketInv, UNCHANGED socketVars
  PROVE  SocketInv'
BY DEF SocketInv, SocketTypeOK, OneHeartbeat, AckIsOwn, SlotsAreCounted,
       Connected, Finality, Peopled, socketVars, link, pulse, retry, pool

\* The inductive invariant of the websocket client.
THEOREM SocketInvariance == SocketSpec => []SocketInv
<1>1. SocketInv /\ [SocketNext]_socketVars => SocketInv'
  <2> SUFFICES ASSUME SocketInv, [SocketNext]_socketVars PROVE SocketInv'
    OBVIOUS
  <2>1. CASE Run \/ RunStep \/ HandlerEnds \/ WorkerLeaves \/ FallSilent
             \/ ContextEnds
    BY <2>1, TypesKept, PartsKept DEF SocketInv
  <2>2. ASSUME NEW c \in 1 .. Conns, HeartbeatStep(c) PROVE SocketInv'
    BY <2>2, BeatKeeps
  <2>3. CASE UNCHANGED socketVars
    BY <2>3, SocketStutter
  <2> QED BY <2>1, <2>2, <2>3 DEF SocketNext, ClientStep
<1> QED BY <1>1, SocketInitHolds, PTL DEF SocketSpec

-----------------------------------------------------------------------------
\* No heartbeat outlives its connection, for any number of them (session,
\* stopHeartbeat).
THEOREM HeartbeatIsAlone == SocketSpec => []OneHeartbeat
<1>1. SocketInv => OneHeartbeat
  BY DEF SocketInv
<1> QED BY <1>1, SocketInvariance, PTL

\* A connection is never given up for what an earlier one left unacknowledged
\* (the reset of w.acked in session).
THEOREM AckBelongs == SocketSpec => []AckIsOwn
<1>1. SocketInv => AckIsOwn
  BY DEF SocketInv
<1> QED BY <1>1, SocketInvariance, PTL

\* When run has returned nothing of it is left (run, bounded).
LEMMA InvReturns == SocketInv => ReturnsAlone
<1> SUFFICES ASSUME SocketInv PROVE ReturnsAlone
  OBVIOUS
<1>1. ASSUME pc = "done"
      PROVE  /\ workers = 0 /\ permits = 0 /\ ~open
             /\ \A c \in 1 .. Conns : beat[c] = "off"
  BY <1>1 DEF SocketInv, SocketTypeOK, Peopled, SlotsAreCounted, Connected,
              InSession, OneHeartbeat
<1> QED BY <1>1 DEF SocketInv, Finality, ReturnsAlone

THEOREM ReturnIsComplete == SocketSpec => []ReturnsAlone
<1> QED BY InvReturns, SocketInvariance, PTL

\* A close src/README.md calls fatal is the last of its runtime (session, run).
THEOREM RefusedForGood == SocketSpec => RefusedIsFinal
<1>1. SocketInv /\ [SocketNext]_socketVars =>
        [(verdict \in Fatal) => (pc' # "dial")]_socketVars
  <2> SUFFICES ASSUME SocketInv, SocketNext, verdict \in Fatal, pc' = "dial"
               PROVE  FALSE
    OBVIOUS
  <2>1. verdict \in permanentCloseCodes
    BY DEF Fatal, permanentCloseCodes
  <2>2. pc \notin {"new", "dial", "backoff"}
    BY <2>1 DEF SocketInv, Finality
  <2>3. CASE Run
    BY <2>2, <2>3 DEF Run
  <2>4. CASE RunStep
    BY <2>2, <2>4 DEF RunStep, AfterSession, WaitedOut, WaitCut, Return, Dial,
         DialFails, Hello, HandshakeFails, Identify, Event, Nothing,
         Acknowledged, AskedAway, ReadFails, Handle, HandleNot, StopBeat,
         BeatStopped, Close
  <2>5. CASE HandlerEnds \/ WorkerLeaves \/ FallSilent \/ ContextEnds
    BY <2>2, <2>5 DEF HandlerEnds, WorkerLeaves, FallSilent, ContextEnds
  <2>6. ASSUME NEW c \in 1 .. Conns, HeartbeatStep(c) PROVE FALSE
    BY <2>2, <2>6 DEF HeartbeatStep, Tick, Written, WriteFails, CloseUnacked,
                      BeatEnds
  <2> QED BY <2>3, <2>4, <2>5, <2>6 DEF SocketNext, ClientStep
<1> QED BY <1>1, SocketInvariance, PTL DEF SocketSpec, RefusedIsFinal

-----------------------------------------------------------------------------
(* The wait between two tries.                                             *)

\* A power of two is the number of subsets of a set: the provers know it so.
LEMMA PowerOfTwo ==
  ASSUME NEW n \in Nat
  PROVE  /\ IsFiniteSet(SUBSET (1 .. n)) /\ Cardinality(SUBSET (1 .. n)) = 2 ^ n
         /\ 2 ^ n \in Nat
<1>1. IsFiniteSet(1 .. n) /\ Cardinality(1 .. n) = n
  BY FS_Interval
<1>2. IsFiniteSet(SUBSET (1 .. n)) /\ Cardinality(SUBSET (1 .. n)) = 2 ^ n
  BY <1>1, FS_SUBSET
<1> QED BY <1>2, FS_CardinalityType

\* A set with one element more has twice as many.
LEMMA PowerDoubles ==
  ASSUME NEW n \in Nat
  PROVE  2 ^ (n + 1) = 2 * 2 ^ n
<1> DEFINE without == SUBSET (1 .. n)
           with == (SUBSET (1 .. n + 1)) \ without
           f == [s \in without |-> s \cup {n + 1}]
<1>1. f \in Bijection(without, with)
  <2>1. \A s \in without : n + 1 \notin s
    OBVIOUS
  <2>2. \A s \in without : f[s] \in with
    OBVIOUS
  <2>3. \A s, t \in without : f[s] = f[t] => s = t
    BY <2>1
  <2>4. \A s \in with : \E t \in without : f[t] = s
    <3> TAKE s \in with
    <3>1. n + 1 \in s /\ s \ {n + 1} \in without
      OBVIOUS
    <3>2. f[s \ {n + 1}] = s
      BY <3>1
    <3> QED BY <3>1, <3>2
  <2> HIDE DEF with, without
  <2> QED BY <2>2, <2>3, <2>4 DEF Bijection, Injection, Surjection, IsInjective
<1>2. without \cup with = SUBSET (1 .. n + 1) /\ without \cap with = {}
  OBVIOUS
<1>3. IsFiniteSet(without) /\ Cardinality(without) = 2 ^ n
  BY PowerOfTwo
<1>4. IsFiniteSet(without \cup with) /\ Cardinality(without \cup with) = 2 ^ (n + 1)
  BY <1>2, PowerOfTwo
<1> HIDE DEF with, without
<1>5. IsFiniteSet(with) /\ Cardinality(with) = 2 ^ n
  BY <1>1, <1>3, FS_Bijection DEF ExistsBijection
<1>6. Cardinality(without \cup with) = 2 ^ n + 2 ^ n - Cardinality({})
  BY <1>2, <1>3, <1>5, FS_Union
<1>7. Cardinality({}) = 0
  BY FS_EmptySet
<1> QED BY <1>4, <1>6, <1>7, PowerOfTwo

\* Two steps touch the wait: the end of one, and an identify that went through.
LEMMA BackoffMoves ==
  ASSUME SocketNext \/ UNCHANGED socketVars
  PROVE  \/ UNCHANGED <<backoff, losses>>
         \/ WaitedOut
         \/ Identify
<1>1. CASE Run \/ HandlerEnds \/ WorkerLeaves \/ FallSilent \/ ContextEnds
  BY <1>1 DEF Run, BeginRun, HandlerEnds, WorkerLeaves, FallSilent, ContextEnds,
       retry
<1>2. CASE RunStep
  BY <1>2 DEF RunStep, AfterSession, WaitCut, Return, Dial, DialFails, Hello,
       HandshakeFails, Event, Nothing, Acknowledged, AskedAway, ReadFails,
       Handle, HandleNot, StopBeat, BeatStopped, Close, retry
<1>3. ASSUME NEW c \in 1 .. Conns, HeartbeatStep(c)
      PROVE  UNCHANGED <<backoff, losses>>
  BY <1>3 DEF HeartbeatStep, Tick, Written, WriteFails, CloseUnacked, BeatEnds,
       retry
<1>4. CASE UNCHANGED socketVars
  BY <1>4 DEF socketVars, retry
<1> QED BY <1>1, <1>2, <1>3, <1>4 DEF SocketNext, ClientStep

LEMMA BackoffStep ==
  ASSUME SocketInv, BackoffFollowsLosses, [SocketNext]_socketVars
  PROVE  BackoffFollowsLosses'
<1> USE DEF BackoffFollowsLosses, Lesser
<1>1. CASE UNCHANGED <<backoff, losses>>
  BY <1>1
<1>2. CASE WaitedOut
  <2> SUFFICES ASSUME losses' < MaxLosses
               PROVE  backoff' = Lesser(MaxBackoff, 2 ^ losses')
    OBVIOUS
  <2>1. losses \in Nat /\ MaxLosses \in Nat /\ MaxBackoff \in Nat /\ MaxBackoff > 0
    BY SocketAssumption DEF SocketAssumption, SocketInv, SocketTypeOK
  <2>2. losses < MaxLosses /\ losses' = losses + 1
    BY <1>2, <2>1 DEF WaitedOut
  <2>3. backoff' = IF 2 * backoff > MaxBackoff THEN MaxBackoff ELSE 2 * backoff
    BY <1>2 DEF WaitedOut, NextBackoff
  <2> DEFINE power == 2 ^ losses
  <2>4. power \in Nat /\ 2 ^ losses' = 2 * power
    BY <2>1, <2>2, PowerOfTwo, PowerDoubles
  <2>5. backoff = Lesser(MaxBackoff, power)
    BY <2>2
  <2> HIDE DEF power
  <2> QED BY <2>1, <2>3, <2>4, <2>5
<1>3. CASE Identify
  <2>1. backoff' = 1 /\ losses' = 0
    BY <1>3 DEF Identify, BackoffOnceConnected
  <2>2. 2 ^ 0 = 1
    OBVIOUS
  <2>3. Lesser(MaxBackoff, 1) = 1
    BY SocketAssumption DEF SocketAssumption
  <2> QED BY <2>1, <2>2, <2>3
<1> QED BY <1>1, <1>2, <1>3, BackoffMoves

\* However many connections are lost in a row, the wait is the power of two their
\* number says, up to the cap, and starts over with the next one that
\* identified (run, session, nextBackoff).
THEOREM BackoffDoubles == SocketSpec => []BackoffFollowsLosses
<1>1. SocketInit => BackoffFollowsLosses
  <2> SUFFICES ASSUME SocketInit PROVE backoff = Lesser(MaxBackoff, 2 ^ losses)
    BY DEF BackoffFollowsLosses
  <2>1. backoff = 1 /\ losses = 0 /\ 2 ^ 0 = 1
    BY DEF SocketInit
  <2>2. Lesser(MaxBackoff, 1) = 1
    BY SocketAssumption DEF SocketAssumption, Lesser
  <2> QED BY <2>1, <2>2
<1> QED BY <1>1, BackoffStep, SocketInvariance, PTL DEF SocketSpec

-----------------------------------------------------------------------------
(* The runtime.                                                            *)

\* How far the runtime is says where its two goroutines are.
RuntimeInv ==
  /\ running <=> runtime # "none"
  /\ runtime \in {"none", "starting"} => pc = "new" /\ syncing = "none"
  /\ runtime = "over" => pc = "done" /\ syncing = "over"
  /\ syncing = "pausing" => attempt < Backoffs

\* Who called Close closed the gateway, and who was told nil saw no runtime or
\* its end.
ClosedInv ==
  \A k \in Closers :
    /\ closer[k] # "idle" => closed
    /\ closer[k] = "nil" => runtime \in {"none", "over"}

LifeTypeOK ==
  /\ on \in BOOLEAN
  /\ ctrl \in 0 .. MaxTaken
  /\ running \in BOOLEAN /\ closed \in BOOLEAN
  /\ runtime \in {"none", "starting", "waiting", "over"}
  /\ closer \in [Closers -> {"idle", "stopping", "waiting", "nil", "expired"}]
  /\ syncing \in {"none", "calling", "failed", "pausing", "over"}
  /\ attempt \in 0 .. Backoffs

LifeInv == LifeTypeOK /\ RuntimeInv /\ ClosedInv

LEMMA LifeInitHolds == GatewayInit => LifeInv
<1> SUFFICES ASSUME GatewayInit PROVE LifeInv
  OBVIOUS
<1>1. 0 \in 0 .. MaxTaken /\ 0 \in 0 .. Backoffs
  BY GatewayAssumption DEF GatewayAssumption
<1> QED BY <1>1 DEF GatewayInit, SocketInit, LifeInv, LifeTypeOK, RuntimeInv,
                    ClosedInv

\* The client neither starts again nor goes on after it returned.
LEMMA ClientStays ==
  ASSUME ClientStep \/ ContextEnds
  PROVE  /\ pc = "new" => pc' = "new"
         /\ pc = "done" => pc' = "done"
         /\ on' = on \/ on' = FALSE
<1>1. CASE RunStep
  BY <1>1 DEF RunStep, AfterSession, WaitedOut, WaitCut, Return, Dial, DialFails,
       Hello, HandshakeFails, Identify, Event, Nothing, Acknowledged, AskedAway,
       ReadFails, Handle, HandleNot, StopBeat, BeatStopped, Close, Readable
<1>2. CASE HandlerEnds \/ WorkerLeaves \/ FallSilent \/ ContextEnds
  BY <1>2 DEF HandlerEnds, WorkerLeaves, FallSilent, ContextEnds
<1>3. ASSUME NEW c \in 1 .. Conns, HeartbeatStep(c) PROVE pc' = pc /\ on' = on
  BY <1>3 DEF HeartbeatStep, Tick, Written, WriteFails, CloseUnacked, BeatEnds
<1> QED BY <1>1, <1>2, <1>3 DEF ClientStep

LEMMA LifeStep ==
  ASSUME LifeInv, [GatewayNext]_gatewayVars
  PROVE  LifeInv'
<1> USE GatewayAssumption DEF LifeInv, LifeTypeOK, RuntimeInv, ClosedInv,
      GatewayAssumption, slashVars, syncVars
<1>1. CASE (ClientStep \/ ContextEnds) /\ OthersWait
  BY <1>1, ClientStays DEF OthersWait
<1>2. CASE Bind
  BY <1>2 DEF Bind, MayStart, socketVars
<1>3. CASE Start
  BY <1>3 DEF Start, BeginRun, NextRound
<1>4. CASE Finish
  BY <1>4 DEF Finish, socketVars
<1>5. CASE Sync
  BY <1>5 DEF Sync, socketVars
<1>6. CASE AfterFailure
  BY <1>6 DEF AfterFailure, socketVars
<1>7. CASE TryAgain
  BY <1>7 DEF TryAgain, NextAttempt, socketVars
<1>8. CASE PauseCut
  BY <1>8 DEF PauseCut, socketVars
<1>9. ASSUME NEW k \in Closers, Lock(k) PROVE LifeInv'
  BY <1>9 DEF Lock, ClosedFromNowOn, socketVars
<1>10. ASSUME NEW k \in Closers, Cancel(k) PROVE LifeInv'
  BY <1>10 DEF Cancel, ContextCancelled
<1>11. ASSUME NEW k \in Closers, Stopped(k) \/ Expired(k) PROVE LifeInv'
  <2>1. CASE Stopped(k)
    BY <2>1 DEF Stopped, socketVars
  <2>2. CASE Expired(k)
    BY <2>2 DEF Expired, socketVars
  <2> QED BY <1>11, <2>1, <2>2
<1>12. CASE UNCHANGED gatewayVars
  BY <1>12 DEF gatewayVars, socketVars
<1> QED BY <1>1, <1>2, <1>3, <1>4, <1>5, <1>6, <1>7, <1>8, <1>9, <1>10, <1>11,
           <1>12 DEF GatewayNext, SyncStep, CloseStep

THEOREM LifeInvariance == GatewaySpec => []LifeInv
<1> QED BY LifeInitHolds, LifeStep, PTL DEF GatewaySpec

\* The runtime runs the client as Socket says, once, under a context that ends
\* once: all that is proved of Socket is true here (startSlashRuntime, start).
THEOREM ImplementsSocket == GatewaySpec => RunsTheSocketOnce
<1>1. GatewayInit => SocketInit
  BY DEF GatewayInit
<1>2. LifeInv /\ [GatewayNext]_gatewayVars => [SocketNext]_socketVars
  <2> SUFFICES ASSUME LifeInv, [GatewayNext]_gatewayVars
               PROVE  [SocketNext]_socketVars
    OBVIOUS
  <2>1. CASE ClientStep \/ ContextEnds
    BY <2>1 DEF SocketNext
  <2>2. CASE Start
    BY <2>2 DEF Start, Run, SocketNext, LifeInv, RuntimeInv
  <2>3. ASSUME NEW k \in Closers, Cancel(k) PROVE [SocketNext]_socketVars
    <3>1. CASE on
      BY <2>3, <3>1 DEF Cancel, ContextCancelled, ContextEnds, SocketNext
    <3>2. CASE ~on
      BY <2>3, <3>2
         DEF Cancel, ContextCancelled, LifeInv, LifeTypeOK, socketVars
    <3> QED BY <3>1, <3>2
  <2>4. ASSUME NEW k \in Closers, Lock(k) \/ Stopped(k) \/ Expired(k)
        PROVE  UNCHANGED socketVars
    BY <2>4 DEF Lock, Stopped, Expired
  <2>5. CASE Bind \/ Finish \/ SyncStep
    BY <2>5 DEF Bind, Finish, SyncStep, Sync, AfterFailure, TryAgain, PauseCut
  <2>6. CASE UNCHANGED gatewayVars
    BY <2>6 DEF gatewayVars
  <2> QED BY <2>1, <2>2, <2>3, <2>4, <2>5, <2>6 DEF GatewayNext, CloseStep
<1> QED BY <1>1, <1>2, LifeInvariance, PTL
        DEF GatewaySpec, RunsTheSocketOnce, SocketSpec

\* The variables of the client and of the runtime keep their types.
THEOREM TypeCorrect == GatewaySpec => []GatewayTypeOK
<1>1. SocketInv /\ LifeInv => GatewayTypeOK
  BY DEF SocketInv, LifeInv, LifeTypeOK, GatewayTypeOK
<1> QED BY <1>1, LifeInvariance, ImplementsSocket, SocketInvariance, PTL
        DEF RunsTheSocketOnce

\* Close that returned nil left nothing behind, and nothing comes after it,
\* for any number of callers of Close and of bindings (Close, startSlash).
THEOREM NilIsTrue == GatewaySpec => []NilMeansGone
<1>1. SocketInv /\ LifeInv => NilMeansGone
  <2> SUFFICES ASSUME SocketInv, LifeInv, NEW k \in Closers, closer[k] = "nil"
               PROVE  NilMeansGone
    BY DEF NilMeansGone
  <2>1. runtime \in {"none", "over"} /\ pc \in {"new", "done"}
        /\ syncing \in {"none", "over"}
    BY DEF LifeInv, ClosedInv, RuntimeInv
  <2>2. workers = 0 /\ \A c \in 1 .. Conns : beat[c] = "off"
    BY <2>1 DEF SocketInv, Peopled, OneHeartbeat
  <2> QED BY <2>1, <2>2 DEF NilMeansGone
<1> QED BY <1>1, LifeInvariance, ImplementsSocket, SocketInvariance, PTL
        DEF RunsTheSocketOnce

\* One binding takes effect, and none once closed (BindSessionControl).
THEOREM OneBinding == GatewaySpec => FirstBindingStays
<1>1. [GatewayNext]_gatewayVars =>
        [(closed \/ running) => UNCHANGED <<ctrl, running>>]_gatewayVars
  <2> SUFFICES ASSUME GatewayNext, closed \/ running
               PROVE  UNCHANGED <<ctrl, running>>
    OBVIOUS
  <2>1. CASE OthersWait
    BY <2>1 DEF OthersWait, slashVars
  <2>2. CASE Start \/ Finish \/ SyncStep
    BY <2>2 DEF Start, Finish, SyncStep, Sync, AfterFailure, TryAgain, PauseCut,
                slashVars
  <2>3. ~Bind
    BY DEF Bind, MayStart
  <2>4. ASSUME NEW k \in Closers, CloseStep(k) PROVE UNCHANGED <<ctrl, running>>
    BY <2>4 DEF CloseStep, Lock, Cancel, Stopped, Expired, slashVars
  <2> QED BY <2>1, <2>2, <2>3, <2>4 DEF GatewayNext
<1> QED BY <1>1, PTL DEF GatewaySpec, FirstBindingStays

\* A connection is judged by its own heartbeat.
THEOREM JudgedByOwn == SocketSpec => []HeartbeatIsOwn
<1>1. OneHeartbeat /\ AckIsOwn => HeartbeatIsOwn
  BY DEF HeartbeatIsOwn
<1> QED BY <1>1, HeartbeatIsAlone, AckBelongs, PTL

\* At most one runtime, of the first binding, runs the client as specified.
THEOREM RunsOne == GatewaySpec => OneRuntime
  BY OneBinding, ImplementsSocket DEF OneRuntime
=============================================================================
