------------------------------- MODULE Socket -------------------------------
(***************************************************************************)
(* The websocket client (src/ws.go): one goroutine that runs connection    *)
(* after connection (run, session), the heartbeat of the connection, which *)
(* has a goroutine of its own, and one goroutine per event, at most        *)
(* MaxInFlight of them at work.                                            *)
(*                                                                         *)
(* Discord is the environment: it may send, refuse, close and fall silent  *)
(* whenever it likes.  Events are all alike here; what their handlers do   *)
(* is the business of Router and Slash.  Connections have the numbers      *)
(* 1 .. Conns, used in turn.  The sequence number a heartbeat carries is   *)
(* left out.                                                               *)
(***************************************************************************)
EXTENDS Naturals

CONSTANTS
  MaxInFlight,   \* maxInFlight
  MaxBackoff,    \* maxReconnectBackoff, in seconds
  Conns,         \* how many connections have a number
  Codes,         \* the close codes Discord may send; 0 is any other failure
  MaxLosses,     \* bound: losses in a row that are counted
  MaxWorkers     \* bound: goroutines that have not left the wait group

ASSUME SocketAssumption ==
  /\ MaxInFlight \in Nat \ {0}
  /\ MaxBackoff \in Nat \ {0}
  /\ Conns \in Nat /\ Conns > 1
  /\ 0 \in Codes
  /\ MaxLosses \in Nat
  /\ MaxWorkers \in Nat

VARIABLES
  on,         \* the context of run has not ended
  pc,         \* where run is
  conn,       \* the connection of session, 0 before the first
  open,       \* nobody here closed it
  silent,     \* its peer sends nothing any more
  acked,      \* w.acked
  owed,       \* history: this connection's heartbeat awaits an acknowledgement
  beat,       \* where the heartbeat of each connection is
  stopped,    \* the heartbeat of conn was told to stop
  verdict,    \* the close code of the error session returned
  backoff,    \* in seconds
  losses,     \* history: waits since the last identify that went through
  permits,    \* the slots of w.sem taken
  workers     \* w.workers

link  == <<conn, open, silent>>
pulse == <<acked, owed, beat, stopped>>
retry == <<verdict, backoff, losses>>
pool  == <<permits, workers>>

socketVars == <<on, pc, link, pulse, retry, pool>>

Places ==
  {"new", "dial", "hello", "identify", "read", "full", "unbeat", "close",
   "lost", "backoff", "wait", "done"}

SocketTypeOK ==
  /\ on \in BOOLEAN /\ pc \in Places
  /\ conn \in 0 .. Conns /\ open \in BOOLEAN /\ silent \in BOOLEAN
  /\ acked \in BOOLEAN /\ owed \in BOOLEAN /\ stopped \in BOOLEAN
  /\ beat \in [1 .. Conns -> {"off", "ticking", "swapped", "failed"}]
  /\ verdict \in Codes /\ backoff \in 1 .. MaxBackoff
  /\ losses \in 0 .. MaxLosses
  /\ permits \in 0 .. MaxInFlight /\ workers \in 0 .. MaxWorkers

SocketInit ==
  /\ on = TRUE /\ pc = "new"
  /\ conn = 0 /\ open = FALSE /\ silent = FALSE
  /\ acked = FALSE /\ owed = FALSE
  /\ beat = [c \in 1 .. Conns |-> "off"] /\ stopped = FALSE
  /\ verdict = 0 /\ backoff = 1 /\ losses = 0
  /\ permits = 0 /\ workers = 0

-----------------------------------------------------------------------------
(* run.                                                                    *)

\* The head of the loop.
NextRound == IF on THEN "dial" ELSE "wait"

BeginRun == pc' = NextRound /\ UNCHANGED <<on, link, pulse, retry, pool>>
Run == pc = "new" /\ BeginRun

permanentClosesOfSessions == {4010, 4011, 4012, 4013, 4014}
permanentCloseCodes == {4004, 4010, 4011, 4012, 4013, 4014}

NeverRetries == FALSE
\* session always returns an error; is another connection worth a try?
Retries == on /\ verdict \notin permanentCloseCodes

AfterSession ==
  /\ pc = "lost"
  /\ pc' = IF Retries THEN "backoff" ELSE "wait"
  /\ UNCHANGED <<on, link, pulse, retry, pool>>

NextBackoff == IF 2 * backoff > MaxBackoff THEN MaxBackoff ELSE 2 * backoff

WaitedOut ==
  /\ pc = "backoff" /\ pc' = NextRound
  /\ backoff' = NextBackoff
  /\ losses' = IF losses < MaxLosses THEN losses + 1 ELSE losses
  /\ UNCHANGED <<on, link, pulse, verdict, pool>>

WaitCut ==
  /\ pc = "backoff" /\ ~on /\ pc' = "wait"
  /\ UNCHANGED <<on, link, pulse, retry, pool>>

ReturnsAtOnce == TRUE
WorkersGone == workers = 0

\* The deferred w.workers.Wait().
Return ==
  /\ pc = "wait" /\ WorkersGone /\ pc' = "done"
  /\ UNCHANGED <<on, link, pulse, retry, pool>>

-----------------------------------------------------------------------------
(* session.                                                                *)

Dial ==
  /\ pc = "dial" /\ on /\ pc' = "hello"
  /\ conn' = (conn % Conns) + 1 /\ open' = TRUE
  /\ stopped' = FALSE /\ verdict' = 0
  /\ UNCHANGED <<on, silent, acked, owed, beat, backoff, losses, pool>>

DialFails ==
  /\ pc = "dial" /\ pc' = "lost" /\ verdict' = 0
  /\ UNCHANGED <<on, link, pulse, backoff, losses, pool>>

Hello ==
  /\ pc = "hello" /\ ~silent /\ pc' = "identify"
  /\ UNCHANGED <<on, link, pulse, retry, pool>>

\* A first payload that is no HELLO or does not decode, an identify that cannot
\* be written, or a connection that went away meanwhile.
HandshakeFails ==
  /\ pc \in {"hello", "identify"} /\ pc' = "close"
  /\ verdict' \in Codes
  /\ UNCHANGED <<on, link, pulse, backoff, losses, pool>>

AckedAsBefore == acked
\* w.acked as the heartbeat of a new connection finds it.
AckedAtStart == TRUE

KeepsBackoff == backoff
BackoffOnceConnected == 1

\* The heartbeat starts, and is over at once when HELLO announced no interval.
Identify ==
  /\ pc = "identify" /\ pc' = "read"
  /\ backoff' = BackoffOnceConnected /\ losses' = 0
  /\ acked' = AckedAtStart
  /\ \E first \in {"ticking", "off"} : beat' = [beat EXCEPT ![conn] = first]
  /\ UNCHANGED <<on, link, owed, stopped, verdict, pool>>

\* A read of a closed connection, or under a context that ended, fails.
Readable == pc = "read" /\ on /\ open /\ ~silent

\* An event for a handler: it needs a slot.
Event ==
  /\ Readable /\ pc' = "full"
  /\ UNCHANGED <<on, link, pulse, retry, pool>>

\* An event nobody handles or that does not decode, or op 1, answered.
Nothing ==
  /\ Readable
  /\ UNCHANGED <<on, pc, link, pulse, retry, pool>>

Acknowledged ==
  /\ Readable
  /\ acked' = TRUE /\ owed' = FALSE
  /\ UNCHANGED <<on, pc, link, beat, stopped, retry, pool>>

\* Op 7 or 9, or op 1 whose answer cannot be written.
AskedAway ==
  /\ Readable /\ pc' = "unbeat"
  /\ verdict' = 0
  /\ UNCHANGED <<on, link, pulse, backoff, losses, pool>>

ReadFails ==
  /\ pc = "read" /\ pc' = "unbeat"
  /\ verdict' \in Codes
  /\ UNCHANGED <<on, link, pulse, backoff, losses, pool>>

\* bounded: the reader itself waits for a slot, and nothing is read meanwhile.
Handle ==
  /\ pc = "full" /\ permits < MaxInFlight /\ workers < MaxWorkers
  /\ pc' = "read"
  /\ permits' = permits + 1 /\ workers' = workers + 1
  /\ UNCHANGED <<on, link, pulse, retry>>

HandleNot ==
  /\ pc = "full" /\ ~on /\ pc' = "read"
  /\ UNCHANGED <<on, link, pulse, retry, pool>>

\* The deferred stopHeartbeat, which cancels and then waits, and closeSocket.
StopBeat ==
  /\ pc = "unbeat" /\ ~stopped
  /\ stopped' = TRUE
  /\ UNCHANGED <<on, pc, link, acked, owed, beat, retry, pool>>

CancelsOnly == TRUE
BeatGone == beat[conn] = "off"

BeatStopped ==
  /\ pc = "unbeat" /\ stopped /\ BeatGone /\ pc' = "close"
  /\ UNCHANGED <<on, link, pulse, retry, pool>>

Close ==
  /\ pc = "close" /\ pc' = "lost"
  /\ open' = FALSE /\ silent' = FALSE /\ owed' = FALSE
  /\ UNCHANGED <<on, conn, acked, beat, stopped, retry, pool>>

-----------------------------------------------------------------------------
(* The heartbeat of connection c (heartbeatLoop, beatOrClose).             *)

Told(c) == ~on \/ stopped \/ c # conn
Beats(c, place) == beat' = [beat EXCEPT ![c] = place]

AckedStays == acked
\* What w.acked.Swap(false) leaves.
AckedOnceSwapped == FALSE

Tick(c) ==
  /\ beat[c] = "ticking"
  /\ Beats(c, IF acked THEN "swapped" ELSE "failed")
  /\ acked' = AckedOnceSwapped
  /\ owed' = (owed \/ c = conn)
  /\ UNCHANGED <<on, pc, link, stopped, retry, pool>>

\* A heartbeat that was told to stop has no second tick due: it is over.
Written(c) ==
  /\ beat[c] = "swapped"
  /\ Beats(c, IF Told(c) THEN "off" ELSE "ticking")
  /\ UNCHANGED <<on, pc, link, acked, owed, stopped, retry, pool>>

WriteFails(c) ==
  /\ beat[c] = "swapped" /\ Beats(c, "failed")
  /\ UNCHANGED <<on, pc, link, acked, owed, stopped, retry, pool>>

CloseUnacked(c) ==
  /\ beat[c] = "failed" /\ Beats(c, "off")
  /\ open' = (open /\ c # conn)
  /\ UNCHANGED <<on, pc, conn, silent, acked, owed, stopped, retry, pool>>

BeatEnds(c) ==
  /\ beat[c] = "ticking" /\ Told(c) /\ Beats(c, "off")
  /\ UNCHANGED <<on, pc, link, acked, owed, stopped, retry, pool>>

HeartbeatStep(c) ==
  Tick(c) \/ Written(c) \/ WriteFails(c) \/ CloseUnacked(c) \/ BeatEnds(c)

-----------------------------------------------------------------------------
(* The handlers, and what happens outside.                                 *)

KeepsSlot == permits
SlotGivenBack == permits - 1

\* A handler gives its slot back, and then leaves the wait group.
HandlerEnds ==
  /\ permits > 0 /\ permits' = SlotGivenBack
  /\ UNCHANGED <<on, pc, link, pulse, retry, workers>>

StaysInGroup == workers
OutOfGroup == workers - 1

WorkerLeaves ==
  /\ workers > permits /\ workers' = OutOfGroup
  /\ UNCHANGED <<on, pc, link, pulse, retry, permits>>

FallSilent ==
  /\ open /\ ~silent /\ silent' = TRUE
  /\ UNCHANGED <<on, pc, conn, open, pulse, retry, pool>>

ContextEnds ==
  /\ on /\ on' = FALSE
  /\ UNCHANGED <<pc, link, pulse, retry, pool>>

RunStep ==
  \/ AfterSession \/ WaitedOut \/ WaitCut \/ Return
  \/ Dial \/ DialFails \/ Hello \/ HandshakeFails \/ Identify
  \/ Event \/ Nothing \/ Acknowledged \/ AskedAway \/ ReadFails
  \/ Handle \/ HandleNot \/ StopBeat \/ BeatStopped \/ Close

ClientStep ==
  \/ RunStep \/ HandlerEnds \/ WorkerLeaves \/ FallSilent
  \/ \E c \in 1 .. Conns : HeartbeatStep(c)

SocketNext == Run \/ ClientStep \/ ContextEnds

SocketSpec == SocketInit /\ [][SocketNext]_socketVars

-----------------------------------------------------------------------------
(* Fairness.  The scheduler runs every goroutine, tickers tick, a local    *)
(* write or close returns, a read of a closed connection fails, and so     *)
(* does dialling or reading once the context has ended.  No fairness is    *)
(* asked of Discord, nor of the caller of run, who may never call it.      *)
(* That handlers end is assumed here.                                      *)

LocalStep ==
  \/ AfterSession \/ WaitedOut \/ Return
  \/ Identify \/ Handle \/ StopBeat \/ BeatStopped \/ Close
  \/ ~on /\ DialFails
  \/ (~on \/ ~open) /\ (ReadFails \/ HandshakeFails)

SocketFairness ==
  /\ WF_socketVars(LocalStep)
  /\ WF_socketVars(HandlerEnds) /\ WF_socketVars(WorkerLeaves)
  /\ \A c \in 1 .. Conns : WF_socketVars(HeartbeatStep(c))

-----------------------------------------------------------------------------
(* Safety.                                                                 *)

\* A heartbeat that is alive is the one of the connection that is being read
\* or left: none outlives its session (stopHeartbeat waits), so two sessions
\* never share w.acked.
OneHeartbeat ==
  \A c \in 1 .. Conns :
    beat[c] # "off" => c = conn /\ pc \in {"read", "full", "unbeat"}

\* A connection is given up as unacknowledged only for a heartbeat of its own:
\* whatever an earlier connection left in w.acked does not count against it.
AckIsOwn == pc \in {"read", "full"} /\ ~acked => owed

\* A connection is judged by its own heartbeat, and by nothing an earlier one
\* left behind: neither a goroutine nor an acknowledgement outlives its session.
HeartbeatIsOwn == OneHeartbeat /\ AckIsOwn

\* run comes back only when its handlers, its heartbeats and its connection are
\* all gone, and of its own accord only after a close that is permanent.
ReturnsAlone ==
  /\ pc = "done" => /\ workers = 0 /\ permits = 0 /\ ~open
                    /\ \A c \in 1 .. Conns : beat[c] = "off"
  /\ pc \in {"wait", "done"} /\ on => verdict \in permanentCloseCodes

\* A slot that is taken belongs to a handler the wait group counts, so waiting
\* for the group waits for everyone who holds a slot.
SlotsAreCounted == permits <= workers

Lesser(a, b) == IF a < b THEN a ELSE b

\* The wait doubles with every loss since the last connection that identified,
\* up to its cap, and starts over with the next one that does.
BackoffFollowsLosses ==
  losses < MaxLosses => backoff = Lesser(MaxBackoff, 2 ^ losses)

\* The closes that src/README.md calls fatal: bad token, and bad shard, API
\* version or intents.
Fatal == {4004} \cup 4010 .. 4014

\* After such a close no connection is tried again.
RefusedIsFinal == [][(verdict \in Fatal) => (pc' # "dial")]_socketVars

-----------------------------------------------------------------------------
(* Liveness.                                                               *)

\* Once the context has ended and run was called, before that or later, run
\* returns.
StopsWhenTold == (~on /\ pc # "new") ~> pc = "done"

\* A peer that went silent under a running heartbeat is noticed.
DeadIsNoticed ==
  (pc = "read" /\ silent /\ beat[conn] # "off") ~> pc # "read"

\* An event read with every slot taken gets one, or the context ends: the
\* reader is not stuck behind its handlers.
EventIsHandled == pc = "full" ~> pc # "full"

\* A connection that was lost is followed by another try, unless the close was
\* permanent or the context ended.
ComesBack ==
  (pc = "unbeat" /\ verdict \notin Fatal) ~> (pc = "dial" \/ ~on)

\* The client keeps the gateway connected by itself: it notices a dead peer, gets
\* past a full pool and tries again, for ever, but never after a fatal close.
StaysConnected ==
  DeadIsNoticed /\ EventIsHandled /\ ComesBack /\ RefusedIsFinal

=============================================================================
