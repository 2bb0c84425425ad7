------------------------------ MODULE Gateway -------------------------------
(***************************************************************************)
(* The life of the slash runtime (src/gateway.go, src/slashrun.go, and     *)
(* start and sync of src/slash.go), over the websocket client it runs:     *)
(* BindSessionControl starts it, Close stops it and waits, the daemon's    *)
(* context may end under it, and a runtime is two goroutines, the socket   *)
(* and the registration of the commands with its retries.                  *)
(*                                                                         *)
(* The context of Socket is the one startSlashRuntime derives.             *)
(***************************************************************************)
EXTENDS Socket

CONSTANTS
  MaxTaken,   \* bound: bindings that take effect
  Closers,    \* the calls of Close
  Backoffs    \* the length of syncBackoffs

ASSUME GatewayAssumption == MaxTaken \in Nat /\ Backoffs \in Nat

VARIABLES
  ctrl,       \* g.slash.ctrl: the controllers it has had, 0 when it is nil
  running,    \* g.slashRunning is there
  closed,     \* g.slashClosed
  runtime,    \* the goroutine of startSlashRuntime
  closer,     \* where each call of Close is
  syncing,    \* where the registration of the commands is
  attempt     \* of syncWithRetry

slashVars   == <<ctrl, running, closed>>
syncVars    == <<syncing, attempt>>
gatewayVars == <<socketVars, slashVars, runtime, closer, syncVars>>

GatewayTypeOK ==
  /\ SocketTypeOK
  /\ ctrl \in 0 .. MaxTaken
  /\ running \in BOOLEAN /\ closed \in BOOLEAN
  /\ runtime \in {"none", "starting", "waiting", "over"}
  /\ closer \in [Closers -> {"idle", "stopping", "waiting", "nil", "expired"}]
  /\ syncing \in {"none", "calling", "failed", "pausing", "over"}
  /\ attempt \in 0 .. Backoffs

GatewayInit ==
  /\ SocketInit
  /\ ctrl = 0
  /\ running = FALSE /\ closed = FALSE
  /\ runtime = "none"
  /\ closer = [k \in Closers |-> "idle"]
  /\ syncing = "none" /\ attempt = 0

-----------------------------------------------------------------------------
(* BindSessionControl and the runtime.                                     *)

BindsTwice == ~closed
MayStart == ~closed /\ ~running

\* Any other binding is ignored.
Bind ==
  /\ MayStart /\ ctrl < MaxTaken
  /\ ctrl' = ctrl + 1 /\ running' = TRUE /\ runtime' = "starting"
  /\ UNCHANGED <<socketVars, closed, closer, syncVars>>

\* start: the registration has a goroutine of its own, and run goes on here.
Start ==
  /\ runtime = "starting" /\ runtime' = "waiting"
  /\ syncing' = "calling" /\ attempt' = 0
  /\ BeginRun
  /\ UNCHANGED <<slashVars, closer>>

\* run and sync have returned: done is closed.
Finish ==
  /\ runtime = "waiting" /\ pc = "done" /\ syncing = "over"
  /\ runtime' = "over"
  /\ UNCHANGED <<socketVars, slashVars, closer, syncVars>>

-----------------------------------------------------------------------------
(* sync, syncWithRetry.                                                    *)

Sync ==
  /\ syncing = "calling" /\ syncing' \in {"over", "failed"}
  /\ UNCHANGED <<socketVars, slashVars, runtime, closer, attempt>>

AfterFailure ==
  /\ syncing = "failed"
  /\ syncing' = IF attempt = Backoffs THEN "over" ELSE "pausing"
  /\ UNCHANGED <<socketVars, slashVars, runtime, closer, attempt>>

SameAttempt == attempt
NextAttempt == attempt + 1

TryAgain ==
  /\ syncing = "pausing" /\ syncing' = "calling" /\ attempt' = NextAttempt
  /\ UNCHANGED <<socketVars, slashVars, runtime, closer>>

PauseCut ==
  /\ syncing = "pausing" /\ ~on /\ syncing' = "over"
  /\ UNCHANGED <<socketVars, slashVars, runtime, closer, attempt>>

-----------------------------------------------------------------------------
(* Close.                                                                  *)

ClosesNothing == closed
ClosedFromNowOn == TRUE

Lock(k) ==
  /\ closer[k] = "idle"
  /\ closed' = ClosedFromNowOn
  /\ closer' = [closer EXCEPT ![k] = IF running THEN "stopping" ELSE "nil"]
  /\ UNCHANGED <<socketVars, ctrl, running, runtime, syncVars>>

KeepsContext == on
ContextCancelled == FALSE

Cancel(k) ==
  /\ closer[k] = "stopping"
  /\ closer' = [closer EXCEPT ![k] = "waiting"]
  /\ on' = ContextCancelled
  /\ UNCHANGED <<pc, link, pulse, retry, pool, slashVars, runtime, syncVars>>

Stopped(k) ==
  /\ closer[k] = "waiting" /\ runtime = "over"
  /\ closer' = [closer EXCEPT ![k] = "nil"]
  /\ UNCHANGED <<socketVars, slashVars, runtime, syncVars>>

\* The context of the call ends first.
Expired(k) ==
  /\ closer[k] = "waiting"
  /\ closer' = [closer EXCEPT ![k] = "expired"]
  /\ UNCHANGED <<socketVars, slashVars, runtime, syncVars>>

-----------------------------------------------------------------------------

OthersWait == UNCHANGED <<slashVars, runtime, closer, syncVars>>

SyncStep   == Sync \/ AfterFailure \/ TryAgain \/ PauseCut
CloseStep(k) == Lock(k) \/ Cancel(k) \/ Stopped(k) \/ Expired(k)

GatewayNext ==
  \/ (ClientStep \/ ContextEnds) /\ OthersWait
  \/ Bind \/ Start \/ Finish \/ SyncStep
  \/ \E k \in Closers : CloseStep(k)

GatewaySpec == GatewayInit /\ [][GatewayNext]_gatewayVars

\* What Socket assumes, and the goroutines of this module: the registration of
\* the commands is a call that returns, and a pause ends.
FairGateway ==
  /\ GatewaySpec /\ SocketFairness
  /\ WF_gatewayVars(Start) /\ WF_gatewayVars(Finish)
  /\ WF_gatewayVars(SyncStep)
  /\ \A k \in Closers : WF_gatewayVars(Cancel(k))

-----------------------------------------------------------------------------

\* Close that returned nil means what it says, then and ever after: no runtime,
\* no handler, no heartbeat and no registration is alive, whatever the host
\* binds later.
NilMeansGone ==
  (\E k \in Closers : closer[k] = "nil") =>
    /\ runtime \in {"none", "over"}
    /\ pc \in {"new", "done"} /\ workers = 0
    /\ \A c \in 1 .. Conns : beat[c] = "off"
    /\ syncing \in {"none", "over"}

\* Only one binding ever takes effect: its controller stays, and once closed
\* the gateway gets neither a controller nor a runtime.
FirstBindingStays ==
  [][(closed \/ running) => UNCHANGED <<ctrl, running>>]_gatewayVars

\* The client is run the way Socket says: once, under a context that ends at
\* most once.
RunsTheSocketOnce == SocketSpec

\* Whatever binds and closes race, there is one runtime at most: of the binding
\* that came first, running the client as specified.
OneRuntime == FirstBindingStays /\ RunsTheSocketOnce

\* A runtime that was told to stop does, even if nobody waits for it any more.
CloseEndsRuntime ==
  \A k \in Closers : closer[k] = "stopping" ~> runtime = "over"

\* The registration of the commands ends, told to or not: it is retried, but not
\* for ever.
SyncEnds == syncing = "calling" ~> syncing = "over"

\* Everything that was started comes to an end by itself: the client and the
\* runtime once they are told, the registration in any case.
AllEnds == StopsWhenTold /\ CloseEndsRuntime /\ SyncEnds

=============================================================================
