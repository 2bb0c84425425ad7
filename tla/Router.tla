------------------------------- MODULE Router -------------------------------
(***************************************************************************)
(* The router: which session a message goes to, and the life of the rooms  *)
(* it goes through (src/router.go, router_threads.go, gone.go, and setMode *)
(* of slash.go).                                                           *)
(*                                                                         *)
(* Every event of the websocket is handled in a goroutine of its own, so   *)
(* the handlers of messages, of clicks on a repo menu, of deleted rooms    *)
(* and of /mode interleave.  What they share is the bindings (bindStore),  *)
(* the buffered messages and their jobs (pending and jobs, under r.mu),    *)
(* and the sessions of the daemon.  An action is what a handler does up to *)
(* the next call of Discord or of the daemon, or the next change of what   *)
(* is shared.                                                              *)
(*                                                                         *)
(* The bindings are their memory: StateFile shows how they reach the file. *)
(* A session has the name of its slot, so a slot stands for its session.   *)
(* Which repository a room works on is left out: bindKnownRepo finds one   *)
(* or it does not.                                                         *)
(***************************************************************************)
EXTENDS Naturals, FiniteSets

CONSTANTS
  Channels,       \* the rooms that are there
  Threads,        \* the threads Discord may open
  Users,
  Msgs,           \* the messages people write
  Author,         \* who wrote a message
  Wants,          \* the messages that ask for a thread
  Clicks,         \* clicks on a repo menu
  GroupPerUser, ThreadPerUser,   \* sessionScope
  Switches,       \* the modes somebody may give a room with /mode
  OneAtATime,     \* no two events overlap: what is wrong then is no race
  Mortal,         \* a session may end without the gateway
  None

Rooms    == Channels \cup Threads
Modes    == {"normal", "support", "ambient", "off"}
Slots    == [conv : Rooms, user : Users \cup {None}]
Handlers == Msgs \cup Clicks
AtRest   == {"new", "asked", "delivered", "failed", "done"}
Places   == AtRest \cup {"received", "ask", "fork", "adopt", "adoptFork",
                        "placed", "menu", "submit", "create", "save", "replay"}
GonePlaces == {"no", "announced", "next", "forget", "close", "ended", "over"}
Jobs     == [conv : Rooms, thread : BOOLEAN, parent : Rooms, slot : Slots]

ASSUME RouterAssumption ==
  /\ Channels \cap Threads = {}
  /\ Author \in [Msgs -> Users]
  /\ Wants \subseteq Msgs
  /\ Msgs \cap Clicks = {}
  /\ {GroupPerUser, ThreadPerUser, Mortal, OneAtATime} \subseteq BOOLEAN
  /\ Switches \subseteq {"normal", "support", "ambient", "off"}
  /\ None \notin Rooms \cup Users \cup Msgs \cup Jobs

VARIABLES
  exists,    \* the rooms Discord has
  home,      \* the channel Discord opened a thread in
  menus,     \* the rooms a repo menu was posted in
  live,      \* the sessions of the daemon
  bound,     \* binds.Channels: the slots that have a session
  threads,   \* binds.Threads
  parents,   \* binds.Parents
  modes,     \* binds.Modes
  pending,   \* r.pending
  jobs,      \* r.jobs
  pc,        \* where the handler of a message or of a click is
  room,      \* the room the message was written in
  task,      \* the job a handler works on
  msg,       \* the message it delivers, None for a click without one
  delivered, \* history: how often each message reached a session
  going,     \* where the handler of a deleted room is
  todo,      \* the threads it still has to end
  ending,    \* the room it is ending
  victims,   \* the sessions it found in the one it ends
  switching  \* the mode setMode is about to store for a room

discord == <<exists, home, menus>>
store   == <<bound, threads, parents, modes>>
buffer  == <<pending, jobs>>
local   == <<room, task, msg>>
goneVars == <<going, todo, ending, victims>>
vars == <<discord, live, store, buffer, pc, local, delivered,
          goneVars, switching>>

TypeOK ==
  /\ exists \subseteq Rooms /\ menus \subseteq Rooms
  /\ home \in [Threads -> Channels \cup {None}]
  /\ live \subseteq Slots /\ bound \subseteq Slots
  /\ threads \subseteq Rooms
  /\ parents \in [Rooms -> Rooms \cup {None}]
  /\ modes \in [Rooms -> Modes]
  /\ pending \in [Rooms -> Msgs \cup {None}]
  /\ jobs \in [Rooms -> Jobs \cup {None}]
  /\ pc \in [Handlers -> Places]
  /\ room \in [Msgs -> Rooms \cup {None}]
  /\ task \in [Handlers -> Jobs \cup {None}]
  /\ msg \in [Handlers -> Msgs \cup {None}]
  /\ delivered \in [Msgs -> Nat]
  /\ going \in [Rooms -> GonePlaces]
  /\ todo \in [Rooms -> SUBSET Rooms]
  /\ ending \in [Rooms -> Rooms \cup {None}]
  /\ victims \in [Rooms -> SUBSET Slots]
  /\ switching \in [Rooms -> Modes \cup {None}]

Init ==
  /\ exists = Channels
  /\ home = [t \in Threads |-> None]
  /\ menus = {}
  /\ live = {} /\ bound = {} /\ threads = {}
  /\ parents = [c \in Rooms |-> None]
  /\ modes = [c \in Rooms |-> "normal"]
  /\ pending = [c \in Rooms |-> None]
  /\ jobs = [c \in Rooms |-> None]
  /\ pc = [h \in Handlers |-> "new"]
  /\ room = [m \in Msgs |-> None]
  /\ task = [h \in Handlers |-> None]
  /\ msg = [h \in Handlers |-> IF h \in Msgs THEN h ELSE None]
  /\ delivered = [m \in Msgs |-> 0]
  /\ going = [c \in Rooms |-> "no"]
  /\ todo = [c \in Rooms |-> {}]
  /\ ending = [c \in Rooms |-> None]
  /\ victims = [c \in Rooms |-> {}]
  /\ switching = [c \in Rooms |-> None]

-----------------------------------------------------------------------------
\* The handlers that are not at rest.
Working ==
  {h \in Handlers : pc[h] \notin AtRest} \cup
  {c \in Rooms : going[c] \notin {"no", "over"} \/ switching[c] # None}

\* An event may come at any time or, OneAtATime, when the one before is done.
MayCome == OneAtATime => Working = {}

(* Helpers.                                                                *)

Goto(h, place) == pc' = [pc EXCEPT ![h] = place]

\* sessionScope.slot
Slot(conv, user, thread) ==
  [conv |-> conv,
   user |-> IF (IF thread THEN ThreadPerUser ELSE GroupPerUser) THEN user
            ELSE None]

\* router.mode: a room's own, or its parent's.
ModeOf(c) ==
  IF modes[c] # "normal" \/ parents[c] = None THEN modes[c]
  ELSE modes[parents[c]]

SessionsOfNobody(c) == {s \in bound : s.conv = c /\ s.user = None}
AllSessions(c) == bound
SessionsIn(c) == {s \in bound : s.conv = c}

Children(c) == {t \in Rooms : parents[t] = c}

\* conversation, when the message of a user stays where it was written: the
\* job's parent is the room itself, a thread included.
Here(c, user) ==
  [conv |-> c, thread |-> c \in threads, parent |-> c,
   slot |-> Slot(c, user, c \in threads)]

ThereAsAChannel(m, t) ==
  [conv |-> t, thread |-> TRUE, parent |-> room[m],
   slot |-> Slot(t, Author[m], FALSE)]
\* conversation, when the message gets a thread: the slot is the thread's.
There(m, t) ==
  [conv |-> t, thread |-> TRUE, parent |-> room[m],
   slot |-> Slot(t, Author[m], TRUE)]

\* replaceLostJob: the menu outlived its job.
LostJob(c, user) ==
  [conv |-> c, thread |-> c \in threads,
   parent |-> IF parents[c] = None THEN c ELSE parents[c],
   slot |-> Slot(c, user, c \in threads)]

UnbufferPendingOnly(c) ==
  /\ pending' = [pending EXCEPT ![c] = None]
  /\ UNCHANGED jobs
\* Both maps are changed under one r.mu.
Unbuffer(c) ==
  /\ pending' = [pending EXCEPT ![c] = None]
  /\ jobs' = [jobs EXCEPT ![c] = None]

Forget(c) ==
  /\ bound' = bound \ SessionsIn(c)
  /\ threads' = threads \ {c}
  /\ parents' = [parents EXCEPT ![c] = None]
  /\ modes' = [modes EXCEPT ![c] = "normal"]

-----------------------------------------------------------------------------
(* onMessage.                                                              *)

\* A message that is addressed and permitted, in a room that is not off.
Receive(m) ==
  /\ pc[m] = "new" /\ MayCome
  /\ \E c \in exists :
       /\ ModeOf(c) # "off"
       /\ room' = [room EXCEPT ![m] = c]
       /\ task' = [task EXCEPT ![m] = Here(c, Author[m])]
  /\ Goto(m, "received")
  /\ UNCHANGED <<discord, live, store, buffer, msg, delivered, goneVars,
                 switching>>

\* Its slot is bound or not; bound, it may ask for a thread of its own.
Look(m) ==
  /\ pc[m] = "received"
  /\ Goto(m, IF task[m].slot \notin bound THEN "ask"
             ELSE IF m \in Wants /\ room[m] \notin threads
                     /\ task[m].slot \in live
             THEN "fork" ELSE "submit")
  /\ UNCHANGED <<discord, live, store, buffer, local, delivered, goneVars,
                 switching>>

\* submit: the daemon takes the message for the session that is bound.
Submit(m) ==
  /\ pc[m] = "submit" /\ task[m].slot \in live
  /\ delivered' = [delivered EXCEPT ![m] = @ + 1]
  /\ Goto(m, "delivered")
  /\ UNCHANGED <<discord, live, store, buffer, local, goneVars, switching>>

\* The binding is stale: it is dropped, and the question asked again.
SubmitRefused(m) ==
  /\ pc[m] = "submit" /\ task[m].slot \notin live
  /\ bound' = bound \ {task[m].slot}
  /\ Goto(m, "ask")
  /\ UNCHANGED <<discord, live, threads, parents, modes, buffer, local,
                 delivered, goneVars, switching>>

\* ask, when the daemon knows no repository.
NoRepos(m) ==
  /\ pc[m] = "ask"
  /\ Goto(m, "failed")
  /\ UNCHANGED <<discord, live, store, buffer, local, delivered, goneVars,
                 switching>>

\* place: the job stays here when no thread is asked for, and when Discord
\* refuses the one that is.  A fork that gets none is an ordinary message.
StayHere(m) ==
  /\ pc[m] \in {"ask", "fork"}
  /\ Goto(m, IF pc[m] = "ask" THEN "placed" ELSE "submit")
  /\ task' = IF pc[m] = "ask"
             THEN [task EXCEPT ![m] = Here(room[m], Author[m])] ELSE task
  /\ UNCHANGED <<discord, live, store, buffer, room, msg, delivered,
                 goneVars, switching>>

OpenThread(m) ==
  /\ pc[m] \in {"ask", "fork"}
  /\ room[m] \notin threads /\ room[m] \in exists \cap Channels
  /\ modes[room[m]] = "support" \/ m \in Wants
  /\ \E t \in Threads :
       /\ home[t] = None
       /\ home' = [home EXCEPT ![t] = room[m]]
       /\ exists' = exists \cup {t}
       /\ task' = [task EXCEPT ![m] = There(m, t)]
  /\ Goto(m, IF pc[m] = "ask" THEN "adopt" ELSE "adoptFork")
  /\ UNCHANGED <<menus, live, store, buffer, room, msg, delivered, goneVars,
                 switching>>

\* adoptThread; a fork binds right away, on the repo of its channel.
Adopt(m) ==
  /\ pc[m] \in {"adopt", "adoptFork"}
  /\ threads' = threads \cup {task[m].conv}
  /\ parents' = [parents EXCEPT ![task[m].conv] = task[m].parent]
  /\ Goto(m, IF pc[m] = "adopt" THEN "placed" ELSE "create")
  /\ UNCHANGED <<discord, live, bound, modes, buffer, local, delivered,
                 goneVars, switching>>

\* bindKnownRepo: the message or the room's past says which repo.
KnownRepo(m) ==
  /\ pc[m] = "placed"
  /\ Goto(m, "create")
  /\ UNCHANGED <<discord, live, store, buffer, local, delivered, goneVars,
                 switching>>

\* askRepo: the message is buffered before the menu is posted.
AskRepo(m) ==
  /\ pc[m] = "placed"
  /\ LET c == task[m].conv
     IN  /\ pending' = [pending EXCEPT ![c] = m]
         /\ jobs' = [jobs EXCEPT ![c] = task[m]]
  /\ Goto(m, "menu")
  /\ UNCHANGED <<discord, live, store, local, delivered, goneVars, switching>>

MenuPosted(m) ==
  /\ pc[m] = "menu" /\ task[m].conv \in exists
  /\ menus' = menus \cup {task[m].conv}
  /\ Goto(m, "asked")
  /\ UNCHANGED <<exists, home, live, store, buffer, local, delivered,
                 goneVars, switching>>

MenuFails(m) ==
  /\ pc[m] = "menu"
  /\ Unbuffer(task[m].conv)
  /\ Goto(m, "failed")
  /\ UNCHANGED <<discord, live, store, local, delivered, goneVars, switching>>

-----------------------------------------------------------------------------
(* onBindPick and bind.                                                    *)

TakeKeepsBuffer(c) == UNCHANGED buffer
\* The click takes the message and the job out of the buffer.
TakeBuffered(c) == Unbuffer(c)

\* A click of the one who asked, or on a menu nobody's message waits for.
Click(k) ==
  /\ pc[k] = "new" /\ MayCome
  /\ \E c \in menus \cap exists, u \in Users :
       /\ pending[c] # None => Author[pending[c]] = u
       /\ msg' = [msg EXCEPT ![k] = pending[c]]
       /\ task' = [task EXCEPT ![k] =
                     IF jobs[c] = None THEN LostJob(c, u) ELSE jobs[c]]
       /\ TakeBuffered(c)
  /\ Goto(k, "create")
  /\ UNCHANGED <<discord, live, store, room, delivered, goneVars, switching>>

\* The daemon creates the session, under the name its slot gives it.
Create(h) ==
  /\ pc[h] = "create"
  /\ live' = live \cup {task[h].slot}
  /\ Goto(h, "save")
  /\ UNCHANGED <<discord, store, buffer, local, delivered, goneVars,
                 switching>>

\* It may refuse: the ping fails, and what the click took is gone.
CreateRefused(h) ==
  /\ pc[h] = "create"
  /\ Goto(h, "failed")
  /\ UNCHANGED <<discord, live, store, buffer, local, delivered, goneVars,
                 switching>>

\* Bind, and BindThread for a thread.
Save(h) ==
  /\ pc[h] = "save"
  /\ bound' = bound \cup {task[h].slot}
  /\ IF task[h].thread
     THEN /\ threads' = threads \cup {task[h].conv}
          /\ parents' = [parents EXCEPT ![task[h].conv] = task[h].parent]
     ELSE UNCHANGED <<threads, parents>>
  /\ Goto(h, IF msg[h] = None THEN "done" ELSE "replay")
  /\ UNCHANGED <<discord, live, modes, buffer, local, delivered, goneVars,
                 switching>>

\* The buffered message opens the session.
Replay(h) ==
  /\ pc[h] = "replay"
  /\ IF task[h].slot \in live
     THEN /\ delivered' = [delivered EXCEPT ![msg[h]] = @ + 1]
          /\ Goto(h, "delivered")
     ELSE Goto(h, "failed") /\ UNCHANGED delivered
  /\ UNCHANGED <<discord, live, store, buffer, local, goneVars, switching>>

-----------------------------------------------------------------------------
(* onChannelGone and endConversation.                                      *)

\* Somebody deletes a room.  Its threads go with it, unannounced.
DeleteRoom(c) ==
  /\ c \in exists /\ MayCome
  /\ exists' = exists \ ({c} \cup {t \in Threads : home[t] = c})
  /\ going' = [going EXCEPT ![c] = "announced"]
  /\ UNCHANGED <<home, menus, live, store, buffer, pc, local, delivered,
                 todo, ending, victims, switching>>

BeginGone(c) ==
  /\ going[c] = "announced"
  /\ todo' = [todo EXCEPT ![c] = Children(c)]
  /\ going' = [going EXCEPT ![c] = "next"]
  /\ UNCHANGED <<discord, live, store, buffer, pc, local, delivered, ending,
                 victims, switching>>

\* A thread while some are left, then the room itself: its sessions are
\* looked up, and the buffer forgets it.
GoneLook(c, x) ==
  /\ going[c] = "next"
  /\ IF todo[c] = {} THEN x = c ELSE x \in todo[c]
  /\ ending' = [ending EXCEPT ![c] = x]
  /\ victims' = [victims EXCEPT ![c] = SessionsIn(x)]
  /\ Unbuffer(x)
  /\ going' = [going EXCEPT ![c] = IF SessionsIn(x) = {} THEN "ended"
                                   ELSE "forget"]
  /\ UNCHANGED <<discord, live, store, pc, local, delivered, todo, switching>>

GoneForget(c) ==
  /\ going[c] = "forget"
  /\ Forget(ending[c])
  /\ going' = [going EXCEPT ![c] = "close"]
  /\ UNCHANGED <<discord, live, buffer, pc, local, delivered, todo, ending,
                 victims, switching>>

\* Interrupt and Close, forced if need be, of every session found.
GoneClose(c) ==
  /\ going[c] = "close"
  /\ live' = live \ victims[c]
  /\ going' = [going EXCEPT ![c] = "ended"]
  /\ UNCHANGED <<discord, store, buffer, pc, local, delivered, todo, ending,
                 victims, switching>>

\* A thread that was ended is forgotten, sessions or not.
GoneNext(c) ==
  /\ going[c] = "ended"
  /\ IF todo[c] = {}
     THEN /\ going' = [going EXCEPT ![c] = "over"]
          /\ UNCHANGED <<store, todo>>
     ELSE /\ Forget(ending[c])
          /\ todo' = [todo EXCEPT ![c] = @ \ {ending[c]}]
          /\ going' = [going EXCEPT ![c] = "next"]
  /\ UNCHANGED <<discord, live, buffer, pc, local, delivered, ending, victims,
                 switching>>

-----------------------------------------------------------------------------
(* setMode, and the daemon.                                                *)

\* A mode other than normal unbinds the whole room first, even when the room
\* has that mode already.
SwitchUnbind(c) ==
  /\ switching[c] = None /\ c \in exists /\ MayCome
  /\ \E mode \in Switches :
       /\ switching' = [switching EXCEPT ![c] = mode]
       /\ bound' = IF mode = "normal" THEN bound ELSE bound \ SessionsIn(c)
  /\ UNCHANGED <<discord, live, threads, parents, modes, buffer, pc, local,
                 delivered, goneVars>>

SwitchStore(c) ==
  /\ switching[c] # None
  /\ modes' = [modes EXCEPT ![c] = switching[c]]
  /\ switching' = [switching EXCEPT ![c] = None]
  /\ UNCHANGED <<discord, live, bound, threads, parents, buffer, pc, local,
                 delivered, goneVars>>

SessionEnds(s) ==
  /\ Mortal /\ s \in live
  /\ live' = live \ {s}
  /\ UNCHANGED <<discord, store, buffer, pc, local, delivered, goneVars,
                 switching>>

-----------------------------------------------------------------------------
HandleMessage(m) ==
  \/ Receive(m) \/ Look(m) \/ Submit(m) \/ SubmitRefused(m) \/ NoRepos(m)
  \/ StayHere(m) \/ OpenThread(m) \/ Adopt(m) \/ KnownRepo(m) \/ AskRepo(m)
  \/ MenuPosted(m) \/ MenuFails(m)

Bind(h) == Create(h) \/ CreateRefused(h) \/ Save(h) \/ Replay(h)

Gone(c) ==
  \/ BeginGone(c) \/ GoneForget(c) \/ GoneClose(c) \/ GoneNext(c)
  \/ \E x \in Rooms : GoneLook(c, x)

Switch(c) == SwitchUnbind(c) \/ SwitchStore(c)

Next ==
  \/ \E m \in Msgs : HandleMessage(m)
  \/ \E k \in Clicks : Click(k)
  \/ \E h \in Handlers : Bind(h)
  \/ \E c \in Rooms : DeleteRoom(c) \/ Gone(c) \/ Switch(c)
  \/ \E s \in live : SessionEnds(s)

Spec == Init /\ [][Next]_vars

-----------------------------------------------------------------------------
(* Properties.                                                             *)

\* A message is buffered with its job, and for the room the job is in: a
\* click never finds one of the two without the other.
BufferIsWhole ==
  \A c \in Rooms :
    /\ pending[c] = None <=> jobs[c] = None
    /\ jobs[c] # None => jobs[c].conv = c

\* However handlers and clicks race, a message reaches a session at most once:
\* a menu clicked twice does not replay it twice.
DeliveredOnce == \A m \in Msgs : delivered[m] <= 1

\* A ping that waits behind a menu is kept with its own job, and handed over at
\* most once, whichever click, deletion or later ping comes first.  A later ping
\* takes its place in the buffer, and a later menu that cannot be posted empties
\* the buffer, so it may also be handed over never.
PingIsKeptOnce == BufferIsWhole /\ DeliveredOnce

\* A binding is where the next message looks: the slot a session of a living
\* room is bound under is the one a message of its author is looked up under.
LookupFindsIt ==
  \A s \in bound :
    s.conv \in exists =>
      \E u \in Users : s = Slot(s.conv, u, s.conv \in threads)

\* The end of a room closes no session of a room that is still there: a forced
\* close discards work.
OnlyTheGoneAreClosed ==
  [][\A c \in Rooms : going[c] = "close" /\ going'[c] = "ended" =>
       \A s \in victims[c] : s.conv \notin exists]_vars

Recorded(c) == c \in Channels \/ parents[c] = home[c]

\* Once the end of a room is handled, nothing stays bound in it, its threads
\* included, as far as their parent was recorded right.
GoneIsUnbound ==
  Working = {} => \A s \in bound : Recorded(s.conv) => s.conv \in exists

\* What the README says of deleted rooms: every session of a room is closed
\* with it.
GoneEndsTheJob == Working = {} => \A s \in live : s.conv \in exists

\* What the README says of threads: the gateway remembers which channel each
\* thread it opened hangs off.
ThreadKeepsItsChannel ==
  \A t \in Threads \cap threads : t \in exists => parents[t] = home[t]
=============================================================================
