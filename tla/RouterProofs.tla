---------------------------- MODULE RouterProofs ----------------------------
(***************************************************************************)
(* Theorems of Router: its types, the buffer, the delivery of a message,   *)
(* and which sessions the end of a room closes.  They hold however the     *)
(* handlers interleave and whatever the scope and the modes are.  The last *)
(* two, on where a binding is, are about events that come one at a time.   *)
(***************************************************************************)
EXTENDS Router, TLAPS

\* A handler past its first action has a job, and a message its own room.
HandlerInv ==
  /\ \A m \in Msgs : msg[m] = m
  /\ \A m \in Msgs : pc[m] # "new" => room[m] \in Rooms
  /\ \A h \in Handlers : pc[h] # "new" => task[h] \in Jobs
  /\ \A h \in Handlers : pc[h] = "replay" => msg[h] \in Msgs
  /\ \A m \in Msgs : pc[m] \in {"adopt", "adoptFork"} => task[m].thread

\* The places from which a handler may still bring its message to a session.
Carrying == Places \ {"menu", "asked", "delivered", "failed", "done"}

Carries(h, m) == msg[h] = m /\ pc[h] \in Carrying

\* A message is in one place: with one handler, in the buffer of one room, or
\* delivered.  (One that is lost is in none.)
TokenInv ==
  \A m \in Msgs :
    /\ delivered[m] <= 1
    /\ \A h \in Handlers : Carries(h, m) =>
         /\ delivered[m] = 0
         /\ \A g \in Handlers : Carries(g, m) => g = h
         /\ \A c \in Rooms : pending[c] # m
    /\ \A c \in Rooms : pending[c] = m =>
         /\ delivered[m] = 0
         /\ \A d \in Rooms : pending[d] = m => d = c

\* A room that is gone for good: Discord opens a thread once.
Dead(x) == x \in Rooms \ exists /\ (x \in Threads => home[x] # None)

\* A thread that was opened.
Opened(x) == x \in Threads /\ home[x] # None

\* A job in a thread knows a thread, and takes its channel or itself for its
\* parent.
JobOK(j) ==
  j.thread => Opened(j.conv) /\ j.parent \in {j.conv, home[j.conv]}

\* No thread outlives its channel, and the store knows of nothing but threads
\* that were opened.
HomeInv ==
  /\ \A t \in Threads \cap exists : Opened(t) /\ home[t] \in exists
  /\ \A t \in threads : Opened(t)
  /\ \A x \in Rooms : parents[x] # None =>
       Opened(x) /\ parents[x] \in {x, home[x]}

\* The handlers and the buffer hold jobs of that kind.
JobInv ==
  /\ \A h \in Handlers : task[h] \in Jobs => JobOK(task[h])
  /\ \A c \in Rooms : jobs[c] \in Jobs => JobOK(jobs[c])

\* What the end of a room works on is gone.
GoneInv ==
  /\ \A c \in Rooms : going[c] # "no" => Dead(c)
  /\ \A c \in Rooms : \A x \in todo[c] : Dead(x)
  /\ \A c \in Rooms : going[c] \in {"forget", "close"} =>
       \A s \in victims[c] : Dead(s.conv)
  /\ \A c \in Rooms : going[c] \in {"forget", "close", "ended"} =>
       IF todo[c] = {} THEN ending[c] = c ELSE ending[c] \in todo[c]

IInv ==
  /\ TypeOK /\ BufferIsWhole /\ HandlerInv /\ TokenInv
  /\ HomeInv /\ JobInv /\ GoneInv

-----------------------------------------------------------------------------
\* A slot of somebody in a room is a slot.
LEMMA SlotIsSlot ==
  ASSUME NEW c \in Rooms, NEW u \in Users, NEW thread
  PROVE  Slot(c, u, thread) \in Slots
BY DEF Slot, Slots

\* The jobs the handlers make are jobs.
LEMMA JobIsJob ==
  ASSUME TypeOK
  PROVE  /\ \A c \in Rooms, u \in Users : Here(c, u) \in Jobs
         /\ \A c \in Rooms, u \in Users : LostJob(c, u) \in Jobs
         /\ \A m \in Msgs, t \in Threads :
              room[m] \in Rooms => There(m, t) \in Jobs
<1>1. ASSUME NEW c \in Rooms, NEW u \in Users
      PROVE  Here(c, u) \in Jobs
  <2>1. Slot(c, u, c \in threads) \in Slots
    BY SlotIsSlot
  <2>2. (c \in threads) \in BOOLEAN
    OBVIOUS
  <2> QED BY <2>1, <2>2 DEF Here, Jobs
<1>2. ASSUME NEW c \in Rooms, NEW u \in Users
      PROVE  LostJob(c, u) \in Jobs
  <2>1. Slot(c, u, c \in threads) \in Slots
    BY SlotIsSlot
  <2>2. (IF parents[c] = None THEN c ELSE parents[c]) \in Rooms
    BY DEF TypeOK
  <2>3. (c \in threads) \in BOOLEAN
    OBVIOUS
  <2> QED BY <2>1, <2>2, <2>3 DEF LostJob, Jobs
<1>3. ASSUME NEW m \in Msgs, NEW t \in Threads, room[m] \in Rooms
      PROVE  There(m, t) \in Jobs
  <2>1. t \in Rooms /\ Author[m] \in Users
    BY RouterAssumption DEF RouterAssumption, Rooms
  <2>2. Slot(t, Author[m], TRUE) \in Slots
    BY <2>1, SlotIsSlot
  <2> QED BY <1>3, <2>1, <2>2 DEF There, Jobs
<1> QED BY <1>1, <1>2, <1>3

\* What a job is made of.
LEMMA JobParts ==
  ASSUME NEW j \in Jobs
  PROVE  /\ j.conv \in Rooms /\ j.parent \in Rooms
         /\ j.thread \in BOOLEAN /\ j.slot \in Slots
         /\ j # None
BY RouterAssumption DEF Jobs, RouterAssumption

-----------------------------------------------------------------------------
\* The invariant holds at the start: nothing has happened.
LEMMA InitIInv == Init => IInv
<1> SUFFICES ASSUME Init PROVE IInv
  OBVIOUS
<1>1. TypeOK
  BY RouterAssumption
     DEF Init, TypeOK, Rooms, Modes, Handlers, Places, AtRest, GonePlaces,
         RouterAssumption
<1>2. BufferIsWhole
  BY DEF Init, BufferIsWhole
<1>3. HandlerInv
  BY DEF Init, HandlerInv, Handlers
<1>4. TokenInv
  <2>1. \A h \in Handlers, m \in Msgs : msg[h] = m => h = m
    BY RouterAssumption DEF Init, RouterAssumption, Handlers
  <2>2. \A c \in Rooms, m \in Msgs : pending[c] # m
    BY RouterAssumption DEF Init, RouterAssumption
  <2> QED BY <2>1, <2>2 DEF TokenInv, Carries, Init
<1>5. HomeInv /\ JobInv /\ GoneInv
  BY RouterAssumption
     DEF Init, HomeInv, JobInv, GoneInv, RouterAssumption, Rooms
<1> QED BY <1>1, <1>2, <1>3, <1>4, <1>5 DEF IInv

\* Every step keeps the types.
LEMMA TypeStep ==
  ASSUME IInv, Next
  PROVE  TypeOK'
<1> USE DEF IInv, TypeOK, Goto
<1>1. ASSUME NEW m \in Msgs, HandleMessage(m)
      PROVE  TypeOK'
  <2> m \in Handlers
    BY DEF Handlers
  <2>1. CASE Receive(m)
    <3>1. PICK c \in exists :
            /\ room' = [room EXCEPT ![m] = c]
            /\ task' = [task EXCEPT ![m] = Here(c, Author[m])]
      BY <2>1 DEF Receive
    <3>2. Here(c, Author[m]) \in Jobs
      BY <3>1, JobIsJob, RouterAssumption DEF RouterAssumption
    <3>3. pc' \in [Handlers -> Places]
      BY <2>1 DEF Receive, Places
    <3> QED BY <2>1, <3>1, <3>2, <3>3
            DEF Receive, discord, store, buffer, goneVars
  <2>2. CASE Look(m) \/ NoRepos(m) \/ KnownRepo(m)
    BY <2>2 DEF Look, NoRepos, KnownRepo, Places, AtRest, discord, store,
                buffer, local, goneVars
  <2>3. CASE Submit(m)
    BY <2>3 DEF Submit, Places, AtRest, discord, store, buffer, local,
                goneVars
  <2>4. CASE SubmitRefused(m)
    BY <2>4 DEF SubmitRefused, Places, AtRest, discord, buffer, local,
                goneVars
  <2>5. CASE StayHere(m)
    <3>1. pc[m] # "new"
      BY <2>5 DEF StayHere
    <3>2. Here(room[m], Author[m]) \in Jobs
      BY <3>1, JobIsJob, RouterAssumption DEF RouterAssumption, HandlerInv
    <3>3. pc' \in [Handlers -> Places]
      BY <2>5 DEF StayHere, Places
    <3>4. task' \in [Handlers -> Jobs \cup {None}]
      BY <2>5, <3>2 DEF StayHere
    <3> QED BY <2>5, <3>3, <3>4 DEF StayHere, discord, store, buffer, goneVars
  <2>6. CASE OpenThread(m)
    <3>1. PICK t \in Threads :
            /\ home' = [home EXCEPT ![t] = room[m]]
            /\ exists' = exists \cup {t}
            /\ task' = [task EXCEPT ![m] = There(m, t)]
      BY <2>6 DEF OpenThread
    <3>2. room[m] \in Channels /\ room[m] \in Rooms /\ t \in Rooms
      BY <2>6 DEF OpenThread, Rooms
    <3>3. There(m, t) \in Jobs
      BY <3>2, JobIsJob
    <3>4. pc' \in [Handlers -> Places]
      BY <2>6 DEF OpenThread, Places
    <3> QED BY <2>6, <3>1, <3>2, <3>3, <3>4
            DEF OpenThread, store, buffer, goneVars
  <2>7. CASE Adopt(m)
    <3>1. task[m] \in Jobs
      BY <2>7 DEF Adopt, HandlerInv
    <3>2. pc' \in [Handlers -> Places]
      BY <2>7 DEF Adopt, Places
    <3> QED BY <2>7, <3>1, <3>2, JobParts
            DEF Adopt, discord, buffer, local, goneVars
  <2>8. CASE AskRepo(m)
    <3>1. pc' \in [Handlers -> Places]
      BY <2>8 DEF AskRepo, Places
    <3> QED BY <2>8, <3>1 DEF AskRepo, discord, store, local, goneVars
  <2>9. CASE MenuPosted(m) \/ MenuFails(m)
    <3>1. task[m] \in Jobs
      BY <2>9 DEF MenuPosted, MenuFails, HandlerInv
    <3>2. pc' \in [Handlers -> Places]
      BY <2>9 DEF MenuPosted, MenuFails, Places, AtRest
    <3> QED BY <2>9, <3>1, <3>2, JobParts
            DEF MenuPosted, MenuFails, Unbuffer, discord, store, buffer,
                local, goneVars
  <2> QED BY <1>1, <2>1, <2>2, <2>3, <2>4, <2>5, <2>6, <2>7, <2>8, <2>9
          DEF HandleMessage
<1>2. ASSUME NEW k \in Clicks, Click(k)
      PROVE  TypeOK'
  <2>0. k \in Handlers
    BY DEF Handlers
  <2>1. PICK c \in menus \cap exists, u \in Users :
          /\ msg' = [msg EXCEPT ![k] = pending[c]]
          /\ task' = [task EXCEPT ![k] =
                        IF jobs[c] = None THEN LostJob(c, u) ELSE jobs[c]]
          /\ Unbuffer(c)
    BY <1>2 DEF Click, TakeBuffered
  <2>2. LostJob(c, u) \in Jobs
    BY JobIsJob
  <2>3. pc' \in [Handlers -> Places]
    BY <1>2 DEF Click, Places
  <2>4. task' \in [Handlers -> Jobs \cup {None}]
    BY <2>0, <2>1, <2>2
  <2>5. msg' \in [Handlers -> Msgs \cup {None}]
    BY <2>0, <2>1
  <2>6. pending' \in [Rooms -> Msgs \cup {None}]
        /\ jobs' \in [Rooms -> Jobs \cup {None}]
    BY <2>1 DEF Unbuffer
  <2> QED BY <1>2, <2>3, <2>4, <2>5, <2>6
          DEF Click, discord, store, goneVars
<1>3. ASSUME NEW h \in Handlers, Bind(h)
      PROVE  TypeOK'
  <2>1. pc[h] # "new" /\ task[h] \in Jobs
    BY <1>3 DEF Bind, Create, CreateRefused, Save, Replay, HandlerInv
  <2>2. pc' \in [Handlers -> Places]
    BY <1>3 DEF Bind, Create, CreateRefused, Save, Replay, Places, AtRest
  <2>3. CASE Create(h) \/ CreateRefused(h)
    BY <2>1, <2>2, <2>3, JobParts
       DEF Create, CreateRefused, discord, store, buffer, local, goneVars
  <2>4. CASE Save(h)
    BY <2>1, <2>2, <2>4, JobParts
       DEF Save, discord, buffer, local, goneVars
  <2>5. CASE Replay(h)
    BY <2>1, <2>2, <2>5
       DEF Replay, discord, store, buffer, local, goneVars
  <2> QED BY <1>3, <2>3, <2>4, <2>5 DEF Bind
<1>4. ASSUME NEW c \in Rooms, DeleteRoom(c) \/ Gone(c)
      PROVE  TypeOK'
  <2>1. CASE DeleteRoom(c) \/ BeginGone(c) \/ GoneClose(c)
    BY <2>1 DEF DeleteRoom, BeginGone, GoneClose, GonePlaces, Children,
                discord, store, buffer, local, goneVars
  <2>2. ASSUME NEW x \in Rooms, GoneLook(c, x)
        PROVE  TypeOK'
    <3>1. SessionsIn(x) \subseteq Slots
      BY DEF SessionsIn
    <3> QED BY <2>2, <3>1 DEF GoneLook, Unbuffer, GonePlaces, discord, store,
                              local
  <2>3. CASE GoneForget(c) \/ GoneNext(c)
    BY <2>3 DEF GoneForget, GoneNext, Forget, GonePlaces, Modes, SessionsIn,
                discord, store, buffer, local
  <2> QED BY <1>4, <2>1, <2>2, <2>3 DEF Gone
<1>5. ASSUME NEW c \in Rooms, Switch(c)
      PROVE  TypeOK'
  BY <1>5, RouterAssumption
     DEF Switch, SwitchUnbind, SwitchStore, Modes, RouterAssumption, SessionsIn,
         discord, buffer, local, goneVars
<1>6. ASSUME NEW s \in live, SessionEnds(s)
      PROVE  TypeOK'
  BY <1>6 DEF SessionEnds, discord, store, buffer, local, goneVars
<1> QED BY <1>1, <1>2, <1>3, <1>4, <1>5, <1>6 DEF Next

\* Every step keeps what a handler knows.
LEMMA HandlerStep ==
  ASSUME IInv, Next
  PROVE  HandlerInv'
<1> USE DEF IInv, TypeOK, HandlerInv, Goto
<1>1. ASSUME NEW m \in Msgs, HandleMessage(m)
      PROVE  HandlerInv'
  <2> m \in Handlers
    BY DEF Handlers
  <2>1. CASE Receive(m)
    <3>1. PICK c \in exists :
            /\ room' = [room EXCEPT ![m] = c]
            /\ task' = [task EXCEPT ![m] = Here(c, Author[m])]
      BY <2>1 DEF Receive
    <3>2. Here(c, Author[m]) \in Jobs
      BY <3>1, JobIsJob, RouterAssumption DEF RouterAssumption
    <3> QED BY <2>1, <3>1, <3>2 DEF Receive
  <2>2. CASE StayHere(m)
    <3>1. pc[m] # "new"
      BY <2>2 DEF StayHere
    <3>2. Here(room[m], Author[m]) \in Jobs
      BY <3>1, JobIsJob, RouterAssumption DEF RouterAssumption
    <3> QED BY <2>2, <3>1, <3>2 DEF StayHere
  <2>3. CASE OpenThread(m)
    <3>1. PICK t \in Threads : task' = [task EXCEPT ![m] = There(m, t)]
      BY <2>3 DEF OpenThread
    <3>2. room[m] \in Rooms
      BY <2>3 DEF OpenThread, Rooms
    <3>3. There(m, t) \in Jobs
      BY <3>2, JobIsJob
    <3>4. There(m, t).thread
      BY DEF There
    <3> QED BY <2>3, <3>1, <3>3, <3>4 DEF OpenThread
  <2>4. CASE ~(Receive(m) \/ StayHere(m) \/ OpenThread(m))
    <3>1. /\ pc[m] # "new" /\ UNCHANGED local
          /\ \E place \in Places \ {"replay", "adopt", "adoptFork"} :
               pc' = [pc EXCEPT ![m] = place]
      BY <1>1, <2>4
         DEF HandleMessage, Look, Submit, SubmitRefused, NoRepos, Adopt,
             KnownRepo, AskRepo, MenuPosted, MenuFails, Places, AtRest, local
    <3> QED BY <3>1 DEF local
  <2> QED BY <2>1, <2>2, <2>3, <2>4
<1>2. ASSUME NEW k \in Clicks, Click(k)
      PROVE  HandlerInv'
  <2>1. PICK c \in menus \cap exists, u \in Users :
          /\ msg' = [msg EXCEPT ![k] = pending[c]]
          /\ task' = [task EXCEPT ![k] =
                        IF jobs[c] = None THEN LostJob(c, u) ELSE jobs[c]]
    BY <1>2 DEF Click
  <2>2. LostJob(c, u) \in Jobs
    BY JobIsJob
  <2>3. k \in Handlers /\ k \notin Msgs
    BY RouterAssumption DEF Handlers, RouterAssumption
  <2>4. pc' = [pc EXCEPT ![k] = "create"] /\ room' = room
    BY <1>2 DEF Click
  <2>5. task'[k] \in Jobs
    BY <2>1, <2>2, <2>3
  <2> QED BY <2>1, <2>3, <2>4, <2>5
          DEF Handlers
<1>3. ASSUME NEW h \in Handlers, Bind(h)
      PROVE  HandlerInv'
  <2>1. pc[h] # "new" /\ UNCHANGED local
    BY <1>3 DEF Bind, Create, CreateRefused, Save, Replay
  <2>2. \E place \in Places \ {"adopt", "adoptFork"} :
          /\ pc' = [pc EXCEPT ![h] = place]
          /\ place = "replay" => msg[h] # None
    BY <1>3 DEF Bind, Create, CreateRefused, Save, Replay, Places, AtRest
  <2> QED BY <2>1, <2>2 DEF local, Handlers
<1>4. CASE \/ \E c \in Rooms : DeleteRoom(c) \/ Gone(c) \/ Switch(c)
           \/ \E s \in live : SessionEnds(s)
  <2>1. UNCHANGED <<pc, local>>
    BY <1>4 DEF DeleteRoom, Gone, BeginGone, GoneLook, GoneForget, GoneClose,
                GoneNext, Switch, SwitchUnbind, SwitchStore, SessionEnds
  <2> QED BY <2>1 DEF local
<1> QED BY <1>1, <1>2, <1>3, <1>4 DEF Next

\* Every step changes both maps of the buffer for a room, or neither.
LEMMA BufferStep ==
  ASSUME IInv, Next
  PROVE  BufferIsWhole'
<1> USE DEF IInv, TypeOK, BufferIsWhole
<1>1. ASSUME NEW c \in Rooms, Unbuffer(c)
      PROVE  BufferIsWhole'
  BY <1>1 DEF Unbuffer
<1>2. ASSUME NEW m \in Msgs, AskRepo(m)
      PROVE  BufferIsWhole'
  <2>1. task[m] \in Jobs /\ task[m] # None /\ task[m].conv \in Rooms
    BY <1>2, JobParts DEF AskRepo, HandlerInv, Handlers
  <2>2. m # None
    BY RouterAssumption DEF RouterAssumption
  <2> QED BY <1>2, <2>1, <2>2 DEF AskRepo
<1>3. ASSUME NEW m \in Msgs, MenuFails(m)
      PROVE  BufferIsWhole'
  <2>1. task[m].conv \in Rooms
    BY <1>3, JobParts DEF MenuFails, HandlerInv, Handlers
  <2> QED BY <1>1, <1>3, <2>1 DEF MenuFails
<1>4. ASSUME NEW k \in Clicks, Click(k)
      PROVE  BufferIsWhole'
  BY <1>1, <1>4 DEF Click, TakeBuffered
<1>5. ASSUME NEW c \in Rooms, NEW x \in Rooms, GoneLook(c, x)
      PROVE  BufferIsWhole'
  BY <1>1, <1>5 DEF GoneLook
<1>6. CASE UNCHANGED buffer
  BY <1>6 DEF buffer
<1>7. \/ UNCHANGED buffer
      \/ \E m \in Msgs : AskRepo(m) \/ MenuFails(m)
      \/ \E k \in Clicks : Click(k)
      \/ \E c, x \in Rooms : GoneLook(c, x)
  BY DEF Next, HandleMessage, Receive, Look, Submit, SubmitRefused, NoRepos,
         StayHere, OpenThread, Adopt, KnownRepo, MenuPosted, Bind, Create,
         CreateRefused, Save, Replay, DeleteRoom, Gone, BeginGone,
         GoneForget, GoneClose, GoneNext, Switch, SwitchUnbind, SwitchStore,
         SessionEnds
<1> QED BY <1>2, <1>3, <1>4, <1>5, <1>6, <1>7

\* Every step keeps a message in one place.
LEMMA TokenStep ==
  ASSUME IInv, Next
  PROVE  TokenInv'
<1> USE DEF IInv, TypeOK, Goto
\* A step of a handler that delivers and buffers nothing.
<1>1. ASSUME NEW h \in Handlers, NEW place,
             UNCHANGED <<msg, delivered, pending>>,
             pc' = [pc EXCEPT ![h] = place],
             place \in Carrying => pc[h] \in Carrying
      PROVE  TokenInv'
  <2>1. \A g \in Handlers, m \in Msgs : Carries(g, m)' => Carries(g, m)
    BY <1>1 DEF Carries
  <2> QED BY <1>1, <2>1 DEF TokenInv
\* A step that delivers the message of a handler, which is done then.
<1>2. ASSUME NEW h \in Handlers, Carries(h, msg[h]), msg[h] \in Msgs,
             UNCHANGED <<msg, pending>>,
             pc' = [pc EXCEPT ![h] = "delivered"],
             delivered' = [delivered EXCEPT ![msg[h]] = @ + 1]
      PROVE  TokenInv'
  <2>1. \A g \in Handlers, m \in Msgs : Carries(g, m)' =>
          Carries(g, m) /\ g # h /\ m # msg[h]
    BY <1>2 DEF Carries, Carrying, TokenInv
  <2>2. delivered[msg[h]] = 0 /\ \A c \in Rooms : pending[c] # msg[h]
    BY <1>2 DEF TokenInv
  <2>3. \A m \in Msgs : delivered'[m] = IF m = msg[h] THEN 1 ELSE delivered[m]
    BY <1>2, <2>2
  <2> QED BY <1>2, <2>1, <2>2, <2>3 DEF TokenInv
\* A step that only takes messages out of the buffer.
<1>3. ASSUME NEW c \in Rooms, Unbuffer(c), UNCHANGED <<msg, delivered, pc>>
      PROVE  TokenInv'
  <2>1. \A d \in Rooms, m \in Msgs : pending'[d] = m => pending[d] = m
    BY <1>3, RouterAssumption DEF Unbuffer, RouterAssumption
  <2> QED BY <1>3, <2>1 DEF TokenInv, Carries
<1>4. ASSUME NEW m \in Msgs, HandleMessage(m)
      PROVE  TokenInv'
  <2> m \in Handlers /\ msg[m] = m
    BY DEF Handlers, HandlerInv
  <2>1. CASE Submit(m)
    <3>1. Carries(m, m)
      BY <2>1 DEF Submit, Carries, Carrying, Places
    <3> QED BY <1>2, <2>1, <3>1 DEF Submit, buffer, local
  <2>2. CASE AskRepo(m)
    <3>1. Carries(m, m)
      BY <2>2 DEF AskRepo, Carries, Carrying, Places
    <3>2. delivered[m] = 0 /\ \A c \in Rooms : pending[c] # m
      BY <3>1 DEF TokenInv
    <3>3. PICK c \in Rooms : pending' = [pending EXCEPT ![c] = m]
      <4>1. task[m] \in Jobs
        BY <2>2 DEF AskRepo, HandlerInv
      <4> QED BY <2>2, <4>1, JobParts DEF AskRepo
    <3>4. UNCHANGED <<msg, delivered>> /\ pc' = [pc EXCEPT ![m] = "menu"]
      BY <2>2 DEF AskRepo, local
    <3>5. \A g \in Handlers, n \in Msgs : Carries(g, n)' =>
            Carries(g, n) /\ n # m
      BY <3>1, <3>4 DEF Carries, Carrying, TokenInv
    <3> QED BY <3>2, <3>3, <3>4, <3>5 DEF TokenInv
  <2>3. CASE MenuFails(m)
    <3>1. PICK c \in Rooms : Unbuffer(c)
      BY <2>3, JobParts DEF MenuFails, HandlerInv
    <3>2. \A d \in Rooms, n \in Msgs : pending'[d] = n => pending[d] = n
      BY <3>1, RouterAssumption DEF Unbuffer, RouterAssumption
    <3>3. \A g \in Handlers, n \in Msgs : Carries(g, n)' => Carries(g, n)
      BY <2>3 DEF MenuFails, Carries, Carrying, local
    <3>4. delivered' = delivered
      BY <2>3 DEF MenuFails
    <3> QED BY <3>2, <3>3, <3>4 DEF TokenInv
  <2>4. CASE ~(Submit(m) \/ AskRepo(m) \/ MenuFails(m))
    <3>1. /\ UNCHANGED <<msg, delivered, pending>>
          /\ \E place : /\ pc' = [pc EXCEPT ![m] = place]
                        /\ place \in Carrying => pc[m] \in Carrying
      BY <1>4, <2>4
         DEF HandleMessage, Receive, Look, SubmitRefused, NoRepos, StayHere,
             OpenThread, Adopt, KnownRepo, MenuPosted, Carrying, Places,
             AtRest, local, buffer
    <3> QED BY <1>1, <3>1
  <2> QED BY <2>1, <2>2, <2>3, <2>4
<1>5. ASSUME NEW k \in Clicks, Click(k)
      PROVE  TokenInv'
  <2>1. PICK c \in Rooms :
          /\ msg' = [msg EXCEPT ![k] = pending[c]]
          /\ Unbuffer(c)
    BY <1>5 DEF Click, TakeBuffered
  <2>2. pc' = [pc EXCEPT ![k] = "create"] /\ delivered' = delivered
    BY <1>5 DEF Click
  <2>3. k \in Handlers
    BY DEF Handlers
  <2>4. \A d \in Rooms, m \in Msgs :
          pending'[d] = m => pending[d] = m /\ d # c
    BY <2>1, RouterAssumption DEF Unbuffer, RouterAssumption
  <2>5. \A g \in Handlers, m \in Msgs :
          Carries(g, m)' => IF g = k THEN pending[c] = m ELSE Carries(g, m)
    BY <2>1, <2>2, <2>3 DEF Carries
  <2>6. \A m \in Msgs : pending[c] = m =>
          /\ delivered[m] = 0
          /\ \A g \in Handlers : ~Carries(g, m)
          /\ \A d \in Rooms : pending[d] = m => d = c
    BY <2>1 DEF TokenInv
  <2>7. ASSUME NEW m \in Msgs, pending[c] = m
        PROVE  /\ delivered'[m] = 0
               /\ \A g \in Handlers : Carries(g, m)' => g = k
               /\ \A d \in Rooms : pending'[d] # m
    BY <2>2, <2>4, <2>5, <2>6, <2>7
  <2>8. ASSUME NEW m \in Msgs, pending[c] # m
        PROVE  \A g \in Handlers : Carries(g, m)' => Carries(g, m)
    BY <2>5, <2>8
  <2> QED BY <2>2, <2>4, <2>7, <2>8 DEF TokenInv
<1>6. ASSUME NEW h \in Handlers, Bind(h)
      PROVE  TokenInv'
  <2>1. CASE Replay(h) /\ task[h].slot \in live
    <3>1. msg[h] \in Msgs /\ Carries(h, msg[h])
      BY <2>1 DEF Replay, HandlerInv, Carries, Carrying, Places
    <3> QED BY <1>2, <2>1, <3>1 DEF Replay, buffer, local
  <2>2. CASE ~(Replay(h) /\ task[h].slot \in live)
    <3>1. /\ UNCHANGED <<msg, delivered, pending>>
          /\ \E place : /\ pc' = [pc EXCEPT ![h] = place]
                        /\ place \in Carrying => pc[h] \in Carrying
      BY <1>6, <2>2
         DEF Bind, Create, CreateRefused, Save, Replay, Carrying, Places,
             AtRest, local, buffer
    <3> QED BY <1>1, <3>1
  <2> QED BY <2>1, <2>2
<1>7. ASSUME NEW c \in Rooms, NEW x \in Rooms, GoneLook(c, x)
      PROVE  TokenInv'
  BY <1>3, <1>7 DEF GoneLook, local
<1>8. CASE UNCHANGED <<msg, delivered, pc, pending>>
  BY <1>8 DEF TokenInv, Carries
<1>9. ASSUME \/ \E c \in Rooms : DeleteRoom(c) \/ Gone(c) \/ Switch(c)
             \/ \E s \in live : SessionEnds(s)
      PROVE  TokenInv'
  <2>1. \/ UNCHANGED <<msg, delivered, pc, pending>>
        \/ \E c, x \in Rooms : GoneLook(c, x)
    BY <1>9 DEF DeleteRoom, Gone, BeginGone, GoneForget, GoneClose, GoneNext,
                Switch, SwitchUnbind, SwitchStore, SessionEnds, local, buffer
  <2> QED BY <1>7, <1>8, <2>1
<1> QED BY <1>4, <1>5, <1>6, <1>9 DEF Next

-----------------------------------------------------------------------------
\* A job made for a room that is known is one of the jobs the store expects.
LEMMA JobIsOK ==
  ASSUME IInv
  PROVE  \A c \in Rooms, u \in Users :
           JobOK(Here(c, u)) /\ JobOK(LostJob(c, u))
<1> SUFFICES ASSUME NEW c \in Rooms, NEW u \in Users
             PROVE  JobOK(Here(c, u)) /\ JobOK(LostJob(c, u))
  OBVIOUS
<1>1. c \in threads => Opened(c)
  BY DEF IInv, HomeInv
<1>2. c \in threads =>
        (IF parents[c] = None THEN c ELSE parents[c]) \in {c, home[c]}
  BY DEF IInv, HomeInv
<1> QED BY <1>1, <1>2 DEF JobOK, Here, LostJob

\* What is opened stays opened, in the same channel, and what is dead stays so.
LEMMA RoomsStable ==
  ASSUME IInv, Next
  PROVE  /\ \A x \in Rooms : Opened(x) => Opened(x)' /\ home'[x] = home[x]
         /\ \A x \in Rooms : Dead(x) => Dead(x)'
         /\ \A j \in Jobs : JobOK(j) => JobOK(j)'
<1>1. /\ \A x \in Rooms : Opened(x) => Opened(x)' /\ home'[x] = home[x]
      /\ \A x \in Rooms : Dead(x) => Dead(x)'
  <2>1. CASE \E m \in Msgs : OpenThread(m)
    <3>1. PICK m \in Msgs, t \in Threads :
            /\ room[m] \in Channels /\ home[t] = None
            /\ home' = [home EXCEPT ![t] = room[m]]
            /\ exists' = exists \cup {t}
      BY <2>1 DEF OpenThread
    <3>2. room[m] # None
      BY <3>1, RouterAssumption DEF RouterAssumption, Rooms
    <3> QED BY <3>1, <3>2 DEF Opened, Dead, IInv, TypeOK
  <2>2. CASE \E c \in Rooms : DeleteRoom(c)
    BY <2>2 DEF DeleteRoom, Opened, Dead
  <2>3. CASE UNCHANGED <<home, exists>>
    BY <2>3 DEF Opened, Dead
  <2>4. \/ UNCHANGED <<home, exists>>
        \/ \E m \in Msgs : OpenThread(m)
        \/ \E c \in Rooms : DeleteRoom(c)
    BY DEF Next, HandleMessage, Receive, Look, Submit, SubmitRefused, NoRepos,
           StayHere, Adopt, KnownRepo, AskRepo, MenuPosted, MenuFails, Click,
           Bind, Create, CreateRefused, Save, Replay, Gone, BeginGone,
           GoneLook, GoneForget, GoneClose, GoneNext, Switch, SwitchUnbind,
           SwitchStore, SessionEnds, discord
  <2> QED BY <2>1, <2>2, <2>3, <2>4
<1> QED BY <1>1, JobParts DEF JobOK

\* Every step keeps what the rooms and the store are to each other.
LEMMA HomeStep ==
  ASSUME IInv, Next
  PROVE  HomeInv'
<1> USE DEF IInv, TypeOK
\* The store learns of a thread from a job.
<1>1. ASSUME NEW h \in Handlers, task[h] \in Jobs, task[h].thread,
             UNCHANGED <<home, exists>>,
             threads' = threads \cup {task[h].conv},
             parents' = [parents EXCEPT ![task[h].conv] = task[h].parent]
      PROVE  HomeInv'
  <2>1. Opened(task[h].conv)
        /\ task[h].parent \in {task[h].conv, home[task[h].conv]}
    BY <1>1 DEF JobInv, JobOK
  <2>2. task[h].conv \in Rooms
    BY <1>1, JobParts
  <2> QED BY <1>1, <2>1, <2>2 DEF HomeInv, Opened
<1>2. ASSUME NEW x \in Rooms, Forget(x), UNCHANGED <<home, exists>>
      PROVE  HomeInv'
  BY <1>2 DEF Forget, HomeInv, Opened
<1>3. CASE UNCHANGED <<home, exists, threads, parents>>
  BY <1>3 DEF HomeInv, Opened
<1>4. ASSUME NEW m \in Msgs, Adopt(m)
      PROVE  HomeInv'
  <2>1. task[m] \in Jobs /\ m \in Handlers
    BY <1>4 DEF Adopt, HandlerInv, Handlers
  <2>2. task[m].thread
    BY <1>4 DEF Adopt, HandlerInv
  <2> QED BY <1>1, <1>4, <2>1, <2>2 DEF Adopt, discord
<1>5. ASSUME NEW h \in Handlers, Save(h)
      PROVE  HomeInv'
  <2>1. task[h] \in Jobs
    BY <1>5 DEF Save, HandlerInv
  <2> QED BY <1>1, <1>3, <1>5, <2>1 DEF Save, discord
<1>6. ASSUME NEW m \in Msgs, OpenThread(m)
      PROVE  HomeInv'
  <2>1. PICK t \in Threads :
          /\ room[m] \in exists \cap Channels /\ home[t] = None
          /\ home' = [home EXCEPT ![t] = room[m]]
          /\ exists' = exists \cup {t}
    BY <1>6 DEF OpenThread
  <2>2. room[m] # None
    BY <2>1, RouterAssumption DEF RouterAssumption
  <2>3. UNCHANGED <<threads, parents>>
    BY <1>6 DEF OpenThread, store
  <2> QED BY <2>1, <2>2, <2>3 DEF HomeInv, Opened
<1>7. ASSUME NEW c \in Rooms, DeleteRoom(c)
      PROVE  HomeInv'
  <2>1. \A t \in Threads \cap exists : home[t] # t /\ home[t] \in Channels
    BY RouterAssumption DEF HomeInv, Opened, RouterAssumption
  <2>2. UNCHANGED <<home, threads, parents>>
        /\ exists' = exists \ ({c} \cup {t \in Threads : home[t] = c})
    BY <1>7 DEF DeleteRoom, store
  <2>3. \A t \in Threads \cap exists' : Opened(t) /\ home[t] \in exists'
    BY <2>1, <2>2, RouterAssumption DEF HomeInv, Opened, RouterAssumption
  <2> QED BY <2>2, <2>3 DEF HomeInv, Opened
<1>8. ASSUME NEW c \in Rooms, GoneForget(c) \/ GoneNext(c)
      PROVE  HomeInv'
  <2>1. ending[c] \in Rooms
    BY <1>8 DEF GoneForget, GoneNext, GoneInv
  <2> QED BY <1>2, <1>3, <1>8, <2>1 DEF GoneForget, GoneNext, discord, store
<1>9. \/ UNCHANGED <<home, exists, threads, parents>>
      \/ \E m \in Msgs : Adopt(m) \/ OpenThread(m)
      \/ \E h \in Handlers : Save(h)
      \/ \E c \in Rooms : DeleteRoom(c) \/ GoneForget(c) \/ GoneNext(c)
  BY DEF Next, HandleMessage, Receive, Look, Submit, SubmitRefused, NoRepos,
         StayHere, KnownRepo, AskRepo, MenuPosted, MenuFails, Click, Bind,
         Create, CreateRefused, Replay, Gone, BeginGone, GoneLook, GoneClose,
         Switch, SwitchUnbind, SwitchStore, SessionEnds, discord, store
<1> QED BY <1>3, <1>4, <1>5, <1>6, <1>7, <1>8, <1>9

\* Every step keeps the jobs right: a new one is made by a handler, and the
\* buffer and the clicks pass on what they got.
LEMMA JobStep ==
  ASSUME IInv, Next
  PROVE  JobInv'
<1> USE DEF IInv, TypeOK, JobInv
<1>0. None \notin Jobs
  BY RouterAssumption DEF RouterAssumption
\* A handler that has got a job may have taken it out of the buffer.
<1>1. ASSUME NEW h \in Handlers, NEW j \in Jobs, JobOK(j),
             task' = [task EXCEPT ![h] = j],
             \A c \in Rooms : jobs'[c] \in {jobs[c], None}
      PROVE  JobInv'
  BY <1>0, <1>1, RoomsStable
<1>2. ASSUME task' = task, \A c \in Rooms : jobs'[c] \in {jobs[c], None}
      PROVE  JobInv'
  BY <1>0, <1>2, RoomsStable
<1>3. ASSUME NEW m \in Msgs, HandleMessage(m)
      PROVE  JobInv'
  <2> m \in Handlers /\ Author[m] \in Users
    BY RouterAssumption DEF Handlers, RouterAssumption
  <2>1. CASE Receive(m)
    <3>1. PICK c \in Rooms : task' = [task EXCEPT ![m] = Here(c, Author[m])]
      BY <2>1 DEF Receive
    <3>2. PICK j \in Jobs : j = Here(c, Author[m]) /\ JobOK(j)
      BY JobIsJob, JobIsOK
    <3> QED BY <1>1, <2>1, <3>1, <3>2 DEF Receive, buffer
  <2>2. CASE StayHere(m)
    <3>1. room[m] \in Rooms
      BY <2>2 DEF StayHere, HandlerInv
    <3>2. PICK j \in Jobs : j = Here(room[m], Author[m]) /\ JobOK(j)
      BY <3>1, JobIsJob, JobIsOK
    <3> QED BY <1>1, <1>2, <2>2, <3>2 DEF StayHere, buffer
  <2>3. CASE OpenThread(m)
    <3>1. PICK t \in Threads :
            /\ home' = [home EXCEPT ![t] = room[m]]
            /\ task' = [task EXCEPT ![m] = There(m, t)]
      BY <2>3 DEF OpenThread
    <3>2. room[m] \in Rooms /\ room[m] # None
      BY <2>3, RouterAssumption DEF OpenThread, Rooms, RouterAssumption
    <3>3. PICK j \in Jobs : j = There(m, t)
      BY <3>2, JobIsJob
    <3>4. j.conv = t /\ j.parent = room[m]
      BY <3>3 DEF There
    <3>5. JobOK(j)'
      BY <3>1, <3>2, <3>4 DEF JobOK, Opened
    <3>6. UNCHANGED jobs
      BY <2>3 DEF OpenThread, buffer
    <3> QED BY <1>0, <3>1, <3>3, <3>5, <3>6, RoomsStable
  <2>4. CASE AskRepo(m)
    <3>1. task[m] \in Jobs /\ JobOK(task[m])
      BY <2>4 DEF AskRepo, HandlerInv
    <3>2. PICK j \in Jobs : j = task[m] /\ JobOK(j)'
      BY <3>1, RoomsStable
    <3>3. \A c \in Rooms : jobs'[c] \in {jobs[c], j}
      BY <2>4, <3>2 DEF AskRepo
    <3>4. UNCHANGED task
      BY <2>4 DEF AskRepo, local
    <3> QED BY <3>2, <3>3, <3>4, RoomsStable
  <2>5. CASE ~(Receive(m) \/ StayHere(m) \/ OpenThread(m) \/ AskRepo(m))
    BY <1>2, <1>3, <2>5
       DEF HandleMessage, Look, Submit, SubmitRefused, NoRepos, Adopt,
           KnownRepo, MenuPosted, MenuFails, Unbuffer, local, buffer
  <2> QED BY <2>1, <2>2, <2>3, <2>4, <2>5
<1>4. ASSUME NEW k \in Clicks, Click(k)
      PROVE  JobInv'
  <2>1. PICK c \in Rooms, u \in Users :
          /\ task' = [task EXCEPT ![k] =
                        IF jobs[c] = None THEN LostJob(c, u) ELSE jobs[c]]
          /\ Unbuffer(c)
    BY <1>4 DEF Click, TakeBuffered
  <2>2. PICK j \in Jobs :
          /\ j = IF jobs[c] = None THEN LostJob(c, u) ELSE jobs[c]
          /\ JobOK(j)
    BY JobIsJob, JobIsOK
  <2> QED BY <1>1, <2>1, <2>2 DEF Unbuffer, Handlers
<1>5. ASSUME \/ \E h \in Handlers : Bind(h)
             \/ \E c \in Rooms : DeleteRoom(c) \/ Gone(c) \/ Switch(c)
             \/ \E s \in live : SessionEnds(s)
      PROVE  JobInv'
  <2>1. task' = task /\ \A c \in Rooms : jobs'[c] \in {jobs[c], None}
    BY <1>5 DEF Bind, Create, CreateRefused, Save, Replay, DeleteRoom, Gone,
                BeginGone, GoneLook, GoneForget, GoneClose, GoneNext, Unbuffer,
                Switch, SwitchUnbind, SwitchStore, SessionEnds, local, buffer
  <2> QED BY <1>2, <2>1
<1> QED BY <1>3, <1>4, <1>5 DEF Next

\* Every step keeps what the end of a room works on among the dead: a room
\* whose recorded parent is gone is that parent, or a thread that went with it.
LEMMA GoneStep ==
  ASSUME IInv, Next
  PROVE  GoneInv'
<1> USE DEF IInv, TypeOK, GoneInv
<1>0. /\ \A c \in Rooms : Dead(c) => Dead(c)'
      /\ \A s \in Slots : Dead(s.conv) => Dead(s.conv)'
  <2>1. \A s \in Slots : s.conv \in Rooms
    BY DEF Slots
  <2> QED BY <2>1, RoomsStable
\* A step of the end of one room.
<1>1. ASSUME NEW c \in Rooms, NEW place,
             going' = [going EXCEPT ![c] = place],
             Dead(c)', \A x \in todo'[c] : Dead(x)',
             place \in {"forget", "close"} =>
               \A s \in victims'[c] : Dead(s.conv)',
             place \in {"forget", "close", "ended"} =>
               IF todo'[c] = {} THEN ending'[c] = c ELSE ending'[c] \in todo'[c],
             \A d \in Rooms \ {c} : /\ todo'[d] = todo[d]
                                    /\ victims'[d] = victims[d]
                                    /\ ending'[d] = ending[d]
      PROVE  GoneInv'
  <2>1. ASSUME NEW d \in Rooms, d # c
        PROVE  /\ going'[d] # "no" => Dead(d)'
               /\ \A x \in todo'[d] : Dead(x)'
               /\ going'[d] \in {"forget", "close"} =>
                    \A s \in victims'[d] : Dead(s.conv)'
               /\ going'[d] \in {"forget", "close", "ended"} =>
                    IF todo'[d] = {} THEN ending'[d] = d
                    ELSE ending'[d] \in todo'[d]
    <3>1. /\ going'[d] = going[d] /\ todo'[d] = todo[d]
          /\ victims'[d] = victims[d] /\ ending'[d] = ending[d]
      BY <1>1, <2>1
    <3>2. todo[d] \subseteq Rooms /\ victims[d] \subseteq Slots
      OBVIOUS
    <3> QED BY <1>0, <3>1, <3>2
  <2>2. going'[c] = place
    BY <1>1
  <2> QED BY <1>1, <2>1, <2>2
<1>2. ASSUME NEW c \in Rooms, DeleteRoom(c)
      PROVE  GoneInv'
  <2>1. Dead(c)'
    BY <1>2 DEF DeleteRoom, Dead, HomeInv, Opened
  <2>2. \A x \in todo[c] : Dead(x)'
    BY <1>0
  <2> QED BY <1>1, <1>2, <2>1, <2>2 DEF DeleteRoom
<1>3. ASSUME NEW c \in Rooms, BeginGone(c)
      PROVE  GoneInv'
  <2>1. Dead(c)
    BY <1>3 DEF BeginGone
  <2>2. ASSUME NEW x \in Children(c)
        PROVE  Dead(x)'
    <3>1. x \in Rooms /\ parents[x] = c /\ c # None
      BY RouterAssumption DEF Children, RouterAssumption
    <3>2. Opened(x) /\ c \in {x, home[x]}
      BY <3>1 DEF HomeInv
    <3>3. Dead(x)
      BY <2>1, <3>1, <3>2 DEF HomeInv, Opened, Dead
    <3> QED BY <1>0, <3>1, <3>3
  <2>3. Dead(c)' /\ todo'[c] = Children(c)
    BY <1>0, <1>3, <2>1 DEF BeginGone
  <2> QED BY <1>1, <1>3, <2>2, <2>3 DEF BeginGone
<1>4. ASSUME NEW c \in Rooms, NEW x \in Rooms, GoneLook(c, x)
      PROVE  GoneInv'
  <2>1. Dead(c) /\ Dead(x)
    BY <1>4 DEF GoneLook
  <2>2. \A s \in SessionsIn(x) : Dead(s.conv)'
    BY <1>0, <2>1 DEF SessionsIn
  <2>3. \A y \in todo[c] : Dead(y)'
    BY <1>0
  <2>4. /\ victims'[c] = SessionsIn(x) /\ ending'[c] = x
        /\ IF todo'[c] = {} THEN x = c ELSE x \in todo'[c]
    BY <1>4 DEF GoneLook
  <2> QED BY <1>0, <1>1, <1>4, <2>1, <2>2, <2>3, <2>4 DEF GoneLook
<1>5. ASSUME NEW c \in Rooms, GoneForget(c) \/ GoneNext(c)
      PROVE  GoneInv'
  <2>1. Dead(c)' /\ \A y \in todo[c] : Dead(y)'
    BY <1>0, <1>5 DEF GoneForget, GoneNext
  <2>2. GoneForget(c) => \A s \in victims[c] : Dead(s.conv)'
    BY <1>0 DEF GoneForget
  <2> QED BY <1>1, <1>5, <2>1, <2>2 DEF GoneForget, GoneNext
<1>6. ASSUME NEW c \in Rooms, GoneClose(c)
      PROVE  GoneInv'
  <2>1. Dead(c)' /\ \A y \in todo[c] : Dead(y)'
    BY <1>0, <1>6 DEF GoneClose
  <2> QED BY <1>1, <1>6, <2>1 DEF GoneClose
<1>7. ASSUME UNCHANGED goneVars
      PROVE  GoneInv'
  <2>1. \A c \in Rooms : todo[c] \subseteq Rooms /\ victims[c] \subseteq Slots
    OBVIOUS
  <2> QED BY <1>0, <1>7, <2>1 DEF goneVars
<1>8. \/ UNCHANGED goneVars
      \/ \E c \in Rooms : \/ DeleteRoom(c) \/ BeginGone(c) \/ GoneForget(c)
                         \/ GoneClose(c) \/ GoneNext(c)
      \/ \E c, x \in Rooms : GoneLook(c, x)
  BY DEF Next, HandleMessage, Receive, Look, Submit, SubmitRefused, NoRepos,
         StayHere, OpenThread, Adopt, KnownRepo, AskRepo, MenuPosted,
         MenuFails, Click, Bind, Create, CreateRefused, Save, Replay, Gone,
         Switch, SwitchUnbind, SwitchStore, SessionEnds
<1> QED BY <1>2, <1>3, <1>4, <1>5, <1>6, <1>7, <1>8

-----------------------------------------------------------------------------
\* The invariant holds in every reachable state.
THEOREM Invariance == Spec => []IInv
<1>1. IInv /\ UNCHANGED vars => IInv'
  BY DEF IInv, TypeOK, BufferIsWhole, HandlerInv, TokenInv, Carries, HomeInv,
         JobInv, JobOK, GoneInv, Dead, Opened, vars, discord, store, buffer,
         local, goneVars
<1>2. IInv /\ Next => IInv'
  BY TypeStep, HandlerStep, BufferStep, TokenStep, HomeStep, JobStep, GoneStep
     DEF IInv
<1>3. IInv /\ [Next]_vars => IInv'
  BY <1>1, <1>2
<1> QED BY InitIInv, <1>3, PTL DEF Spec

\* The state of the router keeps its types.
THEOREM TypeCorrect == Spec => []TypeOK
<1>1. IInv => TypeOK
  BY DEF IInv
<1> QED BY Invariance, <1>1, PTL

\* A click finds a buffered message with its job, or neither.
THEOREM Whole == Spec => []BufferIsWhole
<1>1. IInv => BufferIsWhole
  BY DEF IInv
<1> QED BY Invariance, <1>1, PTL

\* No message reaches a session twice, however handlers and clicks race.
THEOREM AtMostOnce == Spec => []DeliveredOnce
<1>1. IInv => DeliveredOnce
  BY DEF IInv, TokenInv, DeliveredOnce
<1> QED BY Invariance, <1>1, PTL

\* The end of a room closes no session of a room that is still there.
THEOREM OnlyTheGone == Spec => OnlyTheGoneAreClosed
<1> DEFINE Step == \A c \in Rooms : going[c] = "close" /\ going'[c] = "ended" =>
                     \A s \in victims[c] : s.conv \notin exists
<1>1. IInv => Step
  BY DEF IInv, GoneInv, Dead
<1>2. IInv /\ [Next]_vars => [Step]_vars
  BY <1>1
<1>3. Spec => [][Step]_vars
  BY Invariance, <1>2, PTL DEF Spec
<1> QED BY <1>3 DEF OnlyTheGoneAreClosed

\* A ping behind a menu keeps its job until it is gone, and is handed over at most
\* once.
THEOREM PingKept == Spec => []PingIsKeptOnce
<1>1. BufferIsWhole /\ DeliveredOnce => PingIsKeptOnce
  BY DEF PingIsKeptOnce
<1> QED BY <1>1, Whole, AtMostOnce, PTL
-----------------------------------------------------------------------------
(* One event at a time.                                                    *)

Busy(h) == pc[h] \notin AtRest
Leaving(c) == going[c] \notin {"no", "over"}
Switching(c) == switching[c] # None

\* One event is handled, or none.
Alone ==
  /\ \A g, h \in Handlers : Busy(g) /\ Busy(h) => g = h
  /\ \A c, d \in Rooms : Leaving(c) /\ Leaving(d) => c = d
  /\ \A c, d \in Rooms : Switching(c) /\ Switching(d) => c = d
  /\ \A h \in Handlers, c \in Rooms : Busy(h) => ~Leaving(c) /\ ~Switching(c)
  /\ \A c, d \in Rooms : Leaving(c) => ~Switching(d)

\* A room that is there, or was.
Seen(x) == x \in Channels \/ Opened(x)

\* A job takes its room for what it is, and its slot is one of that room.
Fits(j) ==
  /\ j.thread <=> j.conv \in Threads
  /\ \E u \in Users : j.slot = Slot(j.conv, u, j.thread)

\* A handler works in rooms that are there.
AtWork ==
  /\ \A m \in Msgs : Busy(m) => room[m] \in exists
  /\ \A h \in Handlers : Busy(h) => task[h].conv \in exists /\ Fits(task[h])

\* What waits behind a menu was right when it was put there, and is as long as
\* the room is there.
Waiting ==
  \A c \in Rooms : jobs[c] \in Jobs =>
    Seen(c) /\ (c \in exists => Fits(jobs[c]))

Adopting(m, t) == pc[m] \in {"adopt", "adoptFork"} /\ task[m].conv = t

\* The store knows every thread but the one that is being adopted, and in that
\* one nothing is bound.
Adopted ==
  /\ \A t \in Threads \cap exists :
       t \in threads \/ \E m \in Msgs : Adopting(m, t)
  /\ \A m \in Msgs : \A s \in bound : ~Adopting(m, s.conv)

\* The rooms the end of c is still to forget.
ToForget(c, x) ==
  CASE going[c] = "announced" -> x = c \/ parents[x] = c
    [] going[c] \in {"next", "forget"} -> x = c \/ x \in todo[c]
    [] going[c] \in {"close", "ended"} ->
         todo[c] # {} /\ (x = c \/ x \in todo[c])
    [] OTHER -> FALSE

\* A binding of a room that is there is where its user looks; one of a room
\* that is not is about to be forgotten.
BoundRight ==
  \A s \in bound :
    /\ Seen(s.conv)
    /\ s.conv \in exists =>
         \E u \in Users : s = Slot(s.conv, u, s.conv \in Threads)
    /\ s.conv \notin exists /\ Recorded(s.conv) =>
         \E c \in Rooms : ToForget(c, s.conv)

SoloInv == Alone /\ AtWork /\ Waiting /\ Adopted /\ BoundRight

-----------------------------------------------------------------------------
\* One event at a time: nothing is left of another when one comes.
LEMMA ComesAlone ==
  ASSUME OneAtATime, MayCome, IInv
  PROVE  /\ \A h \in Handlers : ~Busy(h)
         /\ \A c \in Rooms : ~Leaving(c) /\ ~Switching(c)
BY DEF MayCome, Working, Busy, Leaving, Switching

\* A room that is there was seen; one that was seen does not come back, and
\* stays in the channel it was opened in.
LEMMA SeenStable ==
  ASSUME IInv, Next
  PROVE  /\ \A x \in exists : Seen(x)
         /\ \A x \in Rooms : Seen(x) => Seen(x)' /\ (x \in exists' => x \in exists)
         /\ \A x \in Threads : Seen(x) => home'[x] = home[x]
<1>1. \A x \in exists : Seen(x)
  BY DEF IInv, HomeInv, TypeOK, Seen, Rooms
<1>2. ASSUME NEW x \in Rooms, Seen(x), x \notin exists
      PROVE  x \notin exists'
  <2>1. Dead(x)
    BY <1>2, RouterAssumption DEF Seen, Opened, Dead, RouterAssumption
  <2> QED BY <2>1, RoomsStable DEF Dead
<1>3. \A x \in Rooms : Seen(x) => Seen(x)'
  BY RoomsStable DEF Seen
<1>4. \A x \in Threads : Seen(x) => home'[x] = home[x]
  BY RoomsStable, RouterAssumption DEF Seen, RouterAssumption, Rooms
<1> QED BY <1>1, <1>2, <1>3, <1>4

\* The jobs made for a room that is there fit, when no thread of it is being
\* adopted.
LEMMA JobsFit ==
  ASSUME IInv, NEW c \in exists, NEW u \in Users,
         c \in Threads => c \in threads
  PROVE  Fits(Here(c, u)) /\ Fits(LostJob(c, u))
<1>1. c \in threads <=> c \in Threads
  BY DEF IInv, HomeInv, Opened
<1> QED BY <1>1 DEF Fits, Here, LostJob

\* At the start nothing is handled, and nothing is known.
LEMMA InitSolo == Init => SoloInv
<1> SUFFICES ASSUME Init PROVE SoloInv
  OBVIOUS
<1>1. Alone /\ AtWork
  BY DEF Init, Alone, AtWork, Busy, Leaving, Switching, AtRest, Handlers
<1>2. Waiting
  BY RouterAssumption DEF Init, Waiting, RouterAssumption
<1>3. Adopted /\ BoundRight
  BY RouterAssumption DEF Init, Adopted, BoundRight, RouterAssumption
<1> QED BY <1>1, <1>2, <1>3 DEF SoloInv

\* Every step leaves one event to be handled, or none.
LEMMA AloneStep ==
  ASSUME OneAtATime, IInv, Alone, Next
  PROVE  Alone'
<1> USE DEF IInv, TypeOK, Goto
\* A step of a handler at work.
<1>1. ASSUME NEW h \in Handlers, Busy(h), NEW place,
             pc' = [pc EXCEPT ![h] = place], UNCHANGED <<going, switching>>
      PROVE  Alone'
  BY <1>1 DEF Alone, Busy, Leaving, Switching
\* A step of the end of a room.
<1>2. ASSUME NEW c \in Rooms, Leaving(c), NEW place,
             going' = [going EXCEPT ![c] = place], UNCHANGED <<pc, switching>>
      PROVE  Alone'
  BY <1>2 DEF Alone, Busy, Leaving, Switching
<1>3. ASSUME NEW h \in Handlers, NEW place, MayCome,
             pc' = [pc EXCEPT ![h] = place], UNCHANGED <<going, switching>>
      PROVE  Alone'
  BY <1>3, ComesAlone DEF Alone, Busy, Leaving, Switching
<1>4. ASSUME NEW c \in Rooms, DeleteRoom(c)
      PROVE  Alone'
  BY <1>4, ComesAlone DEF DeleteRoom, Alone, Busy, Leaving, Switching
<1>5. ASSUME NEW c \in Rooms, SwitchUnbind(c)
      PROVE  Alone'
  <2>1. /\ UNCHANGED <<pc, going>>
        /\ \A d \in Rooms \ {c} : switching'[d] = switching[d]
    BY <1>5 DEF SwitchUnbind, goneVars
  <2>2. MayCome
    BY <1>5 DEF SwitchUnbind
  <2> QED BY <2>1, <2>2, ComesAlone DEF Alone, Busy, Leaving, Switching
<1>6. ASSUME NEW c \in Rooms, SwitchStore(c)
      PROVE  Alone'
  <2>1. /\ UNCHANGED <<pc, going>>
        /\ \A d \in Rooms : switching'[d] # None => switching[d] # None
    BY <1>6 DEF SwitchStore, goneVars
  <2> QED BY <2>1 DEF Alone, Busy, Leaving, Switching
<1>7. CASE UNCHANGED <<pc, going, switching>>
  BY <1>7 DEF Alone, Busy, Leaving, Switching
<1>8. ASSUME NEW m \in Msgs, HandleMessage(m)
      PROVE  Alone'
  <2>1. /\ UNCHANGED <<going, switching>> /\ m \in Handlers
        /\ \E place \in Places : pc' = [pc EXCEPT ![m] = place]
        /\ Busy(m) \/ MayCome
    BY <1>8 DEF HandleMessage, Receive, Look, Submit, SubmitRefused, NoRepos,
                StayHere, OpenThread, Adopt, KnownRepo, AskRepo, MenuPosted,
                MenuFails, Busy, AtRest, Places, goneVars, Handlers
  <2> QED BY <1>1, <1>3, <2>1
<1>9. ASSUME NEW k \in Clicks, Click(k)
      PROVE  Alone'
  BY <1>3, <1>9 DEF Click, Handlers, goneVars
<1>10. ASSUME NEW h \in Handlers, Bind(h)
       PROVE  Alone'
  <2>1. /\ UNCHANGED <<going, switching>> /\ Busy(h)
        /\ \E place \in Places : pc' = [pc EXCEPT ![h] = place]
    BY <1>10 DEF Bind, Create, CreateRefused, Save, Replay, Busy, AtRest,
                 Places, goneVars
  <2> QED BY <1>1, <2>1
<1>11. ASSUME NEW c \in Rooms, Gone(c)
       PROVE  Alone'
  <2>1. /\ UNCHANGED <<pc, switching>> /\ Leaving(c)
        /\ \E place \in GonePlaces : going' = [going EXCEPT ![c] = place]
    BY <1>11 DEF Gone, BeginGone, GoneLook, GoneForget, GoneClose, GoneNext,
                 Leaving, GonePlaces
  <2> QED BY <1>2, <2>1
<1>12. ASSUME NEW s \in live, SessionEnds(s)
       PROVE  Alone'
  BY <1>7, <1>12 DEF SessionEnds, goneVars
<1> QED BY <1>4, <1>5, <1>6, <1>8, <1>9, <1>10, <1>11, <1>12 DEF Next, Switch

\* Every step leaves the handlers at work in rooms that are there.
LEMMA WorkStep ==
  ASSUME OneAtATime, IInv, SoloInv, Next
  PROVE  AtWork'
<1> USE DEF IInv, TypeOK, Goto, SoloInv
<1>0. \A c \in exists : \A t \in Threads \cap exists :
        (\A m \in Msgs : ~Busy(m)) => t \in threads
  BY DEF Adopted, Adopting, Busy, AtRest
\* Whoever is at work after a step was so before, or has just come.
<1>1. ASSUME NEW m \in Msgs, Receive(m)
      PROVE  AtWork'
  <2>1. PICK c \in exists : /\ room' = [room EXCEPT ![m] = c]
                            /\ task' = [task EXCEPT ![m] = Here(c, Author[m])]
    BY <1>1 DEF Receive
  <2>2. \A h \in Handlers : ~Busy(h)
    BY <1>1, ComesAlone DEF Receive
  <2>3. Author[m] \in Users /\ m \in Handlers
    BY RouterAssumption DEF RouterAssumption, Handlers
  <2>4. Fits(Here(c, Author[m]))
    BY <1>0, <2>2, <2>3, JobsFit DEF Handlers
  <2>5. \A h \in Handlers : Busy(h)' => h = m
    BY <1>1, <2>2 DEF Receive, Busy
  <2>6. exists' = exists /\ Here(c, Author[m]).conv = c
    BY <1>1 DEF Receive, discord, Here
  <2>7. task'[m] = Here(c, Author[m]) /\ room'[m] = c
    BY <2>1, <2>3
  <2> QED BY <2>4, <2>5, <2>6, <2>7 DEF AtWork, Handlers, Fits
<1>2. ASSUME NEW k \in Clicks, Click(k)
      PROVE  AtWork'
  <2>1. PICK c \in exists, u \in Users :
          task' = [task EXCEPT ![k] =
                     IF jobs[c] = None THEN LostJob(c, u) ELSE jobs[c]]
    BY <1>2 DEF Click
  <2>2. \A h \in Handlers : ~Busy(h)
    BY <1>2, ComesAlone DEF Click
  <2>3. c \in Threads => c \in threads
    BY <1>0, <2>2 DEF Handlers
  <2>4. LostJob(c, u).conv = c /\ Fits(LostJob(c, u))
    BY <2>3, JobsFit DEF LostJob
  <2>5. jobs[c] # None => jobs[c].conv = c /\ Fits(jobs[c])
    BY DEF BufferIsWhole, Waiting
  <2>6. k \in Handlers /\ k \notin Msgs
    BY RouterAssumption DEF Handlers, RouterAssumption
  <2>7. task'[k].conv \in exists /\ Fits(task'[k])
    BY <2>1, <2>4, <2>5, <2>6
  <2>8. \A h \in Handlers : Busy(h)' => h = k
    BY <1>2, <2>2 DEF Click, Busy
  <2>9. exists' = exists
    BY <1>2 DEF Click, discord
  <2> QED BY <2>6, <2>7, <2>8, <2>9 DEF AtWork, Fits, Handlers
<1>3. ASSUME NEW m \in Msgs, StayHere(m)
      PROVE  AtWork'
  <2>1. m \in Handlers /\ Busy(m) /\ Author[m] \in Users
    BY <1>3, RouterAssumption
       DEF StayHere, Busy, AtRest, Handlers, RouterAssumption
  <2>2. room[m] \in exists /\ task[m].conv \in exists /\ Fits(task[m])
    BY <2>1 DEF AtWork
  <2>3. \A h \in Handlers : Busy(h)' => h = m
    BY <1>3, <2>1 DEF StayHere, Busy, Alone
  <2>4. \A n \in Msgs, t \in Threads : ~Adopting(n, t)
    BY <1>3, <2>1 DEF StayHere, Adopting, Alone, Busy, AtRest, Handlers
  <2>5. Fits(Here(room[m], Author[m])) /\ Here(room[m], Author[m]).conv = room[m]
    BY <2>1, <2>2, <2>4, JobsFit DEF Adopted, Here
  <2>6. task'[m].conv \in exists /\ Fits(task'[m])
    BY <1>3, <2>1, <2>2, <2>5 DEF StayHere
  <2>7. UNCHANGED <<exists, room>>
    BY <1>3 DEF StayHere, discord
  <2> QED BY <2>2, <2>3, <2>6, <2>7 DEF AtWork, Fits, Handlers
<1>4. ASSUME NEW m \in Msgs, OpenThread(m)
      PROVE  AtWork'
  <2>1. PICK t \in Threads : /\ exists' = exists \cup {t}
                             /\ task' = [task EXCEPT ![m] = There(m, t)]
    BY <1>4 DEF OpenThread
  <2>2. m \in Handlers /\ Busy(m) /\ Author[m] \in Users
    BY <1>4, RouterAssumption
       DEF OpenThread, Busy, AtRest, Handlers, RouterAssumption
  <2>3. \A h \in Handlers : Busy(h)' => h = m
    BY <1>4, <2>2 DEF OpenThread, Busy, Alone
  <2>4. There(m, t).conv = t /\ Fits(There(m, t))
    BY <2>2 DEF There, Fits
  <2>5. task'[m].conv \in exists' /\ Fits(task'[m])
    BY <2>1, <2>2, <2>4
  <2>6. room' = room /\ room[m] \in exists'
    BY <1>4, <2>1 DEF OpenThread
  <2> QED BY <2>3, <2>5, <2>6 DEF AtWork, Fits, Handlers
<1>5. ASSUME NEW c \in Rooms, DeleteRoom(c)
      PROVE  AtWork'
  <2>1. \A h \in Handlers : ~Busy(h)'
    BY <1>5, ComesAlone DEF DeleteRoom, Busy
  <2> QED BY <2>1 DEF AtWork, Handlers
<1>6. CASE /\ UNCHANGED <<exists, room, task>>
           /\ \A h \in Handlers : Busy(h)' => Busy(h)
  BY <1>6 DEF AtWork, Fits, Handlers
<1>7. ASSUME NEW m \in Msgs, HandleMessage(m),
             ~(Receive(m) \/ StayHere(m) \/ OpenThread(m))
      PROVE  AtWork'
  <2>1. Busy(m) /\ m \in Handlers
    BY <1>7 DEF HandleMessage, Look, Submit, SubmitRefused, NoRepos, Adopt,
                KnownRepo, AskRepo, MenuPosted, MenuFails, Busy, AtRest,
                Handlers
  <2>2. /\ UNCHANGED <<exists, room, task>>
        /\ \E place \in Places : pc' = [pc EXCEPT ![m] = place]
    BY <1>7 DEF HandleMessage, Look, Submit, SubmitRefused, NoRepos, Adopt,
                KnownRepo, AskRepo, MenuPosted, MenuFails, Places, AtRest,
                local, discord
  <2> QED BY <1>6, <2>1, <2>2 DEF Busy
<1>8. ASSUME NEW h \in Handlers, Bind(h)
      PROVE  AtWork'
  <2>1. /\ Busy(h) /\ UNCHANGED <<exists, room, task>>
        /\ \E place \in Places : pc' = [pc EXCEPT ![h] = place]
    BY <1>8 DEF Bind, Create, CreateRefused, Save, Replay, Busy, Places,
                AtRest, local, discord
  <2> QED BY <1>6, <2>1 DEF Busy
<1>9. ASSUME \/ \E c \in Rooms : Gone(c) \/ Switch(c)
             \/ \E s \in live : SessionEnds(s)
      PROVE  AtWork'
  <2>1. UNCHANGED <<exists, room, task, pc>>
    BY <1>9 DEF Gone, BeginGone, GoneLook, GoneForget, GoneClose, GoneNext,
                Switch, SwitchUnbind, SwitchStore, SessionEnds, local, discord
  <2> QED BY <1>6, <2>1 DEF Busy
<1> QED BY <1>1, <1>2, <1>3, <1>4, <1>5, <1>7, <1>8, <1>9 DEF Next

\* Every step leaves right what waits behind the menus.
LEMMA WaitStep ==
  ASSUME IInv, SoloInv, Next
  PROVE  Waiting'
<1> USE DEF IInv, TypeOK
<1>1. ASSUME NEW c \in Rooms, jobs[c] \in Jobs, jobs'[c] = jobs[c]
      PROVE  Seen(c)' /\ (c \in exists' => Fits(jobs'[c]))
  BY <1>1, SeenStable DEF SoloInv, Waiting
<1>2. CASE \A c \in Rooms : jobs'[c] \in {jobs[c], None}
  BY <1>1, <1>2, RouterAssumption DEF Waiting, RouterAssumption, Fits
<1>3. ASSUME NEW m \in Msgs, AskRepo(m)
      PROVE  Waiting'
  <2>1. Busy(m) /\ m \in Handlers
    BY <1>3 DEF AskRepo, Busy, AtRest, Handlers
  <2>2. PICK c \in exists : task[m].conv = c /\ Fits(task[m])
    BY <2>1 DEF SoloInv, AtWork
  <2>3. jobs' = [jobs EXCEPT ![c] = task[m]]
    BY <1>3, <2>2 DEF AskRepo
  <2>4. Seen(c)'
    BY <2>2, SeenStable
  <2>5. jobs'[c] = task[m] /\ Fits(jobs'[c])
    BY <2>2, <2>3
  <2>6. \A d \in Rooms : d # c => jobs'[d] = jobs[d]
    BY <2>3
  <2> QED BY <1>1, <2>4, <2>5, <2>6 DEF Waiting, Fits
<1>4. \/ \A c \in Rooms : jobs'[c] \in {jobs[c], None}
      \/ \E m \in Msgs : AskRepo(m)
  BY DEF Next, HandleMessage, Receive, Look, Submit, SubmitRefused, NoRepos,
         StayHere, OpenThread, Adopt, KnownRepo, MenuPosted, MenuFails, Click,
         TakeBuffered, Bind, Create, CreateRefused, Save, Replay, DeleteRoom,
         Gone, BeginGone, GoneLook, GoneForget, GoneClose, GoneNext, Unbuffer,
         Switch, SwitchUnbind, SwitchStore, SessionEnds, buffer
<1> QED BY <1>2, <1>3, <1>4

\* Every step leaves the threads known, but the one that is being adopted.
LEMMA AdoptStep ==
  ASSUME OneAtATime, IInv, SoloInv, Next
  PROVE  Adopted'
<1> USE DEF IInv, TypeOK, Goto
\* A step in which no thread is opened, and none begins or ends to be adopted.
<1>1. ASSUME exists' \subseteq exists, bound' \subseteq bound,
             \A t \in threads \ threads' : t \notin exists',
             \A m \in Msgs, t \in Rooms : Adopting(m, t)' <=> Adopting(m, t)
      PROVE  Adopted'
  <2>1. \A s \in bound : s.conv \in Rooms
    BY DEF Slots
  <2> QED BY <1>1, <2>1 DEF SoloInv, Adopted, Rooms
\* A step of a handler that neither was adopting nor is.
<1>2. ASSUME NEW h \in Handlers, NEW place \in Places \ {"adopt", "adoptFork"},
             pc' = [pc EXCEPT ![h] = place], pc[h] \notin {"adopt", "adoptFork"},
             \A g \in Handlers : g # h => task'[g] = task[g]
      PROVE  \A m \in Msgs, t \in Rooms : Adopting(m, t)' <=> Adopting(m, t)
  BY <1>2 DEF Adopting, Handlers
<1>3. ASSUME NEW m \in Msgs, OpenThread(m)
      PROVE  Adopted'
  <2>1. PICK t \in Threads : /\ home[t] = None
                             /\ exists' = exists \cup {t}
                             /\ task' = [task EXCEPT ![m] = There(m, t)]
    BY <1>3 DEF OpenThread
  <2>2. m \in Handlers /\ Busy(m) /\ pc[m] \notin {"adopt", "adoptFork"}
    BY <1>3 DEF OpenThread, Busy, AtRest, Handlers
  <2>3. \A n \in Msgs : n # m => ~Busy(n)
    BY <2>2 DEF SoloInv, Alone, Handlers
  <2>4. \A n \in Msgs : pc[n] \notin {"adopt", "adoptFork"}
    BY <2>2, <2>3 DEF Busy, AtRest
  <2>5. pc'[m] \in {"adopt", "adoptFork"} /\ task'[m].conv = t
    BY <1>3, <2>1, <2>2 DEF OpenThread, There
  <2>6. \A n \in Msgs : n # m => pc'[n] = pc[n]
    BY <1>3 DEF OpenThread
  <2>7. UNCHANGED <<threads, bound>>
    BY <1>3 DEF OpenThread, store
  <2>8. \A x \in Threads \cap exists : x \in threads
    BY <2>4 DEF SoloInv, Adopted, Adopting
  <2>9. \A s \in bound : s.conv # t
    BY <2>1, RouterAssumption
       DEF SoloInv, BoundRight, Seen, Opened, RouterAssumption
  <2>10. \A n \in Msgs, x \in Rooms : Adopting(n, x)' <=> n = m /\ x = t
    BY <2>4, <2>5, <2>6 DEF Adopting
  <2>11. t \in Rooms /\ \A s \in bound : s.conv \in Rooms
    BY DEF Rooms, Slots
  <2>12. \A x \in Threads \cap exists' : x \in threads' \/ x = t
    BY <2>1, <2>7, <2>8
  <2> QED BY <2>7, <2>9, <2>10, <2>11, <2>12 DEF Adopted
<1>4. ASSUME NEW m \in Msgs, Adopt(m)
      PROVE  Adopted'
  <2>1. m \in Handlers /\ Busy(m)
    BY <1>4 DEF Adopt, Busy, AtRest, Handlers
  <2>2. \A n \in Msgs : n # m => ~Busy(n)
    BY <2>1 DEF SoloInv, Alone, Handlers
  <2>3. pc' = [pc EXCEPT ![m] = IF pc[m] = "adopt" THEN "placed" ELSE "create"]
        /\ UNCHANGED <<exists, bound, task>>
        /\ threads' = threads \cup {task[m].conv}
    BY <1>4 DEF Adopt, discord, local
  <2>4. \A n \in Msgs : pc'[n] \notin {"adopt", "adoptFork"}
    BY <2>1, <2>2, <2>3 DEF Busy, AtRest
  <2>5. \A t \in Threads \cap exists : t \in threads \/ t = task[m].conv
    BY <2>2 DEF SoloInv, Adopted, Adopting, Busy, AtRest
  <2> QED BY <2>3, <2>4, <2>5 DEF Adopted, Adopting
<1>5. ASSUME NEW h \in Handlers, Save(h)
      PROVE  Adopted'
  <2>1. Busy(h)
    BY <1>5 DEF Save, Busy, AtRest
  <2>2. \A n \in Msgs : n # h => ~Busy(n)
    BY <2>1 DEF SoloInv, Alone, Handlers
  <2>3. /\ pc[h] = "save" /\ UNCHANGED <<exists, task>>
        /\ threads \subseteq threads'
        /\ \E place \in {"done", "replay"} : pc' = [pc EXCEPT ![h] = place]
    BY <1>5 DEF Save, discord, local
  <2>4. \A n \in Msgs : /\ pc[n] \notin {"adopt", "adoptFork"}
                        /\ pc'[n] \notin {"adopt", "adoptFork"}
    BY <2>2, <2>3 DEF Busy, AtRest, Handlers
  <2> QED BY <2>3, <2>4 DEF SoloInv, Adopted, Adopting
<1>6. ASSUME NEW m \in Msgs, HandleMessage(m), ~OpenThread(m), ~Adopt(m)
      PROVE  Adopted'
  <2>1. /\ UNCHANGED <<exists, threads>> /\ bound' \subseteq bound
        /\ m \in Handlers
    BY <1>6 DEF HandleMessage, Receive, Look, Submit, SubmitRefused, NoRepos,
                StayHere, KnownRepo, AskRepo, MenuPosted, MenuFails, discord,
                store, Handlers
  <2>2. /\ pc[m] \notin {"adopt", "adoptFork"}
        /\ \E place \in Places \ {"adopt", "adoptFork"} :
             pc' = [pc EXCEPT ![m] = place]
    BY <1>6 DEF HandleMessage, Receive, Look, Submit, SubmitRefused, NoRepos,
                StayHere, KnownRepo, AskRepo, MenuPosted, MenuFails, Places,
                AtRest
  <2>3. \A g \in Handlers : g # m => task'[g] = task[g]
    BY <1>6 DEF HandleMessage, Receive, Look, Submit, SubmitRefused, NoRepos,
                StayHere, KnownRepo, AskRepo, MenuPosted, MenuFails, local
  <2> QED BY <1>1, <1>2, <2>1, <2>2, <2>3
<1>7. ASSUME NEW k \in Clicks, Click(k)
      PROVE  Adopted'
  <2>1. k \in Handlers /\ k \notin Msgs
    BY RouterAssumption DEF Handlers, RouterAssumption
  <2>2. UNCHANGED <<exists, threads, bound>>
    BY <1>7 DEF Click, discord, store
  <2>3. \A m \in Msgs : pc'[m] = pc[m] /\ task'[m] = task[m]
    BY <1>7, <2>1 DEF Click
  <2> QED BY <1>1, <2>2, <2>3 DEF Adopting
<1>8. ASSUME NEW h \in Handlers, Create(h) \/ CreateRefused(h) \/ Replay(h)
      PROVE  Adopted'
  <2>1. /\ UNCHANGED <<exists, threads, bound, task>>
        /\ pc[h] \notin {"adopt", "adoptFork"}
        /\ \E place \in Places \ {"adopt", "adoptFork"} :
             pc' = [pc EXCEPT ![h] = place]
    BY <1>8 DEF Create, CreateRefused, Replay, discord, store, local, Places,
                AtRest
  <2> QED BY <1>1, <1>2, <2>1
<1>9. ASSUME NEW c \in Rooms, DeleteRoom(c) \/ Gone(c) \/ Switch(c)
      PROVE  Adopted'
  <2>1. /\ UNCHANGED <<pc, task>>
        /\ exists' \subseteq exists /\ bound' \subseteq bound
    BY <1>9 DEF DeleteRoom, Gone, BeginGone, GoneLook, GoneForget, GoneClose,
                GoneNext, Forget, Switch, SwitchUnbind, SwitchStore, discord,
                store, local
  <2>2. \/ threads' = threads
        \/ GoneForget(c) \/ (GoneNext(c) /\ todo[c] # {})
    BY <1>9 DEF DeleteRoom, Gone, BeginGone, GoneLook, GoneClose, GoneNext,
                Switch, SwitchUnbind, SwitchStore, store
  <2>3. ASSUME GoneForget(c) \/ (GoneNext(c) /\ todo[c] # {})
        PROVE  \A t \in threads \ threads' : t \notin exists'
    <3>1. Dead(ending[c])
      BY <2>3 DEF GoneForget, GoneNext, GoneInv
    <3>2. threads' = threads \ {ending[c]}
      BY <2>3 DEF GoneForget, GoneNext, Forget
    <3> QED BY <2>1, <3>1, <3>2 DEF Dead
  <2>4. \A t \in threads \ threads' : t \notin exists'
    BY <2>2, <2>3
  <2> QED BY <1>1, <2>1, <2>4 DEF Adopting
<1>10. ASSUME NEW s \in live, SessionEnds(s)
       PROVE  Adopted'
  BY <1>1, <1>10 DEF SessionEnds, Adopting, discord, store, local
<1> QED BY <1>3, <1>4, <1>5, <1>6, <1>7, <1>8, <1>9, <1>10 DEF Next, Bind


\* Every step leaves the bindings right.
LEMMA BoundStep ==
  ASSUME OneAtATime, IInv, SoloInv, Next
  PROVE  BoundRight'
<1> USE DEF IInv, TypeOK, Goto
<1>0. /\ \A s \in bound : s.conv \in Rooms
      /\ Threads \cap Channels = {}
  BY RouterAssumption DEF Slots, RouterAssumption
\* What a step says of a binding it keeps.
<1>1. ASSUME NEW s \in bound
      PROVE  /\ Seen(s.conv)'
             /\ s.conv \in exists' =>
                  \E u \in Users : s = Slot(s.conv, u, s.conv \in Threads)
  BY <1>0, SeenStable DEF SoloInv, BoundRight
\* A step that neither deletes nor ends a room.
<1>2. ASSUME bound' \subseteq bound, exists \subseteq exists',
             UNCHANGED <<going, todo>>,
             \A x \in Rooms : x \notin exists => parents'[x] = parents[x]
      PROVE  BoundRight'
  <2>1. ASSUME NEW s \in bound, s.conv \notin exists', Recorded(s.conv)'
        PROVE  \E c \in Rooms : ToForget(c, s.conv)'
    <3>1. PICK x \in Rooms : x = s.conv
      BY <1>0
    <3>2. Seen(x) /\ parents'[x] = parents[x] /\ x \notin exists
      BY <1>2, <2>1, <3>1 DEF SoloInv, BoundRight
    <3>3. Recorded(x)
      BY <2>1, <3>1, <3>2, SeenStable DEF Recorded, Rooms
    <3>4. PICK c \in Rooms : ToForget(c, x)
      BY <2>1, <3>1, <3>2, <3>3 DEF SoloInv, BoundRight
    <3>5. ToForget(c, x)'
      BY <1>2, <3>2, <3>4 DEF ToForget
    <3> QED BY <3>1, <3>5
  <2> QED BY <1>1, <1>2, <2>1 DEF BoundRight
<1>3. ASSUME NEW h \in Handlers, Save(h)
      PROVE  BoundRight'
  <2>1. PICK x \in exists : x = task[h].conv /\ Fits(task[h])
    BY <1>3 DEF SoloInv, AtWork, Save, Busy, AtRest
  <2>2. PICK u \in Users : task[h].slot = Slot(x, u, x \in Threads)
    <3>1. (task[h].thread) \in BOOLEAN
      BY <1>3, JobParts DEF Save, HandlerInv
    <3>2. task[h].thread = (x \in Threads)
      BY <2>1, <3>1 DEF Fits
    <3> QED BY <2>1, <3>2 DEF Fits
  <2>3. UNCHANGED <<exists, going, todo, home>>
        /\ bound' = bound \cup {task[h].slot}
        /\ \A y \in Rooms : y # x => parents'[y] = parents[y]
    BY <1>3, <2>1 DEF Save, discord, goneVars
  <2>4. task[h].slot.conv = x
    BY <2>2 DEF Slot
  <2>5. Seen(x)'
    BY <2>1, SeenStable
  <2>6. ASSUME NEW s \in bound, s.conv \notin exists', Recorded(s.conv)'
        PROVE  \E c \in Rooms : ToForget(c, s.conv)'
    <3>1. PICK y \in Rooms : y = s.conv
      BY <1>0
    <3>2. y # x /\ parents'[y] = parents[y] /\ y \notin exists
      BY <2>1, <2>3, <2>6, <3>1
    <3>3. Recorded(y)
      BY <2>3, <2>6, <3>1, <3>2 DEF Recorded
    <3>4. PICK c \in Rooms : ToForget(c, y)
      BY <2>6, <3>1, <3>2, <3>3 DEF SoloInv, BoundRight
    <3>5. ToForget(c, y)'
      BY <2>3, <3>2, <3>4 DEF ToForget
    <3> QED BY <3>1, <3>5
  <2>7. PICK s \in Slots : s = task[h].slot
    BY <1>3, JobParts DEF Save, HandlerInv
  <2>8. /\ s.conv = x /\ s = Slot(s.conv, u, s.conv \in Threads)
        /\ bound' = bound \cup {s}
    BY <2>2, <2>3, <2>4, <2>7
  <2> QED BY <1>1, <2>1, <2>3, <2>5, <2>6, <2>8 DEF BoundRight
<1>4. ASSUME NEW m \in Msgs, Adopt(m)
      PROVE  BoundRight'
  <2>1. task[m].conv \in exists
    BY <1>4 DEF SoloInv, AtWork, Adopt, Busy, AtRest, Handlers
  <2> QED BY <1>2, <1>4, <2>1 DEF Adopt, discord, goneVars
<1>5. ASSUME NEW c \in Rooms, DeleteRoom(c)
      PROVE  BoundRight'
  <2>1. \A d \in Rooms : ~Leaving(d)
    BY <1>5, ComesAlone DEF DeleteRoom
  <2>2. \A x \in Rooms, d \in Rooms : ~ToForget(d, x)
    BY <2>1 DEF ToForget, Leaving
  <2>3. /\ exists' = exists \ ({c} \cup {t \in Threads : home[t] = c})
        /\ going'[c] = "announced" /\ UNCHANGED <<bound, parents, home>>
    BY <1>5 DEF DeleteRoom, store
  <2>4. ASSUME NEW s \in bound, s.conv \notin exists', Recorded(s.conv)'
        PROVE  \E d \in Rooms : ToForget(d, s.conv)'
    <3>1. PICK x \in Rooms : x = s.conv
      BY <1>0
    <3>2. Recorded(x) /\ x \in exists
      BY <2>2, <2>3, <2>4, <3>1 DEF SoloInv, BoundRight, Recorded
    <3>3. x = c \/ parents[x] = c
      BY <1>0, <2>3, <2>4, <3>1, <3>2 DEF Recorded
    <3> QED BY <2>3, <3>1, <3>3 DEF ToForget
  <2> QED BY <1>1, <2>3, <2>4 DEF BoundRight
\* A step of the end of a room, the only one that is ended.
<1>6. ASSUME NEW c \in Rooms, Gone(c), UNCHANGED <<exists, home>>,
             bound' \subseteq bound,
             \A s \in bound' : \A x \in Rooms :
               /\ x = s.conv /\ x \notin exists /\ ToForget(c, x)
               => ToForget(c, x)',
             \A s \in bound' : parents'[s.conv] = parents[s.conv]
      PROVE  BoundRight'
  <2>1. \A d \in Rooms \ {c} : ~Leaving(d)
    BY <1>6 DEF SoloInv, Alone, Leaving, Gone, BeginGone, GoneLook,
                GoneForget, GoneClose, GoneNext
  <2>2. \A d \in Rooms, x \in Rooms : ToForget(d, x) => d = c
    BY <2>1 DEF ToForget, Leaving
  <2>3. ASSUME NEW s \in bound', s.conv \notin exists', Recorded(s.conv)'
        PROVE  ToForget(c, s.conv)'
    <3>1. PICK x \in Rooms : x = s.conv
      BY <1>0, <1>6
    <3>2. Recorded(x) /\ x \notin exists
      BY <1>6, <2>3, <3>1 DEF Recorded
    <3>3. ToForget(c, x)
      BY <1>6, <2>2, <3>1, <3>2 DEF SoloInv, BoundRight
    <3> QED BY <1>6, <3>1, <3>2, <3>3
  <2> QED BY <1>1, <1>6, <2>3 DEF BoundRight
<1>7. ASSUME NEW c \in Rooms, BeginGone(c)
      PROVE  BoundRight'
  <2>1. Gone(c) /\ UNCHANGED <<exists, home, bound, parents>>
    BY <1>7 DEF BeginGone, Gone, discord, store
  <2>2. /\ going[c] = "announced" /\ going'[c] = "next"
        /\ todo'[c] = {t \in Rooms : parents[t] = c}
    BY <1>7 DEF BeginGone, Children
  <2> QED BY <1>6, <2>1, <2>2 DEF ToForget
<1>8. ASSUME NEW c \in Rooms, NEW x \in Rooms, GoneLook(c, x)
      PROVE  BoundRight'
  <2>1. Gone(c) /\ UNCHANGED <<exists, home, bound, parents, todo>>
    BY <1>8 DEF GoneLook, Gone, discord, store
  <2>2. /\ going[c] = "next"
        /\ going'[c] = IF SessionsIn(x) = {} THEN "ended" ELSE "forget"
        /\ todo[c] = {} => x = c
    BY <1>8 DEF GoneLook
  <2>3. ASSUME NEW s \in bound, ToForget(c, s.conv)
        PROVE  ToForget(c, s.conv)'
    <3>1. SessionsIn(x) = {} => s.conv # x
      BY DEF SessionsIn
    <3> QED BY <2>1, <2>2, <2>3, <3>1 DEF ToForget
  <2> QED BY <1>6, <2>1, <2>3
<1>9. ASSUME NEW c \in Rooms, GoneForget(c)
      PROVE  BoundRight'
  <2>1. Gone(c) /\ UNCHANGED <<exists, home, todo>>
    BY <1>9 DEF GoneForget, Gone, discord
  <2>2. /\ going[c] = "forget" /\ going'[c] = "close"
        /\ todo[c] = {} => ending[c] = c
    BY <1>9 DEF GoneForget, GoneInv
  <2>3. Forget(ending[c])
    BY <1>9 DEF GoneForget
  <2>4. \A s \in bound' : s \in bound /\ s.conv # ending[c]
    BY <2>3 DEF Forget, SessionsIn
  <2>5. \A s \in bound' : parents'[s.conv] = parents[s.conv]
    BY <1>0, <2>3, <2>4 DEF Forget
  <2>6. \A s \in bound' : ToForget(c, s.conv) => ToForget(c, s.conv)'
    BY <2>1, <2>2, <2>4 DEF ToForget
  <2> QED BY <1>6, <2>1, <2>4, <2>5, <2>6
<1>10. ASSUME NEW c \in Rooms, GoneClose(c)
      PROVE  BoundRight'
  <2>1. Gone(c) /\ UNCHANGED <<exists, home, bound, parents, todo>>
    BY <1>10 DEF GoneClose, Gone, discord, store
  <2>2. going[c] = "close" /\ going'[c] = "ended"
    BY <1>10 DEF GoneClose
  <2> QED BY <1>6, <2>1, <2>2 DEF ToForget
<1>11. ASSUME NEW c \in Rooms, GoneNext(c)
      PROVE  BoundRight'
  <2>1. Gone(c) /\ UNCHANGED <<exists, home>> /\ going[c] = "ended"
    BY <1>11 DEF GoneNext, Gone, discord
  <2>2. CASE todo[c] = {}
    <3>1. UNCHANGED <<bound, parents>>
      BY <1>11, <2>2 DEF GoneNext, store
    <3>2. \A s \in bound : ~ToForget(c, s.conv)
      BY <2>1, <2>2 DEF ToForget
    <3> QED BY <1>6, <2>1, <3>1, <3>2
  <2>3. CASE todo[c] # {}
    <3>1. /\ Forget(ending[c]) /\ going'[c] = "next"
          /\ todo'[c] = todo[c] \ {ending[c]}
      BY <1>11, <2>3 DEF GoneNext
    <3>2. \A s \in bound' : s \in bound /\ s.conv # ending[c]
      BY <3>1 DEF Forget, SessionsIn
    <3>3. \A s \in bound' : parents'[s.conv] = parents[s.conv]
      BY <1>0, <3>1, <3>2 DEF Forget
    <3>4. \A s \in bound' : ToForget(c, s.conv) => ToForget(c, s.conv)'
      BY <2>1, <3>1, <3>2 DEF ToForget
    <3> QED BY <1>6, <2>1, <3>2, <3>3, <3>4
  <2> QED BY <2>2, <2>3
<1>12. \/ /\ bound' \subseteq bound /\ exists \subseteq exists'
          /\ UNCHANGED <<going, todo, parents>>
       \/ \E m \in Msgs : Adopt(m)
       \/ \E h \in Handlers : Save(h)
       \/ \E c \in Rooms : DeleteRoom(c) \/ Gone(c)
  BY DEF Next, HandleMessage, Receive, Look, Submit, SubmitRefused, NoRepos,
         StayHere, OpenThread, KnownRepo, AskRepo, MenuPosted, MenuFails,
         Click, Bind, Create, CreateRefused, Replay, Switch, SwitchUnbind,
         SwitchStore, SessionEnds, discord, store, goneVars
<1> QED BY <1>2, <1>3, <1>4, <1>5, <1>7, <1>8, <1>9, <1>10, <1>11, <1>12
        DEF Gone

\* One event at a time, the second invariant holds in every reachable state.
THEOREM SoloInvariance ==
  ASSUME OneAtATime
  PROVE  Spec => []SoloInv
<1>1. IInv /\ SoloInv /\ UNCHANGED vars => SoloInv'
  BY DEF SoloInv, Alone, AtWork, Waiting, Adopted, Adopting, BoundRight, Busy,
         Leaving, Switching, Seen, Opened, ToForget, Recorded, Fits, vars,
         discord, store, buffer, local, goneVars
<1>2. IInv /\ SoloInv /\ Next => SoloInv'
  BY AloneStep, WorkStep, WaitStep, AdoptStep, BoundStep DEF SoloInv
<1>3. IInv /\ SoloInv /\ [Next]_vars => SoloInv'
  BY <1>1, <1>2
<1> QED BY InitSolo, Invariance, <1>3, PTL DEF Spec

\* A slot that is bound in a room that is there is the one a message of its
\* user is looked up under.
THEOREM LookupFinds ==
  ASSUME OneAtATime
  PROVE  Spec => []LookupFindsIt
<1>1. IInv /\ SoloInv => LookupFindsIt
  <2> SUFFICES ASSUME IInv, SoloInv, NEW s \in bound, s.conv \in exists
               PROVE  \E u \in Users : s = Slot(s.conv, u, s.conv \in threads)
    BY DEF LookupFindsIt
  <2>1. s.conv \in Threads => s.conv \in threads
    BY DEF SoloInv, Adopted
  <2>2. s.conv \in threads => s.conv \in Threads
    BY DEF IInv, HomeInv, Opened
  <2>3. (s.conv \in threads) = (s.conv \in Threads)
    BY <2>1, <2>2
  <2> QED BY <2>3 DEF SoloInv, BoundRight
<1> QED BY Invariance, SoloInvariance, <1>1, PTL

\* Nothing stays bound in a room whose end was handled.
THEOREM GoneUnbound ==
  ASSUME OneAtATime
  PROVE  Spec => []GoneIsUnbound
<1>1. SoloInv => GoneIsUnbound
  BY DEF SoloInv, BoundRight, GoneIsUnbound, Working, ToForget
<1> QED BY SoloInvariance, <1>1, PTL
=============================================================================
