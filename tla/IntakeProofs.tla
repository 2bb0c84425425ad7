---------------------------- MODULE IntakeProofs -----------------------------
(***************************************************************************)
(* Theorems of Intake: who makes the bot work and which session a message, *)
(* a /stop or a choice reaches, for every policy, message and binding; and *)
(* what matchRepo, threadName and attachmentsOf answer, for every list of  *)
(* repositories, text and list of files.                                   *)
(***************************************************************************)
EXTENDS Intake, FiniteSetTheorems, SequenceTheorems, TLAPS

\* What the decisions made so far have settled.
Admitted == {"let in", "bound", "stopping", "read"}
Bound    == {"bound", "stopping", "read"}

IInv ==
  /\ stage \in {"arrived", "called"} \cup Admitted => message \in Inbox
  /\ stage \in {"idle", "arrived", "called"} => policy = None
  /\ TurnedDown =>
       /\ message \in Inbox /\ policy \in Settings
       /\ ~permits(policy, message, message.mentions)
  /\ stage = "arrived" => mode(message, roomMode, parentMode) # "off"
  /\ stage = "let in" =>
       policy \in Settings /\ permits(policy, message, message.mentions)
  /\ stage \in Admitted => message.author # Self
  /\ stage \in Bound =>
       /\ scope \in Scopes /\ known \in Known(scope, message)
       /\ verdict = known.bound[OwnSlot(scope, message)]
  /\ stage = "stopping" => about = sessionOf(scope, message, known)

-----------------------------------------------------------------------------
\* A wildcard or one of the ids.
LEMMA MatchesMeans ==
  ASSUME NEW set, NEW ids
  PROVE  matches(set, ids) <=>
           Star \in set \/ \E id \in ids : id # None /\ id \in set
BY DEF matches

\* Ids are never the absent one.
LEMMA NoIdIsNone ==
  /\ None \notin Authors /\ None \notin Rooms /\ None # Star
  /\ None \notin Roles
BY AccessAssumption DEF AccessAssumption

\* The parts of a message and of a policy.
LEMMA Parts ==
  /\ \A m \in Inbox : /\ m.author \in Authors /\ m.room \in Rooms
                      /\ m.parent \in Rooms \cup {None}
                      /\ m.guild \in BOOLEAN /\ m.thread \in BOOLEAN
                      /\ m.roles \subseteq Roles
                      /\ ~m.guild => ~m.thread
  /\ \A p \in Settings : /\ p.users \subseteq Authors \cup {Star}
                         /\ p.roles \subseteq Roles \cup {Star}
                         /\ p.channels \subseteq Rooms \cup {Star}
                         /\ p.ignored \subseteq Rooms \cup {Star}
                         /\ p.owner \in People \cup {None}
<1>1. \A m \in Inbox : m \in Messages
  BY IntakeAssumption DEF IntakeAssumption
<1>2. \A p \in Settings : p \in Policies
  BY IntakeAssumption DEF IntakeAssumption
<1>3. \A m \in Messages :
        /\ m.author \in Authors /\ m.room \in Rooms
        /\ m.parent \in Rooms \cup {None}
        /\ m.guild \in BOOLEAN /\ m.thread \in BOOLEAN
        /\ m.roles \subseteq Roles
        /\ ~m.guild => ~m.thread
  BY DEF Messages
<1>4. \A p \in Policies :
        /\ p.users \subseteq Authors \cup {Star}
        /\ p.roles \subseteq Roles \cup {Star}
        /\ p.channels \subseteq Rooms \cup {Star}
        /\ p.ignored \subseteq Rooms \cup {Star}
        /\ p.owner \in People \cup {None}
  BY DEF Policies
<1> QED BY <1>1, <1>2, <1>3, <1>4

-----------------------------------------------------------------------------
\* The decisions keep what they settled.
LEMMA InitHolds == IntakeInit => IInv
BY DEF IntakeInit, IInv, Admitted, Bound, TurnedDown

LEMMA StepHolds ==
  ASSUME IInv, [IntakeNext]_intakeVars
  PROVE  IInv'
<1> USE DEF Admitted, Bound, TurnedDown, who, rooms
<1>1. CASE Receive
  BY <1>1 DEF Receive, IInv
<1>2. CASE Hear
  BY <1>2 DEF Hear, IInv
<1>3. CASE Permit
  <2>1. permits(policy', message, message.mentions) => message.author # Self
    BY DEF permits
  <2> QED BY <1>3, <2>1 DEF Permit, IInv
<1>4. CASE Look
  BY <1>4 DEF Look, IInv
<1>5. CASE Stop
  BY <1>5 DEF Stop, IInv
<1>6. CASE Read
  BY <1>6 DEF Read, IInv
<1>7. CASE NameRepo \/ NameThread \/ Collect
  BY <1>7 DEF NameRepo, NameThread, Collect, Decide, IInv
<1>8. CASE UNCHANGED intakeVars
  BY <1>8 DEF intakeVars, IInv
<1> QED BY <1>1, <1>2, <1>3, <1>4, <1>5, <1>6, <1>7, <1>8 DEF IntakeNext

\* The inductive invariant of the intake.
THEOREM Invariance == IntakeSpec => []IInv
<1> QED BY InitHolds, StepHolds, PTL DEF IntakeSpec

-----------------------------------------------------------------------------
\* Who the policy lets in is never in an ignored room (permits of access.go).
THEOREM Ignoring == IntakeSpec => []IgnoredStaysOut
<1>1. IInv => IgnoredStaysOut
  <2> SUFFICES ASSUME IInv, stage = "let in"
               PROVE  policy.ignored \cap (Whereabouts(message) \cup {Star}) = {}
    BY DEF IgnoredStaysOut
  <2>1. policy \in Settings /\ ~matches(policy.ignored, Whereabouts(message))
    BY DEF IInv, permits, Ignored
  <2>2. None \notin policy.ignored
    BY <2>1, Parts, NoIdIsNone
  <2> QED BY <2>1, <2>2, MatchesMeans
<1> QED BY <1>1, Invariance, PTL

\* Somebody the policy names, or anybody where it names nobody but the channel
\* (authorizes of access.go).
THEOREM NobodyElse == IntakeSpec => []OnlyTheEntitled
<1>1. IInv => OnlyTheEntitled
  <2> SUFFICES ASSUME IInv, stage = "let in" PROVE OnlyTheEntitled
    BY DEF OnlyTheEntitled
  <2>1. /\ authorizes(policy, message)
        /\ policy.channels # {} => matches(policy.channels, Whereabouts(message))
    BY DEF IInv, permits
  <2>2. CASE policy.owner # None /\ message.author = policy.owner
    BY <2>2 DEF OnlyTheEntitled, Entitled
  <2>3. CASE matches(policy.users, {message.author})
    BY <2>3, MatchesMeans DEF OnlyTheEntitled, Entitled
  <2>4. CASE RoleCounts(policy, message)
    BY <2>4, MatchesMeans DEF OnlyTheEntitled, Entitled, RoleCounts
  <2>5. CASE policy.allowAll
    BY <2>5 DEF OnlyTheEntitled, Entitled
  <2>6. CASE ChannelIsThePolicy(policy)
    BY <2>1, <2>6, MatchesMeans DEF OnlyTheEntitled, Entitled,
                                     ChannelIsThePolicy
  <2> QED BY <2>1, <2>2, <2>3, <2>4, <2>5, <2>6 DEF authorizes
<1> QED BY <1>1, Invariance, PTL

\* Nobody the policy names is turned down, unless for the room or as a bot
\* (permits and authorizes of access.go).
THEOREM EntitledComeIn == IntakeSpec => []TheEntitledAreLetIn
<1>1. IInv => TheEntitledAreLetIn
  <2> SUFFICES ASSUME IInv, TurnedDown, Entitled, ~RoomIsBarred, ~BotIsBarred
               PROVE  permits(policy, message, message.mentions)
    BY DEF TheEntitledAreLetIn, IInv
  <2>1. /\ message \in Inbox /\ policy \in Settings /\ message \in Messages
        /\ policy \in Policies
    BY IntakeAssumption DEF IInv, IntakeAssumption
  <2>2. /\ message.author \in Authors /\ message.roles \subseteq Roles
        /\ policy.bots \in {"none", "mentions", "all"}
    BY <2>1, Parts DEF Policies
  <2>3. ~Ignored(policy, message)
    BY MatchesMeans DEF RoomIsBarred, Ignored
  <2>4. policy.channels # {} => matches(policy.channels, Whereabouts(message))
    <3>1. None \notin policy.channels
      BY <2>1, Parts, NoIdIsNone
    <3> QED BY <3>1, MatchesMeans DEF RoomIsBarred
  <2>5. message.author # Self /\ (IsBot(message.author) =>
                                     BotMayAsk(policy, message.mentions))
    BY <2>2 DEF BotIsBarred, IsBot, BotMayAsk
  <2>6. authorizes(policy, message)
    <3>1. message.author # None /\ None \notin message.roles
      BY <2>2, NoIdIsNone
    <3>2. CASE policy.users \cap {message.author, Star} # {}
      BY <3>1, <3>2, MatchesMeans DEF authorizes
    <3>3. CASE message.guild /\ policy.roles \cap (message.roles \cup {Star}) # {}
      <4>1. matches(policy.roles, message.roles)
        BY <3>1, <3>3, MatchesMeans
      <4> QED BY <3>3, <4>1 DEF authorizes, RoleCounts
    <3>4. CASE policy.owner = message.author \/ policy.allowAll
      BY <3>1, <3>4 DEF authorizes
    <3>5. CASE /\ policy.owner = None /\ policy.users = {} /\ policy.roles = {}
               /\ policy.channels \cap (Whereabouts(message) \cup {Star}) # {}
      BY <3>5 DEF authorizes, ChannelIsThePolicy
    <3> QED BY <3>2, <3>3, <3>4, <3>5 DEF Entitled
  <2> QED BY <2>3, <2>4, <2>5, <2>6 DEF permits
<1> QED BY <1>1, Invariance, PTL

\* A policy that says nothing lets nobody in (configured, authorizes).
THEOREM FailsClosed ==
  ASSUME NEW p \in Settings, NEW m \in Inbox, NEW mentioned \in BOOLEAN,
         permits(p, m, mentioned)
  PROVE  configured(p)
<1>1. authorizes(p, m)
  BY DEF permits
<1>2. matches(p.users, {m.author}) => p.users # {}
  BY MatchesMeans
<1> QED BY <1>1, <1>2 DEF authorizes, configured, RoleCounts, ChannelIsThePolicy

\* Another bot is answered only as the setting for bots says (permits).
THEOREM NoLoops == IntakeSpec => []LoopsNeedAMention
<1>1. IInv => LoopsNeedAMention
  BY DEF IInv, LoopsNeedAMention, permits, BotMayAsk, Admitted
<1> QED BY <1>1, Invariance, PTL

\* To list one more person only adds to who is let in, unless the channel was the
\* whole policy (authorizes).
THEOREM ListingAdds == IntakeSpec => []ListingShutsNobodyOut
<1>1. IInv => ListingShutsNobodyOut
  <2> SUFFICES ASSUME IInv, stage = "let in",
                      ~(policy.owner = None /\ policy.users = {}
                        /\ policy.roles = {}),
                      NEW user \in People
               PROVE  permits(Joined(policy, user), message, message.mentions)
    BY DEF ListingShutsNobodyOut
  <2> DEFINE q == Joined(policy, user)
  <2>1. policy \in Policies /\ permits(policy, message, message.mentions)
    BY IntakeAssumption DEF IInv, IntakeAssumption
  <2>2. /\ q.owner = policy.owner /\ q.users = policy.users \cup {user}
        /\ q.roles = policy.roles /\ q.channels = policy.channels
        /\ q.ignored = policy.ignored /\ q.allowAll = policy.allowAll
        /\ q.bots = policy.bots
    BY <2>1 DEF Joined, Policies
  <2>3. ~ChannelIsThePolicy(policy)
    BY DEF ChannelIsThePolicy
  <2>4. matches(policy.users, {message.author}) =>
          matches(q.users, {message.author})
    BY <2>2, MatchesMeans
  <2> HIDE DEF q
  <2>5. authorizes(q, message)
    BY <2>1, <2>2, <2>3, <2>4 DEF permits, authorizes, RoleCounts
  <2> QED BY <2>1, <2>2, <2>5 DEF permits, Ignored, BotMayAsk, q
<1> QED BY <1>1, Invariance, PTL

\* A thread goes off with the channel it hangs off (mode of mode.go).
THEOREM OffReachesThreads == IntakeSpec => []OffCoversThreads
<1>1. IInv => OffCoversThreads
  BY AccessAssumption DEF IInv, OffCoversThreads, mode, AccessAssumption, Modes
<1> QED BY <1>1, Invariance, PTL

\* The agent is told that several people write exactly when another author here
\* would share its session (multiUser and slot of sessionkey.go).
THEOREM SharingIsSaid == IntakeSpec => []SharedIsSaid
<1>1. IInv => SharedIsSaid
  <2> SUFFICES ASSUME IInv, stage = "bound" PROVE SharedIsSaid
    BY DEF SharedIsSaid
  <2>1. /\ message \in Inbox /\ message.author \in Authors
        /\ message.author # Self /\ Self \in Authors
        /\ message.guild \in BOOLEAN /\ scope \in Scopes
    BY Parts DEF IInv, Admitted, Bound, Authors
  <2>2. CASE ~message.guild
    BY <2>2 DEF SharedIsSaid, multiUser, chatType
  <2>3. CASE message.guild /\ isolatesUser(scope, chatType(message))
    <3>1. slot(scope, chatType(message), message.room, Self)
            # OwnSlot(scope, message)
      BY <2>1, <2>3 DEF slot, OwnSlot
    <3> QED BY <2>1, <2>3, <3>1 DEF SharedIsSaid, multiUser
  <2>4. CASE message.guild /\ ~isolatesUser(scope, chatType(message))
    <3>1. chatType(message) # "dm"
      BY <2>4 DEF chatType
    <3> QED BY <2>4, <3>1 DEF SharedIsSaid, multiUser, slot, OwnSlot
  <2> QED BY <2>1, <2>2, <2>3, <2>4
<1> QED BY <1>1, Invariance, PTL

\* A /stop reaches the session its author's messages reach (boundSession and
\* sessionOf of router.go).
THEOREM StopFindsMine == IntakeSpec => []StopReachesMine
<1>1. IInv => StopReachesMine
  BY DEF IInv, StopReachesMine, sessionOf, boundSession, Bound
<1> QED BY <1>1, Invariance, PTL

\* The settings let in whom they say and nobody else, for all of them at once.
THEOREM Admits == IntakeSpec => []Admission
<1>1. IgnoredStaysOut /\ OffCoversThreads /\ OnlyTheEntitled
        /\ TheEntitledAreLetIn /\ LoopsNeedAMention /\ ListingShutsNobodyOut => Admission
  BY DEF Admission
<1> QED BY <1>1, Ignoring, OffReachesThreads, NobodyElse, EntitledComeIn, NoLoops,
           ListingAdds, PTL

\* The ways to the session of a person agree.
THEOREM Agreement == IntakeSpec => []SessionsAgree
<1>1. SharedIsSaid /\ StopReachesMine => SessionsAgree
  BY DEF SessionsAgree
<1> QED BY <1>1, SharingIsSaid, StopFindsMine, PTL

-----------------------------------------------------------------------------
(* Folds over a sequence                                                   *)

\* A set of numbers that is not empty has a least element.
LEMMA HasLeast ==
  ASSUME NEW T, T \subseteq Nat, T # {}
  PROVE  \E n \in T : \A m \in T : n <= m
<1> DEFINE Upto == {0 .. n : n \in T}
<1>1. Upto \subseteq FiniteSubsetsOf(Nat)
  <2>1. \A n \in T : 0 .. n \subseteq Nat /\ IsFiniteSet(0 .. n)
    BY FS_Interval
  <2> QED BY <2>1 DEF FiniteSubsetsOf
<1>2. PICK x \in Upto : \A y \in Upto : ~ (<<y, x>> \in StrictSubsetOrdering(Nat))
  <2>1. Upto # {}
    OBVIOUS
  <2> HIDE DEF Upto
  <2> QED BY <1>1, <2>1, WFMin, FS_StrictSubsetOrderingWellFounded
<1>3. PICK n \in T : x = 0 .. n
  OBVIOUS
<1>4. ASSUME NEW m \in T, m < n PROVE FALSE
  <2>1. n \in Nat /\ m \in Nat
    OBVIOUS
  <2>2. /\ 0 .. m \subseteq 0 .. n /\ 0 .. m # 0 .. n
        /\ 0 .. m \in SUBSET Nat /\ 0 .. n \in SUBSET Nat
    BY <1>4, <2>1
  <2>3. << 0 .. m, 0 .. n >> \in StrictSubsetOrdering(Nat)
    BY <2>2 DEF StrictSubsetOrdering
  <2> QED BY <2>3, <1>2, <1>3
<1> QED BY <1>3, <1>4

\* What is true of 0, and of each number after one it is true of, is true up to n.
LEMMA Upwards ==
  ASSUME NEW n \in Nat, NEW T, 0 \in T, \A i \in 1 .. n : i - 1 \in T => i \in T
  PROVE  \A i \in 0 .. n : i \in T
<1> DEFINE Rest == (0 .. n) \ T
<1>1. ASSUME Rest # {} PROVE FALSE
  <2>1. Rest \subseteq Nat
    OBVIOUS
  <2>2. PICK i \in Rest : \A m \in Rest : i <= m
    <3> HIDE DEF Rest
    <3> QED BY <1>1, <2>1, HasLeast
  <2>3. i \in 1 .. n
    OBVIOUS
  <2>4. i - 1 \notin Rest
    BY <2>2, <2>3
  <2> QED BY <2>3, <2>4
<1> QED BY <1>1

\* The prefixes of 1 .. n, of which a fold over a sequence takes the last element.
LEMMA LastOfPrefix ==
  ASSUME NEW n \in Nat, NEW s, s \subseteq 1 .. n, n \in s
  PROVE  Max(s) = n
<1>1. \A y \in s : n >= y
  OBVIOUS
<1>2. Max(s) \in s /\ \A y \in s : Max(s) >= y
  BY <1>1 DEF Max
<1>3. Max(s) >= n /\ n >= Max(s)
  BY <1>1, <1>2
<1>4. s \subseteq Nat
  OBVIOUS
<1>5. Max(s) \in Nat
  BY <1>2, <1>4
<1> QED BY <1>3, <1>5

\* A function is a fold: it goes over the subsets of 1 .. n by their greatest
\* elements.
IsFold(f, n, base, step) ==
  \A s \in SUBSET (1 .. n) :
    f[s] = IF s = {} THEN base ELSE step[<<Max(s), f[s \ {Max(s)}]>>]

\* A recursion over the subsets of 1 .. n, by their greatest elements, has a
\* solution.
LEMMA FoldExists ==
  ASSUME NEW A, NEW base \in A, NEW n \in Nat, NEW step \in [(1 .. n) \X A -> A]
  PROVE  \E f \in [SUBSET (1 .. n) -> A] : IsFold(f, n, base, step)
<1> DEFINE Solves(f, k) == IsFold(f, k, base, step)
           T == {k \in 0 .. n : \E f \in [SUBSET (1 .. k) -> A] : Solves(f, k)}
<1>1. 0 \in T
  <2> DEFINE f == [s \in SUBSET (1 .. 0) |-> base]
  <2>1. \A s \in SUBSET (1 .. 0) : s = {}
    OBVIOUS
  <2>2. f \in [SUBSET (1 .. 0) -> A]
    OBVIOUS
  <2>3. Solves(f, 0)
    BY <2>1 DEF IsFold
  <2>4. 0 \in 0 .. n
    OBVIOUS
  <2> HIDE DEF f, Solves
  <2> QED BY <2>2, <2>3, <2>4
<1>2. ASSUME NEW k \in 1 .. n, k - 1 \in T PROVE k \in T
  <2>1. PICK f \in [SUBSET (1 .. k - 1) -> A] : Solves(f, k - 1)
    BY <1>2
  <2>2. k \in Nat /\ k \in 1 .. n /\ 1 .. k = (1 .. k - 1) \cup {k}
        /\ k \notin 1 .. k - 1 /\ k - 1 \in Nat /\ 1 .. k \subseteq 1 .. n
    BY <1>2
  <2> DEFINE g == [s \in SUBSET (1 .. k) |->
                     IF k \in s THEN step[<<k, f[s \ {k}]>>] ELSE f[s]]
  <2>3. \A s \in SUBSET (1 .. k) : /\ k \in s => s \ {k} \in SUBSET (1 .. k - 1)
                                   /\ k \notin s => s \in SUBSET (1 .. k - 1)
    BY <2>2
  <2>4. g \in [SUBSET (1 .. k) -> A]
    <3> SUFFICES ASSUME NEW s \in SUBSET (1 .. k)
                 PROVE  (IF k \in s THEN step[<<k, f[s \ {k}]>>] ELSE f[s]) \in A
      OBVIOUS
    <3>1. CASE k \in s
      <4>1. f[s \ {k}] \in A
        BY <2>3, <3>1
      <4> QED BY <3>1, <4>1, <2>2
    <3>2. CASE k \notin s
      BY <2>3, <3>2
    <3> QED BY <3>1, <3>2
  <2>5. ASSUME NEW s \in SUBSET (1 .. k), k \in s
        PROVE  g[s] = IF s = {} THEN base ELSE step[<<Max(s), g[s \ {Max(s)}]>>]
    <3>1. Max(s) = k
      BY <2>5, <2>2, LastOfPrefix
    <3>2. s \ {k} \in SUBSET (1 .. k) /\ k \notin s \ {k} /\ s # {}
      BY <2>5
    <3> QED BY <3>1, <3>2, <2>5
  <2>6. ASSUME NEW s \in SUBSET (1 .. k), k \notin s, s # {}
        PROVE  g[s] = step[<<Max(s), g[s \ {Max(s)}]>>]
    <3>1. s \in SUBSET (1 .. k - 1) /\ g[s] = f[s]
      BY <2>3, <2>6
    <3>2. /\ s \ {Max(s)} \in SUBSET (1 .. k)
          /\ k \notin s \ {Max(s)}
      BY <2>6
    <3>3. g[s \ {Max(s)}] = f[s \ {Max(s)}]
      BY <3>2
    <3>4. f[s] = step[<<Max(s), f[s \ {Max(s)}]>>]
      BY <2>1, <2>6, <3>1 DEF IsFold
    <3> QED BY <3>1, <3>3, <3>4
  <2>7. g[{}] = base
    <3>1. g[{}] = f[{}] /\ f[{}] = base
      BY <2>1 DEF IsFold
    <3> QED BY <3>1
  <2>8. Solves(g, k)
    <3> HIDE DEF g
    <3> QED BY <2>5, <2>6, <2>7 DEF IsFold
  <2> HIDE DEF g, Solves
  <2>9. k \in 0 .. n
    BY <2>2
  <2> QED BY <2>4, <2>8, <2>9
<1>3. n \in T
  <2> HIDE DEF T
  <2> QED BY <1>1, <1>2, Upwards
<1> QED BY <1>3

\* A set of numbers below a bound has a greatest one.
LEMMA MaxInside ==
  ASSUME NEW n \in Nat, NEW s, s \subseteq 1 .. n, s # {}
  PROVE  Max(s) \in s
<1> DEFINE T == {n - i : i \in s}
<1>1. T \subseteq Nat /\ T # {}
  <2>1. \A i \in s : i \in 1 .. n /\ n - i \in Nat
    OBVIOUS
  <2> QED BY <2>1
<1>2. PICK k \in T : \A m \in T : k <= m
  <2> HIDE DEF T
  <2> QED BY <1>1, HasLeast
<1>3. PICK i \in s : k = n - i
  BY <1>2
<1>4. ASSUME NEW j \in s PROVE i >= j
  <2>1. n - i <= n - j
    BY <1>2, <1>3
  <2>2. i \in 1 .. n /\ j \in 1 .. n
    OBVIOUS
  <2> QED BY <2>1, <2>2
<1> QED BY <1>4 DEF Max

\* The prefixes of 1 .. n follow each other by their last elements.
LEMMA FoldSteps ==
  ASSUME NEW n \in Nat
  PROVE  /\ 1 .. 0 = {}
         /\ \A i \in 0 .. n : 1 .. i \in SUBSET (1 .. n)
         /\ \A i \in 1 .. n : /\ i - 1 \in 0 .. n /\ 1 .. i # {} /\ Max(1 .. i) = i
                              /\ (1 .. i) \ {i} = 1 .. i - 1
<1>1. \A i \in 1 .. n : Max(1 .. i) = i
  BY LastOfPrefix
<1> QED BY <1>1

\* A function that does so for values of A, and what it makes of the prefixes.
GoesOn(g, n, A, base, step) ==
  /\ g[{}] = base
  /\ \A s \in SUBSET (1 .. n) : s # {} /\ g[s \ {Max(s)}] \in A =>
       g[s] = step[<<Max(s), g[s \ {Max(s)}]>>]

Along(g, n, A, base, step) ==
  /\ \A i \in 0 .. n : g[1 .. i] \in A
  /\ g[1 .. 0] = base
  /\ \A i \in 1 .. n : g[1 .. i] = step[<<i, g[1 .. i - 1]>>]

LEMMA FoldAlong ==
  ASSUME NEW A, NEW base \in A, NEW n \in Nat, NEW step \in [(1 .. n) \X A -> A],
         NEW g, GoesOn(g, n, A, base, step)
  PROVE  Along(g, n, A, base, step)
<1> DEFINE T == {i \in 0 .. n : g[1 .. i] \in A}
<1>1. 0 \in T /\ g[1 .. 0] = base
  BY FoldSteps DEF GoesOn
<1>2. ASSUME NEW i \in 1 .. n, g[1 .. i - 1] \in A
      PROVE  g[1 .. i] = step[<<i, g[1 .. i - 1]>>] /\ g[1 .. i] \in A
  <2>1. /\ 1 .. i \in SUBSET (1 .. n) /\ 1 .. i # {} /\ Max(1 .. i) = i
        /\ (1 .. i) \ {i} = 1 .. i - 1
    BY FoldSteps
  <2>2. g[1 .. i] = step[<<i, g[1 .. i - 1]>>]
    BY <1>2, <2>1 DEF GoesOn
  <2> QED BY <1>2, <2>2
<1>3. ASSUME NEW i \in 1 .. n, i - 1 \in T PROVE i \in T
  <2>1. i \in 0 .. n /\ g[1 .. i - 1] \in A
    BY <1>3
  <2> QED BY <1>2, <2>1
<1>4. \A i \in 0 .. n : i \in T
  <2> HIDE DEF T
  <2> QED BY <1>1, <1>3, Upwards
<1>5. \A i \in 0 .. n : g[1 .. i] \in A
  BY <1>4
<1>6. ASSUME NEW i \in 1 .. n PROVE g[1 .. i - 1] \in A
  <2>1. i - 1 \in 0 .. n
    OBVIOUS
  <2> QED BY <1>5, <2>1
<1> HIDE DEF T
<1> QED BY <1>1, <1>2, <1>5, <1>6 DEF Along

\* How outsideAngles goes from character to character.
Walks(open, kept, text) ==
  /\ open[0] = 0 /\ kept[0] = <<>>
  /\ \A i \in 1 .. Len(text) :
       /\ open[i] = Deeper(open[i - 1], text[i])
       /\ kept[i] = IF open[i - 1] = 0 /\ text[i] # "<"
                    THEN Append(kept[i - 1], text[i]) ELSE kept[i - 1]

LEMMA AnglesFold ==
  ASSUME NEW S, NEW text \in Seq(S)
  PROVE  \E open \in [0 .. Len(text) -> Nat], kept \in [0 .. Len(text) -> Seq(S)] :
           Walks(open, kept, text) /\ outsideAngles(text) = kept[Len(text)]
<1> DEFINE n == Len(text)
           A == [open : Nat, kept : Seq(S)]
           Seen(seen, one) ==
             [open |-> Deeper(seen.open, one),
              kept |-> IF seen.open = 0 /\ one # "<"
                       THEN Append(seen.kept, one) ELSE seen.kept]
           step == [p \in (1 .. n) \X A |-> Seen(p[2], text[p[1]])]
           Solves(f) ==
             f = [s \in SUBSET DOMAIN text |->
         IF s = {} THEN [open |-> 0, kept |-> <<>>] ELSE Seen(f[s \ {Max(s)}], text[Max(s)])]
           g == CHOOSE f : Solves(f)
<1>1. n \in Nat /\ DOMAIN text = 1 .. n /\ \A i \in 1 .. n : text[i] \in S
  OBVIOUS
<1>2. [open |-> 0, kept |-> <<>>] \in A
  OBVIOUS
<1>3. \A seen \in A, one \in S : Seen(seen, one) \in A
  <2> TAKE seen \in A, one \in S
  <2>1. Deeper(seen.open, one) \in Nat
    BY DEF Deeper
  <2>2. (IF seen.open = 0 /\ one # "<" THEN Append(seen.kept, one) ELSE seen.kept)
          \in Seq(S)
    OBVIOUS
  <2> QED BY <2>1, <2>2
<1>4. step \in [(1 .. n) \X A -> A]
  <2> HIDE DEF A, Seen, n
  <2> QED BY <1>1, <1>3
<1>5. \E f : Solves(f)
  <2> HIDE DEF A, Seen, n, step, Solves, g
  <2>1. n \in Nat
    BY <1>1
  <2>2. PICK f \in [SUBSET (1 .. n) -> A] : IsFold(f, n, [open |-> 0, kept |-> <<>>], step)
    BY <2>1, <1>2, <1>4, FoldExists
  <2>3. ASSUME NEW s \in SUBSET (1 .. n), s # {}
        PROVE  f[s] = Seen(f[s \ {Max(s)}], text[Max(s)])
    <3>1. Max(s) \in 1 .. n
      BY <2>3, MaxInside, <1>1
    <3>2. f[s \ {Max(s)}] \in A
      BY <2>2
    <3> QED BY <2>2, <2>3, <3>1, <3>2 DEF step, IsFold
  <2> QED BY <1>1, <2>2, <2>3 DEF Solves, IsFold
<1>6. Solves(g)
  <2> HIDE DEF Solves
  <2> QED BY <1>5
<1>7. outsideAngles(text) = g[1 .. n].kept
  <2> HIDE DEF Solves
  <2> QED BY <1>1 DEF outsideAngles, FoldLeft, MapThenFoldSet, Solves
<1>8. g[{}] = [open |-> 0, kept |-> <<>>]
      /\ \A s \in SUBSET (1 .. n) : s # {} =>
           g[s] = Seen(g[s \ {Max(s)}], text[Max(s)])
  <2> HIDE DEF g, Seen, n
  <2> QED BY <1>1, <1>6
<1>9. ASSUME NEW s \in SUBSET (1 .. n), s # {}, g[s \ {Max(s)}] \in A
      PROVE  g[s] = step[<<Max(s), g[s \ {Max(s)}]>>]
  <2>1. Max(s) \in 1 .. n
    BY <1>1, <1>9, MaxInside
  <2> HIDE DEF g, A, Seen, n, Solves
  <2> QED BY <1>8, <1>9, <2>1 DEF step
<1> DEFINE acc == [i \in 0 .. n |-> g[1 .. i]]
<1>10. /\ \A i \in 0 .. n : g[1 .. i] \in A
       /\ g[1 .. 0] = [open |-> 0, kept |-> <<>>]
       /\ \A i \in 1 .. n : g[1 .. i] = step[<<i, g[1 .. i - 1]>>]
  <2> DEFINE base == [open |-> 0, kept |-> <<>>]
  <2>1. base \in A /\ n \in Nat
    BY <1>1, <1>2
  <2>2. GoesOn(g, n, A, base, step)
    <3> HIDE DEF g, A, Seen, n, Solves, step, base
    <3> QED BY <1>8, <1>9 DEF GoesOn, base
  <2> HIDE DEF g, A, Seen, n, Solves, step, base
  <2>3. Along(g, n, A, base, step)
    BY <2>1, <1>4, <2>2, FoldAlong
  <2> QED BY <2>3 DEF base, Along
<1>11. acc \in [0 .. n -> A] /\ acc[0] = [open |-> 0, kept |-> <<>>]
  <2> HIDE DEF g, A, Seen, n, Solves
  <2> QED BY <1>1, <1>10
<1>12. \A i \in 1 .. n : acc[i] = Seen(acc[i - 1], text[i])
  <2> TAKE i \in 1 .. n
  <2>1. i \in 0 .. n /\ i - 1 \in 0 .. n
    BY <1>1
  <2> HIDE DEF g, A, Seen, n, Solves
  <2>2. g[1 .. i] = Seen(g[1 .. i - 1], text[i])
    BY <1>10, <2>1 DEF step
  <2> QED BY <2>1, <2>2
<1>13. outsideAngles(text) = acc[n].kept
  <2> HIDE DEF g, Seen, Solves
  <2>1. n \in 0 .. n
    BY <1>1
  <2> QED BY <1>7, <2>1
<1> HIDE DEF acc, g
<1> DEFINE open == [i \in 0 .. n |-> acc[i].open]
           kept == [i \in 0 .. n |-> acc[i].kept]
<1>14. open \in [0 .. n -> Nat] /\ kept \in [0 .. n -> Seq(S)]
  <2> HIDE DEF n
  <2> QED BY <1>11
<1>15. Walks(open, kept, text)
  <2>1. open[0] = 0 /\ kept[0] = <<>>
    <3> HIDE DEF n
    <3> QED BY <1>1, <1>11
  <2>2. ASSUME NEW i \in 1 .. n
        PROVE  /\ open[i] = Deeper(open[i - 1], text[i])
               /\ kept[i] = IF open[i - 1] = 0 /\ text[i] # "<"
                            THEN Append(kept[i - 1], text[i]) ELSE kept[i - 1]
    <3>1. acc[i] = Seen(acc[i - 1], text[i])
      BY <1>12
    <3>2. i \in 0 .. n /\ i - 1 \in 0 .. n
      BY <1>1
    <3>3. /\ acc[i].open = Deeper(acc[i - 1].open, text[i])
          /\ acc[i].kept = IF acc[i - 1].open = 0 /\ text[i] # "<"
                           THEN Append(acc[i - 1].kept, text[i]) ELSE acc[i - 1].kept
      BY <3>1
    <3> HIDE DEF n
    <3> QED BY <3>2, <3>3
  <2> HIDE DEF open, kept
  <2> QED BY <2>1, <2>2 DEF Walks
<1>16. outsideAngles(text) = kept[n]
  <2>1. n \in 0 .. n
    BY <1>1
  <2> QED BY <1>13, <2>1
<1> HIDE DEF open, kept
<1> QED BY <1>14, <1>15, <1>16

\* How OneLine goes from character to character.
Lines(acc, text) ==
  /\ acc[0] = <<>>
  /\ \A i \in 1 .. Len(text) : acc[i] =
       IF text[i] = " " /\ (acc[i - 1] = <<>> \/ Last(acc[i - 1]) = " ")
       THEN acc[i - 1] ELSE Append(acc[i - 1], text[i])

LEMMA LineFold ==
  ASSUME NEW S, NEW text \in Seq(S)
  PROVE  \E acc \in [0 .. Len(text) -> Seq(S)] :
           Lines(acc, text) /\ OneLine(text) = TrimRight(acc[Len(text)])
<1> DEFINE n == Len(text)
           A == Seq(S)
           Seen(seen, one) ==
             IF one = " " /\ (seen = <<>> \/ Last(seen) = " ") THEN seen ELSE Append(seen, one)
           step == [p \in (1 .. n) \X A |-> Seen(p[2], text[p[1]])]
           Solves(f) ==
             f = [s \in SUBSET DOMAIN text |->
         IF s = {} THEN <<>> ELSE Seen(f[s \ {Max(s)}], text[Max(s)])]
           g == CHOOSE f : Solves(f)
<1>1. n \in Nat /\ DOMAIN text = 1 .. n /\ \A i \in 1 .. n : text[i] \in S
  OBVIOUS
<1>2. <<>> \in A
  OBVIOUS
<1>3. \A seen \in A, one \in S : Seen(seen, one) \in A
  <2> TAKE seen \in A, one \in S
  <2>1. seen \in A /\ Append(seen, one) \in A
    OBVIOUS
  <2> HIDE DEF A
  <2> QED BY <2>1
<1>4. step \in [(1 .. n) \X A -> A]
  <2> HIDE DEF A, Seen, n
  <2> QED BY <1>1, <1>3
<1>5. \E f : Solves(f)
  <2> HIDE DEF A, Seen, n, step, Solves, g
  <2>1. n \in Nat
    BY <1>1
  <2>2. PICK f \in [SUBSET (1 .. n) -> A] : IsFold(f, n, <<>>, step)
    BY <2>1, <1>2, <1>4, FoldExists
  <2>3. ASSUME NEW s \in SUBSET (1 .. n), s # {}
        PROVE  f[s] = Seen(f[s \ {Max(s)}], text[Max(s)])
    <3>1. Max(s) \in 1 .. n
      BY <2>3, MaxInside, <1>1
    <3>2. f[s \ {Max(s)}] \in A
      BY <2>2
    <3> QED BY <2>2, <2>3, <3>1, <3>2 DEF step, IsFold
  <2> QED BY <1>1, <2>2, <2>3 DEF Solves, IsFold
<1>6. Solves(g)
  <2> HIDE DEF Solves
  <2> QED BY <1>5
<1>7. OneLine(text) = TrimRight(g[1 .. n])
  <2> HIDE DEF Solves
  <2> QED BY <1>1 DEF OneLine, FoldLeft, MapThenFoldSet, Solves
<1>8. g[{}] = <<>>
      /\ \A s \in SUBSET (1 .. n) : s # {} =>
           g[s] = Seen(g[s \ {Max(s)}], text[Max(s)])
  <2> HIDE DEF g, Seen, n
  <2> QED BY <1>1, <1>6
<1>9. ASSUME NEW s \in SUBSET (1 .. n), s # {}, g[s \ {Max(s)}] \in A
      PROVE  g[s] = step[<<Max(s), g[s \ {Max(s)}]>>]
  <2>1. Max(s) \in 1 .. n
    BY <1>1, <1>9, MaxInside
  <2> HIDE DEF g, A, Seen, n, Solves
  <2> QED BY <1>8, <1>9, <2>1 DEF step
<1> DEFINE acc == [i \in 0 .. n |-> g[1 .. i]]
<1>10. /\ \A i \in 0 .. n : g[1 .. i] \in A
       /\ g[1 .. 0] = <<>>
       /\ \A i \in 1 .. n : g[1 .. i] = step[<<i, g[1 .. i - 1]>>]
  <2> DEFINE base == <<>>
  <2>1. base \in A /\ n \in Nat
    BY <1>1, <1>2
  <2>2. GoesOn(g, n, A, base, step)
    <3> HIDE DEF g, A, Seen, n, Solves, step, base
    <3> QED BY <1>8, <1>9 DEF GoesOn, base
  <2> HIDE DEF g, A, Seen, n, Solves, step, base
  <2>3. Along(g, n, A, base, step)
    BY <2>1, <1>4, <2>2, FoldAlong
  <2> QED BY <2>3 DEF base, Along
<1>11. acc \in [0 .. n -> A] /\ acc[0] = <<>>
  <2> HIDE DEF g, A, Seen, n, Solves
  <2> QED BY <1>1, <1>10
<1>12. \A i \in 1 .. n : acc[i] = Seen(acc[i - 1], text[i])
  <2> TAKE i \in 1 .. n
  <2>1. i \in 0 .. n /\ i - 1 \in 0 .. n
    BY <1>1
  <2> HIDE DEF g, A, Seen, n, Solves
  <2>2. g[1 .. i] = Seen(g[1 .. i - 1], text[i])
    BY <1>10, <2>1 DEF step
  <2> QED BY <2>1, <2>2
<1>13. OneLine(text) = TrimRight(acc[Len(text)])
  <2> HIDE DEF g, Seen, Solves
  <2>1. n \in 0 .. n
    BY <1>1
  <2> QED BY <1>7, <2>1
<1> HIDE DEF acc, g
<1> QED BY <1>11, <1>12, <1>13 DEF Lines

\* How embedImages goes from embed to embed.
Picks(acc, embeds) ==
  /\ acc[0] = <<>>
  /\ \A i \in 1 .. Len(embeds) : acc[i] =
       IF Skipped(acc[i - 1], Image(embeds[i]))
       THEN acc[i - 1] ELSE Append(acc[i - 1], Image(embeds[i]))

LEMMA ImagesFold ==
  ASSUME NEW S, NEW embeds \in Seq(S), NEW V, \A e \in S : Image(e) \in V
  PROVE  \E acc \in [0 .. Len(embeds) -> Seq(V)] :
           Picks(acc, embeds) /\ embedImages(embeds) = acc[Len(embeds)]
<1> DEFINE n == Len(embeds)
           A == Seq(V)
           Seen(seen, one) ==
             IF Skipped(seen, Image(one)) THEN seen ELSE Append(seen, Image(one))
           step == [p \in (1 .. n) \X A |-> Seen(p[2], embeds[p[1]])]
           Solves(f) ==
             f = [s \in SUBSET DOMAIN embeds |->
         IF s = {} THEN <<>> ELSE Seen(f[s \ {Max(s)}], embeds[Max(s)])]
           g == CHOOSE f : Solves(f)
<1>1. n \in Nat /\ DOMAIN embeds = 1 .. n /\ \A i \in 1 .. n : embeds[i] \in S
  OBVIOUS
<1>2. <<>> \in A
  OBVIOUS
<1>3. \A seen \in A, one \in S : Seen(seen, one) \in A
  OBVIOUS
<1>4. step \in [(1 .. n) \X A -> A]
  <2> HIDE DEF A, Seen, n
  <2> QED BY <1>1, <1>3
<1>5. \E f : Solves(f)
  <2> HIDE DEF A, Seen, n, step, Solves, g
  <2>1. n \in Nat
    BY <1>1
  <2>2. PICK f \in [SUBSET (1 .. n) -> A] : IsFold(f, n, <<>>, step)
    BY <2>1, <1>2, <1>4, FoldExists
  <2>3. ASSUME NEW s \in SUBSET (1 .. n), s # {}
        PROVE  f[s] = Seen(f[s \ {Max(s)}], embeds[Max(s)])
    <3>1. Max(s) \in 1 .. n
      BY <2>3, MaxInside, <1>1
    <3>2. f[s \ {Max(s)}] \in A
      BY <2>2
    <3> QED BY <2>2, <2>3, <3>1, <3>2 DEF step, IsFold
  <2> QED BY <1>1, <2>2, <2>3 DEF Solves, IsFold
<1>6. Solves(g)
  <2> HIDE DEF Solves
  <2> QED BY <1>5
<1>7. embedImages(embeds) = g[1 .. n]
  <2> HIDE DEF Solves
  <2> QED BY <1>1 DEF embedImages, FoldLeft, MapThenFoldSet, Solves
<1>8. g[{}] = <<>>
      /\ \A s \in SUBSET (1 .. n) : s # {} =>
           g[s] = Seen(g[s \ {Max(s)}], embeds[Max(s)])
  <2> HIDE DEF g, Seen, n
  <2> QED BY <1>1, <1>6
<1>9. ASSUME NEW s \in SUBSET (1 .. n), s # {}, g[s \ {Max(s)}] \in A
      PROVE  g[s] = step[<<Max(s), g[s \ {Max(s)}]>>]
  <2>1. Max(s) \in 1 .. n
    BY <1>1, <1>9, MaxInside
  <2> HIDE DEF g, A, Seen, n, Solves
  <2> QED BY <1>8, <1>9, <2>1 DEF step
<1> DEFINE acc == [i \in 0 .. n |-> g[1 .. i]]
<1>10. /\ \A i \in 0 .. n : g[1 .. i] \in A
       /\ g[1 .. 0] = <<>>
       /\ \A i \in 1 .. n : g[1 .. i] = step[<<i, g[1 .. i - 1]>>]
  <2> DEFINE base == <<>>
  <2>1. base \in A /\ n \in Nat
    BY <1>1, <1>2
  <2>2. GoesOn(g, n, A, base, step)
    <3> HIDE DEF g, A, Seen, n, Solves, step, base
    <3> QED BY <1>8, <1>9 DEF GoesOn, base
  <2> HIDE DEF g, A, Seen, n, Solves, step, base
  <2>3. Along(g, n, A, base, step)
    BY <2>1, <1>4, <2>2, FoldAlong
  <2> QED BY <2>3 DEF base, Along
<1>11. acc \in [0 .. n -> A] /\ acc[0] = <<>>
  <2> HIDE DEF g, A, Seen, n, Solves
  <2> QED BY <1>1, <1>10
<1>12. \A i \in 1 .. n : acc[i] = Seen(acc[i - 1], embeds[i])
  <2> TAKE i \in 1 .. n
  <2>1. i \in 0 .. n /\ i - 1 \in 0 .. n
    BY <1>1
  <2> HIDE DEF g, A, Seen, n, Solves
  <2>2. g[1 .. i] = Seen(g[1 .. i - 1], embeds[i])
    BY <1>10, <2>1 DEF step
  <2> QED BY <2>1, <2>2
<1>13. embedImages(embeds) = acc[Len(embeds)]
  <2> HIDE DEF g, Seen, Solves
  <2>1. n \in 0 .. n
    BY <1>1
  <2> QED BY <1>7, <2>1
<1> HIDE DEF acc, g
<1> QED BY <1>11, <1>12, <1>13 DEF Picks

\* How matchRepo goes from repository to repository.
Weighs(acc, toks, repos) ==
  /\ acc[0] = Nothing
  /\ \A i \in 1 .. Len(repos) : acc[i] = Weighed(toks, acc[i - 1], repos[i])

LEMMA RepoFold ==
  ASSUME NEW S, NEW repos \in Seq(S), NEW toks
  PROVE  \E acc \in [0 .. Len(repos) -> S \cup {Nothing, TooMany}] :
           Weighs(acc, toks, repos) /\ matchRepo(toks, repos) = acc[Len(repos)]
<1> DEFINE n == Len(repos)
           A == S \cup {Nothing, TooMany}
           Seen(seen, one) ==
             Weighed(toks, seen, one)
           step == [p \in (1 .. n) \X A |-> Seen(p[2], repos[p[1]])]
           Solves(f) ==
             f = [s \in SUBSET DOMAIN repos |->
         IF s = {} THEN Nothing ELSE Seen(f[s \ {Max(s)}], repos[Max(s)])]
           g == CHOOSE f : Solves(f)
<1>1. n \in Nat /\ DOMAIN repos = 1 .. n /\ \A i \in 1 .. n : repos[i] \in S
  OBVIOUS
<1>2. Nothing \in A
  OBVIOUS
<1>3. \A seen \in A, one \in S : Seen(seen, one) \in A
  BY DEF Weighed, SameRepo
<1>4. step \in [(1 .. n) \X A -> A]
  <2> HIDE DEF A, Seen, n
  <2> QED BY <1>1, <1>3
<1>5. \E f : Solves(f)
  <2> HIDE DEF A, Seen, n, step, Solves, g
  <2>1. n \in Nat
    BY <1>1
  <2>2. PICK f \in [SUBSET (1 .. n) -> A] : IsFold(f, n, Nothing, step)
    BY <2>1, <1>2, <1>4, FoldExists
  <2>3. ASSUME NEW s \in SUBSET (1 .. n), s # {}
        PROVE  f[s] = Seen(f[s \ {Max(s)}], repos[Max(s)])
    <3>1. Max(s) \in 1 .. n
      BY <2>3, MaxInside, <1>1
    <3>2. f[s \ {Max(s)}] \in A
      BY <2>2
    <3> QED BY <2>2, <2>3, <3>1, <3>2 DEF step, IsFold
  <2> QED BY <1>1, <2>2, <2>3 DEF Solves, IsFold
<1>6. Solves(g)
  <2> HIDE DEF Solves
  <2> QED BY <1>5
<1>7. matchRepo(toks, repos) = g[1 .. n]
  <2> HIDE DEF Solves
  <2> QED BY <1>1 DEF matchRepo, FoldLeft, MapThenFoldSet, Solves
<1>8. g[{}] = Nothing
      /\ \A s \in SUBSET (1 .. n) : s # {} =>
           g[s] = Seen(g[s \ {Max(s)}], repos[Max(s)])
  <2> HIDE DEF g, Seen, n
  <2> QED BY <1>1, <1>6
<1>9. ASSUME NEW s \in SUBSET (1 .. n), s # {}, g[s \ {Max(s)}] \in A
      PROVE  g[s] = step[<<Max(s), g[s \ {Max(s)}]>>]
  <2>1. Max(s) \in 1 .. n
    BY <1>1, <1>9, MaxInside
  <2> HIDE DEF g, A, Seen, n, Solves
  <2> QED BY <1>8, <1>9, <2>1 DEF step
<1> DEFINE acc == [i \in 0 .. n |-> g[1 .. i]]
<1>10. /\ \A i \in 0 .. n : g[1 .. i] \in A
       /\ g[1 .. 0] = Nothing
       /\ \A i \in 1 .. n : g[1 .. i] = step[<<i, g[1 .. i - 1]>>]
  <2> DEFINE base == Nothing
  <2>1. base \in A /\ n \in Nat
    BY <1>1, <1>2
  <2>2. GoesOn(g, n, A, base, step)
    <3> HIDE DEF g, A, Seen, n, Solves, step, base
    <3> QED BY <1>8, <1>9 DEF GoesOn, base
  <2> HIDE DEF g, A, Seen, n, Solves, step, base
  <2>3. Along(g, n, A, base, step)
    BY <2>1, <1>4, <2>2, FoldAlong
  <2> QED BY <2>3 DEF base, Along
<1>11. acc \in [0 .. n -> A] /\ acc[0] = Nothing
  <2> HIDE DEF g, A, Seen, n, Solves
  <2> QED BY <1>1, <1>10
<1>12. \A i \in 1 .. n : acc[i] = Seen(acc[i - 1], repos[i])
  <2> TAKE i \in 1 .. n
  <2>1. i \in 0 .. n /\ i - 1 \in 0 .. n
    BY <1>1
  <2> HIDE DEF g, A, Seen, n, Solves
  <2>2. g[1 .. i] = Seen(g[1 .. i - 1], repos[i])
    BY <1>10, <2>1 DEF step
  <2> QED BY <2>1, <2>2
<1>13. matchRepo(toks, repos) = acc[Len(repos)]
  <2> HIDE DEF g, Seen, Solves
  <2>1. n \in 0 .. n
    BY <1>1
  <2> QED BY <1>7, <2>1
<1> HIDE DEF acc, g
<1> QED BY <1>11, <1>12, <1>13 DEF Weighs

-----------------------------------------------------------------------------
(* What a ping is about                                                    *)

\* What a token must be to name a repository.
LEMMA NamedMeans ==
  ASSUME NEW toks \in Toks, NEW repo
  PROVE  NamedIn(toks, repo) <=> names(toks, repo)
<1>1. \A tok \in toks : tok = [owner |-> tok.owner, base |-> tok.base]
  BY IntakeAssumption DEF IntakeAssumption
<1>2. \A tok \in toks : tok.base = repo.base =>
        tok = [owner |-> tok.owner, base |-> repo.base]
  BY <1>1
<1>3. \A x : [owner |-> x, base |-> repo.base].owner = x
             /\ [owner |-> x, base |-> repo.base].base = repo.base
  OBVIOUS
<1>4. ASSUME NamedIn(toks, repo) PROVE names(toks, repo)
  <2>1. PICK tok \in toks : /\ tok.base = repo.base
                            /\ tok.owner = Nothing => repo.base \in LongNames
                            /\ tok.owner \in {Nothing, repo.owner}
    BY <1>4 DEF NamedIn
  <2>2. tok = [owner |-> tok.owner, base |-> repo.base]
    BY <1>2, <2>1
  <2> QED BY <2>1, <2>2 DEF names
<1>5. ASSUME names(toks, repo) PROVE NamedIn(toks, repo)
  BY <1>3, <1>5 DEF names, NamedIn
<1> QED BY <1>4, <1>5

\* One more repository is weighed: none is named, two bases are, or the one that
\* is known stands for all that are named.
LEMMA WeighedRight ==
  ASSUME NEW S, NEW repos \in Seq(S), S \cap {Nothing, TooMany} = {}, NEW toks,
         NEW acc \in [0 .. Len(repos) -> S \cup {Nothing, TooMany}],
         Weighs(acc, toks, repos)
  PROVE  LET hit == acc[Len(repos)]
             Named == {j \in 1 .. Len(repos) : names(toks, repos[j])}
         IN  /\ hit = Nothing => Named = {}
             /\ hit = TooMany =>
                  \E j, k \in Named : repos[j].base # repos[k].base
             /\ hit \notin {Nothing, TooMany} =>
                  /\ \E j \in Named : hit = repos[j]
                  /\ \A j \in Named : /\ repos[j].base = hit.base
                                      /\ repos[j].local => hit.local
<1> DEFINE n == Len(repos)
           Named(i) == {j \in 1 .. i : names(toks, repos[j])}
           Good(i) ==
             /\ acc[i] = Nothing => Named(i) = {}
             /\ acc[i] = TooMany =>
                  \E j, k \in Named(i) : repos[j].base # repos[k].base
             /\ acc[i] \notin {Nothing, TooMany} =>
                  /\ \E j \in Named(i) : acc[i] = repos[j]
                  /\ \A j \in Named(i) : /\ repos[j].base = acc[i].base
                                         /\ repos[j].local => acc[i].local
           T == {i \in 0 .. n : Good(i)}
<1>1. n \in Nat /\ \A i \in 1 .. n : repos[i] \in S
  OBVIOUS
<1>2. 0 \in T
  <2>1. Named(0) = {} /\ Nothing # TooMany /\ acc[0] = Nothing
    BY TopicAssumption DEF TopicAssumption, Weighs
  <2> QED BY <1>1, <2>1
<1>3. ASSUME NEW i \in 1 .. n, i - 1 \in T PROVE i \in T
  <2> DEFINE m == i - 1
  <2>1. /\ i \in 0 .. n /\ m \in 0 .. n /\ 1 .. i = (1 .. m) \cup {i} /\ i \notin 1 .. m
        /\ repos[i] \notin {Nothing, TooMany} /\ Nothing # TooMany
    BY <1>1, <1>3, TopicAssumption DEF TopicAssumption
  <2>2. Good(m)
    BY <1>3
  <2>3. acc[i] = Weighed(toks, acc[m], repos[i])
    BY DEF Weighs
  <2>4. Named(i) = IF names(toks, repos[i]) THEN Named(m) \cup {i} ELSE Named(m)
    BY <2>1
  <2>5. names(toks, repos[i]) => i \in Named(i)
    BY <2>1
  <2> HIDE DEF Named, m
  <2>6. CASE acc[m] = TooMany \/ ~names(toks, repos[i])
    <3>1. acc[i] = acc[m]
      BY <2>3, <2>6 DEF Weighed
    <3>2. CASE ~names(toks, repos[i])
      <4>1. Good(i)
        BY <2>2, <2>4, <3>1, <3>2
      <4> QED BY <2>1, <4>1
    <3>3. CASE acc[m] = TooMany
      <4>1. Good(i)
        BY <2>1, <2>2, <2>4, <3>1, <3>3
      <4> QED BY <2>1, <4>1
    <3> QED BY <2>6, <3>2, <3>3
  <2>7. CASE acc[m] = Nothing /\ names(toks, repos[i])
    <3>1. acc[i] = repos[i]
      BY <2>1, <2>3, <2>7 DEF Weighed
    <3>2. Named(i) = {i}
      BY <2>2, <2>4, <2>7
    <3>3. Good(i)
      BY <2>1, <3>1, <3>2
    <3> QED BY <2>1, <3>3
  <2>8. CASE acc[m] \notin {Nothing, TooMany} /\ names(toks, repos[i])
    <3>1. acc[i] = IF acc[m].base = repos[i].base THEN SameRepo(acc[m], repos[i])
                                                  ELSE TooMany
      BY <2>3, <2>8 DEF Weighed
    <3>2. Named(i) = Named(m) \cup {i}
      BY <2>4, <2>8
    <3>3. PICK j \in Named(m) : acc[m] = repos[j]
      BY <2>2, <2>8
    <3>4. CASE acc[m].base # repos[i].base
      <4>1. acc[i] = TooMany /\ i \in Named(i) /\ j \in Named(i)
        BY <3>1, <3>2, <3>4
      <4>2. Good(i)
        BY <4>1, <3>3, <3>4, <2>1
      <4> QED BY <2>1, <4>2
    <3>5. CASE acc[m].base = repos[i].base /\ repos[i].local
      <4>1. acc[i] = repos[i]
        BY <3>1, <3>5 DEF SameRepo
      <4>2. Good(i)
        BY <4>1, <3>2, <3>5, <2>1, <2>2, <2>8
      <4> QED BY <2>1, <4>2
    <3>6. CASE acc[m].base = repos[i].base /\ ~repos[i].local
      <4>1. acc[i] = acc[m]
        BY <3>1, <3>6 DEF SameRepo
      <4>2. Good(i)
        BY <4>1, <3>2, <3>3, <3>6, <2>1, <2>2, <2>8
      <4> QED BY <2>1, <4>2
    <3> QED BY <3>4, <3>5, <3>6
  <2> QED BY <2>6, <2>7, <2>8
<1>4. Good(n)
  <2> HIDE DEF Good
  <2>1. \A i \in 0 .. n : i \in T
    <3> HIDE DEF T, n
    <3> QED BY <1>1, <1>2, <1>3, Upwards
  <2> QED BY <1>1, <2>1
<1> QED BY <1>4

\* What matchRepo answers.
LEMMA RepoIsRight ==
  ASSUME NEW toks \in Toks, NEW repos \in Catalogs
  PROVE  LET Named == {repo \in ToSet(repos) : NamedIn(toks, repo)}
             hit == matchRepo(toks, repos)
         IN  IF hit \in {Nothing, TooMany}
             THEN \/ Named = {}
                  \/ \E one, other \in Named : one.base # other.base
             ELSE /\ hit \in Named
                  /\ \A repo \in Named :
                       repo.base = hit.base /\ (repo.local => hit.local)
<1> DEFINE n == Len(repos)
           S == ToSet(repos)
           Named == {repo \in S : NamedIn(toks, repo)}
           Places == {j \in 1 .. n : names(toks, repos[j])}
           hit == matchRepo(toks, repos)
<1>1. repos \in Seq(S) /\ S \cap {Nothing, TooMany} = {}
  BY IntakeAssumption DEF IntakeAssumption
<1>2. S = {repos[j] : j \in 1 .. n}
  BY <1>1 DEF ToSet
<1>3. Named = {repos[j] : j \in Places}
  BY <1>2, NamedMeans
<1>4. /\ hit = Nothing => Places = {}
      /\ hit = TooMany => \E j, k \in Places : repos[j].base # repos[k].base
      /\ hit \notin {Nothing, TooMany} =>
           /\ \E j \in Places : hit = repos[j]
           /\ \A j \in Places : /\ repos[j].base = hit.base
                                /\ repos[j].local => hit.local
  <2> HIDE DEF S
  <2>1. PICK acc \in [0 .. n -> S \cup {Nothing, TooMany}] :
          Weighs(acc, toks, repos) /\ hit = acc[n]
    BY <1>1, RepoFold
  <2> HIDE DEF hit
  <2> QED BY <1>1, <2>1, WeighedRight
<1> HIDE DEF S, Named, Places, hit
<1>5. CASE hit = Nothing
  <2>1. Named = {}
    BY <1>3, <1>4, <1>5
  <2> QED BY <2>1, <1>5 DEF Named, S, hit
<1>6. CASE hit = TooMany
  <2>1. \E one, other \in Named : one.base # other.base
    BY <1>3, <1>4, <1>6
  <2> QED BY <2>1, <1>6 DEF Named, S, hit
<1>7. CASE hit \notin {Nothing, TooMany}
  <2>1. /\ hit \in Named
        /\ \A repo \in Named : repo.base = hit.base /\ (repo.local => hit.local)
    BY <1>3, <1>4, <1>7
  <2> QED BY <2>1, <1>7 DEF Named, S, hit
<1> QED BY <1>5, <1>6, <1>7

-----------------------------------------------------------------------------
(* The name of a thread                                                    *)

\* One more character is counted.
LEMMA CountGrows ==
  ASSUME NEW text, NEW i \in Nat \ {0}, NEW j \in 1 .. i, NEW char
  PROVE  /\ Count(text, j, i - 1, char) \in Nat
         /\ Count(text, j, i, char) =
              IF text[i] = char THEN Count(text, j, i - 1, char) + 1
                                ELSE Count(text, j, i - 1, char)
         /\ Count(text, i, i - 1, char) = 0
<1> DEFINE C(k) == {m \in j .. k : text[m] = char}
<1>1. j .. i = (j .. i - 1) \cup {i} /\ i \notin j .. i - 1 /\ i .. i - 1 = {}
      /\ i - 1 \in Int /\ j \in Int
  OBVIOUS
<1>2. C(i) = IF text[i] = char THEN C(i - 1) \cup {i} ELSE C(i - 1)
  BY <1>1
<1>3. i \notin C(i - 1)
  BY <1>1
<1>4. IsFiniteSet(C(i - 1))
  <2>1. IsFiniteSet(j .. i - 1)
    BY <1>1, FS_Interval
  <2>2. C(i - 1) \subseteq j .. i - 1
    OBVIOUS
  <2> QED BY <2>1, <2>2, FS_Subset
<1>5. Cardinality(C(i - 1)) \in Nat
  BY <1>4, FS_CardinalityType
<1>6. Cardinality(C(i - 1) \cup {i}) = Cardinality(C(i - 1)) + 1
  <2> HIDE DEF C
  <2> QED BY <1>3, <1>4, FS_AddElement
<1>7. {m \in i .. i - 1 : text[m] = char} = {}
  BY <1>1
<1>8. Count(text, i, i - 1, char) = 0
  BY <1>7, FS_EmptySet DEF Count
<1>9. Count(text, j, i, char) = Cardinality(C(i))
      /\ Count(text, j, i - 1, char) = Cardinality(C(i - 1))
  BY DEF Count
<1> HIDE DEF C
<1> QED BY <1>2, <1>5, <1>6, <1>8, <1>9

\* What a character does to the depth and to the counts of the angles.
Moves(d, e, a, b, x, y) ==
  \/ e = d + 1 /\ b = a + 1 /\ y = x
  \/ e = (IF d > 0 THEN d - 1 ELSE 0) /\ b = a /\ y = x + 1
  \/ e = d /\ b = a /\ y = x

\* The depth and the counts of a text of n characters.
Depths(n, open, opens, closes) ==
  \A i \in 1 .. n : \A j \in 1 .. i :
    /\ opens[<<i, i - 1>>] = 0 /\ closes[<<i, i - 1>>] = 0
    /\ opens[<<j, i - 1>>] \in Nat /\ closes[<<j, i - 1>>] \in Nat
    /\ opens[<<j, i>>] \in Nat /\ closes[<<j, i>>] \in Nat
    /\ Moves(open[i - 1], open[i], opens[<<j, i - 1>>], opens[<<j, i>>],
             closes[<<j, i - 1>>], closes[<<j, i>>])

LEMMA DepthMoves ==
  ASSUME NEW n \in Nat, NEW open \in [0 .. n -> Nat], NEW opens, NEW closes,
         Depths(n, open, opens, closes), NEW i \in 1 .. n, NEW j \in 1 .. i
  PROVE  LET a == opens[<<j, i - 1>>]
             b == opens[<<j, i>>]
             x == closes[<<j, i - 1>>]
             y == closes[<<j, i>>]
         IN  /\ open[i] \in Nat /\ open[i - 1] \in Nat
             /\ b \in Nat /\ y \in Nat
             /\ a <= open[i - 1] + x => b <= open[i] + y
             /\ open[i] > 0 /\ open[i - 1] > 0 /\ a = open[i - 1] + x =>
                  b = open[i] + y /\ b > y
             /\ open[i] > 0 /\ open[i - 1] = 0 /\ j = i =>
                  b = open[i] + y /\ b > y
             /\ j = i => a <= open[i - 1] + x
<1> DEFINE a == opens[<<j, i - 1>>]
           b == opens[<<j, i>>]
           x == closes[<<j, i - 1>>]
           y == closes[<<j, i>>]
<1>1. i \in 0 .. n /\ i - 1 \in 0 .. n
  OBVIOUS
<1>2. open[i] \in Nat /\ open[i - 1] \in Nat
  BY <1>1
<1>3. /\ a \in Nat /\ b \in Nat /\ x \in Nat /\ y \in Nat
      /\ Moves(open[i - 1], open[i], a, b, x, y)
      /\ opens[<<i, i - 1>>] = 0 /\ closes[<<i, i - 1>>] = 0
  BY DEF Depths
<1>4. j = i => a = 0 /\ x = 0
  BY <1>3
<1> DEFINE d == open[i - 1]
           e == open[i]
<1> HIDE DEF a, b, x, y, d, e
<1>5. /\ a <= d + x => b <= e + y
      /\ e > 0 /\ d > 0 /\ a = d + x => b = e + y /\ b > y
      /\ e > 0 /\ d = 0 /\ a = 0 /\ x = 0 => b = e + y /\ b > y
  <2>1. /\ d \in Nat /\ e \in Nat /\ a \in Nat /\ b \in Nat /\ x \in Nat
        /\ y \in Nat /\ Moves(d, e, a, b, x, y)
    BY <1>2, <1>3 DEF d, e
  <2> QED BY <2>1 DEF Moves
<1>6. j = i => a <= d + x
  <2>1. d \in Nat
    BY <1>2 DEF d
  <2> QED BY <1>4, <2>1
<1> QED BY <1>2, <1>3, <1>4, <1>5, <1>6 DEF a, b, x, y, d, e

\* The depth never falls behind what was opened and not closed since some place.
LEMMA DepthCovers ==
  ASSUME NEW n \in Nat, NEW open \in [0 .. n -> Nat], NEW opens, NEW closes,
         Depths(n, open, opens, closes)
  PROVE  \A i \in 1 .. n : \A j \in 1 .. i :
           opens[<<j, i>>] <= open[i] + closes[<<j, i>>]
<1> DEFINE Covers(i) == \A j \in 1 .. i : opens[<<j, i>>] <= open[i] + closes[<<j, i>>]
           T == {i \in 0 .. n : Covers(i)}
<1>1. 0 \in T
  OBVIOUS
<1>2. ASSUME NEW i \in 1 .. n, i - 1 \in T PROVE i \in T
  <2>1. ASSUME NEW j \in 1 .. i
        PROVE  opens[<<j, i>>] <= open[i] + closes[<<j, i>>]
    <3>1. opens[<<j, i - 1>>] <= open[i - 1] + closes[<<j, i - 1>>]
      <4>1. CASE j = i
        BY <4>1, DepthMoves
      <4>2. CASE j # i
        <5>1. j \in 1 .. i - 1
          BY <4>2
        <5>2. Covers(i - 1)
          BY <1>2
        <5> QED BY <5>1, <5>2
      <4> QED BY <4>1, <4>2
    <3> QED BY <3>1, DepthMoves
  <2>2. i \in 0 .. n
    OBVIOUS
  <2> QED BY <2>1, <2>2
<1>3. \A i \in 0 .. n : i \in T
  <2> HIDE DEF T
  <2> QED BY <1>1, <1>2, Upwards
<1>4. ASSUME NEW i \in 1 .. n PROVE Covers(i)
  <2>1. i \in 0 .. n
    OBVIOUS
  <2> HIDE DEF Covers
  <2> QED BY <1>3, <2>1
<1> QED BY <1>4

\* Where it is not zero it is exactly that, since the place where it last rose
\* from zero.
LEMMA DepthIsOpened ==
  ASSUME NEW n \in Nat, NEW open \in [0 .. n -> Nat], NEW opens, NEW closes,
         open[0] = 0, Depths(n, open, opens, closes)
  PROVE  \A i \in 1 .. n : open[i] > 0 =>
           \E j \in 1 .. i : \A k \in j .. i : opens[<<j, k>>] > closes[<<j, k>>]
<1> DEFINE Above(i, j) == \A k \in j .. i : opens[<<j, k>>] > closes[<<j, k>>]
           Since(i, j) == opens[<<j, i>>] = open[i] + closes[<<j, i>>] /\ Above(i, j)
           T == {i \in 0 .. n : open[i] > 0 => \E j \in 1 .. i : Since(i, j)}
<1>1. 0 \in T
  OBVIOUS
<1>2. ASSUME NEW i \in 1 .. n, i - 1 \in T PROVE i \in T
  <2>1. i \in Nat /\ i \in 0 .. n /\ i - 1 \in 0 .. n /\ i \in 1 .. i /\ i .. i = {i}
    BY <1>2
  <2>2. open[i - 1] \in Nat
    BY <2>1
  <2>3. CASE open[i] > 0 /\ open[i - 1] = 0
    <3>1. opens[<<i, i>>] = open[i] + closes[<<i, i>>]
          /\ opens[<<i, i>>] > closes[<<i, i>>]
      BY <2>1, <2>3, DepthMoves
    <3>2. Since(i, i)
      BY <2>1, <3>1
    <3> QED BY <2>1, <3>2
  <2>4. CASE open[i] > 0 /\ open[i - 1] > 0
    <3>1. PICK j \in 1 .. i - 1 : Since(i - 1, j)
      BY <1>2, <2>4
    <3>2. j \in 1 .. i /\ j .. i = (j .. i - 1) \cup {i}
      BY <2>1
    <3>3. opens[<<j, i>>] = open[i] + closes[<<j, i>>]
          /\ opens[<<j, i>>] > closes[<<j, i>>]
      <4>1. opens[<<j, i - 1>>] = open[i - 1] + closes[<<j, i - 1>>]
        BY <3>1
      <4> QED BY <2>4, <3>2, <4>1, DepthMoves
    <3>4. Above(i - 1, j)
      BY <3>1
    <3>5. Above(i, j)
      BY <3>2, <3>3, <3>4
    <3> HIDE DEF Above
    <3> QED BY <2>1, <3>2, <3>3, <3>5
  <2>5. CASE ~(open[i] > 0)
    BY <2>1, <2>5
  <2> HIDE DEF T
  <2> QED BY <2>2, <2>3, <2>4, <2>5
<1>3. \A i \in 0 .. n : i \in T
  <2> HIDE DEF T
  <2> QED BY <1>1, <1>2, Upwards
<1>4. ASSUME NEW i \in 1 .. n, open[i] > 0 PROVE \E j \in 1 .. i : Above(i, j)
  <2>1. i \in 0 .. n
    OBVIOUS
  <2> HIDE DEF Above
  <2> QED BY <1>3, <1>4, <2>1
<1> QED BY <1>4

\* Inside is where the depth is not zero.
LEMMA InsideIsDeep ==
  ASSUME NEW S, NEW text \in Seq(S), NEW open \in [0 .. Len(text) -> Nat], NEW kept,
         Walks(open, kept, text)
  PROVE  \A i \in 0 .. Len(text) : Inside(text, i) <=> open[i] > 0
<1> DEFINE n == Len(text)
           D == {p \in (1 .. n) \X (0 .. n) : p[1] <= p[2] + 1}
           opens == [p \in D |-> Count(text, p[1], p[2], "<")]
           closes == [p \in D |-> Count(text, p[1], p[2], ">")]
<1>1. n \in Nat
  OBVIOUS
<1>2. ASSUME NEW i \in 1 .. n, NEW j \in 1 .. i
      PROVE  /\ <<j, i>> \in D /\ <<j, i - 1>> \in D /\ <<i, i - 1>> \in D
             /\ i \in Nat \ {0} /\ i \in 0 .. n /\ i - 1 \in 0 .. n
  BY <1>1, <1>2
<1>3. ASSUME NEW i \in 1 .. n, NEW j \in 1 .. i
      PROVE  /\ opens[<<j, i>>] = Count(text, j, i, "<")
             /\ opens[<<j, i - 1>>] = Count(text, j, i - 1, "<")
             /\ opens[<<i, i - 1>>] = 0
             /\ closes[<<j, i>>] = Count(text, j, i, ">")
             /\ closes[<<j, i - 1>>] = Count(text, j, i - 1, ">")
             /\ closes[<<i, i - 1>>] = 0
  <2> HIDE DEF D
  <2> QED BY <1>2, CountGrows
<1>4. ASSUME NEW i \in 1 .. n, NEW j \in 1 .. i
      PROVE  /\ opens[<<i, i - 1>>] = 0 /\ closes[<<i, i - 1>>] = 0
             /\ opens[<<j, i - 1>>] \in Nat /\ closes[<<j, i - 1>>] \in Nat
             /\ opens[<<j, i>>] \in Nat /\ closes[<<j, i>>] \in Nat
             /\ Moves(open[i - 1], open[i], opens[<<j, i - 1>>], opens[<<j, i>>],
                      closes[<<j, i - 1>>], closes[<<j, i>>])
  <2>1. ASSUME NEW char
        PROVE  /\ Count(text, j, i - 1, char) \in Nat
               /\ Count(text, j, i, char) =
                    IF text[i] = char THEN Count(text, j, i - 1, char) + 1
                                      ELSE Count(text, j, i - 1, char)
    BY <1>2, CountGrows
  <2>2. open[i] = Deeper(open[i - 1], text[i]) /\ open[i - 1] \in Nat
    BY <1>2 DEF Walks
  <2>3. /\ opens[<<j, i - 1>>] \in Nat /\ closes[<<j, i - 1>>] \in Nat
        /\ opens[<<j, i>>] = IF text[i] = "<" THEN opens[<<j, i - 1>>] + 1
                                              ELSE opens[<<j, i - 1>>]
        /\ closes[<<j, i>>] = IF text[i] = ">" THEN closes[<<j, i - 1>>] + 1
                                               ELSE closes[<<j, i - 1>>]
    <3> HIDE DEF opens, closes
    <3> QED BY <1>3, <2>1
  <2> HIDE DEF opens, closes, n
  <2>4. CASE text[i] = "<"
    <3>1. /\ opens[<<j, i>>] = opens[<<j, i - 1>>] + 1
          /\ closes[<<j, i>>] = closes[<<j, i - 1>>]
      BY <2>3, <2>4
    <3>2. open[i] = open[i - 1] + 1
      BY <2>2, <2>4 DEF Deeper
    <3> QED BY <1>3, <2>3, <3>1, <3>2 DEF Moves
  <2>5. CASE text[i] = ">"
    <3>1. /\ opens[<<j, i>>] = opens[<<j, i - 1>>]
          /\ closes[<<j, i>>] = closes[<<j, i - 1>>] + 1
      BY <2>3, <2>5
    <3>2. open[i] = IF open[i - 1] > 0 THEN open[i - 1] - 1 ELSE open[i - 1]
      BY <2>2, <2>5 DEF Deeper
    <3>3. open[i] = IF open[i - 1] > 0 THEN open[i - 1] - 1 ELSE 0
      BY <2>2, <3>2
    <3> QED BY <1>3, <2>3, <3>1, <3>3 DEF Moves
  <2>6. CASE text[i] # "<" /\ text[i] # ">"
    <3>1. /\ opens[<<j, i>>] = opens[<<j, i - 1>>]
          /\ closes[<<j, i>>] = closes[<<j, i - 1>>]
      BY <2>3, <2>6
    <3>2. open[i] = open[i - 1]
      BY <2>2, <2>6 DEF Deeper
    <3> QED BY <1>3, <2>3, <3>1, <3>2 DEF Moves
  <2> QED BY <2>4, <2>5, <2>6
<1>5. open[0] = 0
  BY DEF Walks
<1> HIDE DEF n, D, opens, closes
<1>6. Depths(n, open, opens, closes)
  BY <1>4 DEF Depths
<1>7. \A i \in 1 .. n : \A j \in 1 .. i : opens[<<j, i>>] <= open[i] + closes[<<j, i>>]
  BY <1>1, <1>6, DepthCovers DEF n
<1>8. \A i \in 1 .. n : open[i] > 0 =>
        \E j \in 1 .. i : \A k \in j .. i : opens[<<j, k>>] > closes[<<j, k>>]
  BY <1>1, <1>5, <1>6, DepthIsOpened DEF n
<1>9. ASSUME NEW i \in 1 .. n
      PROVE  Inside(text, i) <=>
               \E j \in 1 .. i : \A k \in j .. i : opens[<<j, k>>] > closes[<<j, k>>]
  <2>1. ASSUME NEW j \in 1 .. i, NEW k \in j .. i
        PROVE  /\ opens[<<j, k>>] = Count(text, j, k, "<")
               /\ closes[<<j, k>>] = Count(text, j, k, ">")
    <3>1. k \in 1 .. n /\ j \in 1 .. k
      BY <1>1
    <3> QED BY <1>3, <3>1
  <2> QED BY <2>1 DEF Inside
<1>10. ASSUME NEW i \in 1 .. n PROVE Inside(text, i) <=> open[i] > 0
  <2>1. ASSUME NEW j \in 1 .. i, \A k \in j .. i : opens[<<j, k>>] > closes[<<j, k>>]
        PROVE  open[i] > 0
    <3>1. /\ i \in j .. i /\ open[i] \in Nat
          /\ opens[<<j, i>>] \in Nat /\ closes[<<j, i>>] \in Nat
      <4>1. i \in j .. i /\ i \in 0 .. n
        BY <1>1
      <4> QED BY <4>1, <1>4 DEF n
    <3>2. opens[<<j, i>>] > closes[<<j, i>>]
          /\ opens[<<j, i>>] <= open[i] + closes[<<j, i>>]
      BY <3>1, <2>1, <1>7
    <3> QED BY <3>1, <3>2
  <2> QED BY <1>8, <1>9, <2>1
<1>11. ~Inside(text, 0)
  BY DEF Inside
<1> QED BY <1>1, <1>5, <1>10, <1>11 DEF n

\* What is kept of a text is what is outside.
LEMMA KeptIsOutside ==
  ASSUME NEW S, NEW text \in Seq(S)
  PROVE  /\ outsideAngles(text) \in Seq(S)
         /\ Len(outsideAngles(text)) =
              Cardinality({i \in 1 .. Len(text) :
                ~Inside(text, i) /\ ~(text[i] = ">" /\ Inside(text, i - 1))})
<1> DEFINE n == Len(text)
<1>1. PICK open \in [0 .. n -> Nat], kept \in [0 .. n -> Seq(S)] :
        Walks(open, kept, text) /\ outsideAngles(text) = kept[n]
  BY AnglesFold
<1> DEFINE Keeps(i) == open[i - 1] = 0 /\ text[i] # "<"
           K(i) == {k \in 1 .. i : Keeps(k)}
           T == {i \in 0 .. n : Len(kept[i]) = Cardinality(K(i))}
<1>2. n \in Nat
  OBVIOUS
<1>3. 0 \in T
  <2>1. kept[0] = <<>> /\ K(0) = {}
    BY <1>1 DEF Walks
  <2>2. Len(kept[0]) = 0
    BY <2>1
  <2>3. 0 \in 0 .. n
    BY <1>2
  <2> HIDE DEF K
  <2> QED BY <2>1, <2>2, <2>3, FS_EmptySet
<1>4. ASSUME NEW i \in 1 .. n, i - 1 \in T PROVE i \in T
  <2>1. /\ 1 .. i = (1 .. i - 1) \cup {i} /\ i \notin 1 .. i - 1
        /\ i \in 0 .. n /\ i - 1 \in 0 .. n /\ i - 1 \in Int
    BY <1>2
  <2>2. K(i) = IF Keeps(i) THEN K(i - 1) \cup {i} ELSE K(i - 1)
    BY <2>1
  <2>3. i \notin K(i - 1) /\ IsFiniteSet(K(i - 1))
    <3>1. K(i - 1) \subseteq 1 .. i - 1
      OBVIOUS
    <3> HIDE DEF K
    <3>2. IsFiniteSet(1 .. i - 1)
      BY <2>1, FS_Interval
    <3> QED BY <2>1, <3>1, <3>2, FS_Subset
  <2>4. Cardinality(K(i - 1) \cup {i}) = Cardinality(K(i - 1)) + 1
    <3> HIDE DEF K
    <3> QED BY <2>3, FS_AddElement
  <2>5. kept[i] = IF Keeps(i) THEN Append(kept[i - 1], text[i]) ELSE kept[i - 1]
    BY <1>1 DEF Walks
  <2>6. Len(Append(kept[i - 1], text[i])) = Len(kept[i - 1]) + 1
    <3>1. kept[i - 1] \in Seq(S) /\ text[i] \in S
      BY <2>1
    <3> QED BY <3>1
  <2>7. Len(kept[i - 1]) = Cardinality(K(i - 1))
    BY <1>4
  <2> HIDE DEF K, Keeps
  <2> QED BY <2>1, <2>2, <2>4, <2>5, <2>6, <2>7
<1>5. Len(kept[n]) = Cardinality(K(n))
  <2>1. \A i \in 0 .. n : i \in T
    <3> HIDE DEF T, n
    <3> QED BY <1>2, <1>3, <1>4, Upwards
  <2>2. n \in 0 .. n
    BY <1>2
  <2> HIDE DEF K, n
  <2> QED BY <2>1, <2>2
<1>6. ASSUME NEW i \in 1 .. n
      PROVE  Keeps(i) <=> ~Inside(text, i) /\ ~(text[i] = ">" /\ Inside(text, i - 1))
  <2>1. i \in 0 .. n /\ i - 1 \in 0 .. n
    BY <1>2
  <2>2. /\ Inside(text, i) <=> open[i] > 0
        /\ Inside(text, i - 1) <=> open[i - 1] > 0
    BY <1>1, <2>1, InsideIsDeep
  <2>3. open[i] \in Nat /\ open[i - 1] \in Nat /\ open[i] = Deeper(open[i - 1], text[i])
    BY <1>1, <2>1 DEF Walks
  <2>4. CASE text[i] = "<"
    <3>1. open[i] = open[i - 1] + 1
      BY <2>3, <2>4 DEF Deeper
    <3>2. open[i] > 0
      BY <2>3, <3>1
    <3> QED BY <2>2, <2>4, <3>2
  <2>5. CASE text[i] = ">"
    <3>1. open[i] = IF open[i - 1] > 0 THEN open[i - 1] - 1 ELSE open[i - 1]
      BY <2>3, <2>5 DEF Deeper
    <3>2. open[i - 1] = 0 => ~(open[i] > 0) /\ ~(open[i - 1] > 0)
      BY <2>3, <3>1
    <3>3. open[i - 1] # 0 => open[i - 1] > 0
      BY <2>3
    <3>4. text[i] # "<"
      BY <2>5
    <3> QED BY <2>2, <2>5, <3>2, <3>3, <3>4
  <2>6. CASE text[i] # "<" /\ text[i] # ">"
    <3>1. open[i] = open[i - 1]
      BY <2>3, <2>6 DEF Deeper
    <3>2. open[i - 1] = 0 <=> ~(open[i] > 0)
      BY <2>3, <3>1
    <3> QED BY <2>2, <2>6, <3>2
  <2> QED BY <2>4, <2>5, <2>6
<1>7. K(n) = {i \in 1 .. n : ~Inside(text, i) /\ ~(text[i] = ">" /\ Inside(text, i - 1))}
  <2> HIDE DEF Keeps
  <2> QED BY <1>6
<1>8. kept[n] \in Seq(S)
  BY <1>2
<1> HIDE DEF K
<1> QED BY <1>1, <1>5, <1>7, <1>8

\* A line in which no space is first or follows another one.
Neat(line) ==
  /\ line # <<>> => line[1] # " "
  /\ \A j \in 1 .. Len(line) - 1 : line[j] = " " => line[j + 1] # " "

\* The beginning of a sequence.
LEMMA Beginning ==
  ASSUME NEW S, NEW s \in Seq(S), NEW m \in Nat, m <= Len(s)
  PROVE  /\ SubSeq(s, 1, m) \in Seq(S) /\ Len(SubSeq(s, 1, m)) = m
         /\ \A i \in 1 .. m : SubSeq(s, 1, m)[i] = s[i]
<1>1. \A i \in 1 .. m : s[i] \in S
  OBVIOUS
<1> QED BY <1>1

LEMMA TrimIsNeat ==
  ASSUME NEW S, NEW line \in Seq(S), Neat(line)
  PROVE  /\ TrimRight(line) \in Seq(S) /\ Len(TrimRight(line)) <= Len(line)
         /\ Neat(TrimRight(line))
         /\ TrimRight(line) # <<>> => Last(TrimRight(line)) # " "
<1>1. Len(line) \in Nat
  OBVIOUS
<1>2. CASE line = <<>> \/ Last(line) # " "
  <2>1. TrimRight(line) = SubSeq(line, 1, Len(line))
    <3> DEFINE k == IF line # <<>> /\ Last(line) = " " THEN 1 ELSE 0
    <3>1. TrimRight(line) = SubSeq(line, 1, Len(line) - k)
      BY DEF TrimRight
    <3>2. k = 0
      BY <1>2
    <3> HIDE DEF k
    <3> QED BY <1>1, <3>1, <3>2
  <2>2. TrimRight(line) = line
    <3>1. SubSeq(line, 1, Len(line)) = line
      BY SubSeqFull
    <3> QED BY <2>1, <3>1
  <2>3. Len(line) <= Len(line)
    BY <1>1
  <2>4. line # <<>> => Last(line) # " "
    BY <1>2
  <2> QED BY <2>2, <2>3, <2>4
<1>3. CASE line # <<>> /\ Last(line) = " "
  <2> DEFINE m == Len(line) - 1
             r == TrimRight(line)
  <2>1. r = SubSeq(line, 1, m)
    BY <1>3 DEF TrimRight
  <2>2. m \in Nat /\ m < Len(line)
    <3>1. line # <<>>
      BY <1>3
    <3> QED BY <1>1, <3>1
  <2>3. /\ r \in Seq(S) /\ Len(r) = m
        /\ \A i \in 1 .. m : r[i] = line[i]
    <3>1. m <= Len(line)
      BY <1>1, <2>2
    <3> HIDE DEF r, m
    <3> QED BY <2>1, <2>2, <3>1, Beginning
  <2>4. Neat(r)
    <3>1. r # <<>> => 1 \in 1 .. m
      <4> HIDE DEF r
      <4> QED BY <2>2, <2>3
    <3>2. \A j \in 1 .. m - 1 : j \in 1 .. m /\ j + 1 \in 1 .. m
                                /\ j \in 1 .. Len(line) - 1
      BY <2>2
    <3>3. line # <<>> /\ line[1] # " "
      BY <1>3 DEF Neat
    <3> HIDE DEF r, m
    <3> QED BY <2>3, <3>1, <3>2, <3>3 DEF Neat
  <2>5. ASSUME r # <<>> PROVE Last(r) # " "
    <3>1. m \in 1 .. m /\ m \in 1 .. Len(line) - 1 /\ m + 1 = Len(line)
      <4> HIDE DEF r
      <4> QED BY <2>2, <2>3, <2>5, <1>1
    <3>2. line[m + 1] = " "
      BY <1>3, <3>1 DEF Last
    <3>3. line[m] # " "
      BY <3>1, <3>2 DEF Neat
    <3> HIDE DEF r, m
    <3> QED BY <2>3, <3>1, <3>3 DEF Last
  <2> HIDE DEF r
  <2>6. Len(r) <= Len(line)
    BY <2>2, <2>3
  <2> QED BY <2>3, <2>4, <2>5, <2>6 DEF r
<1> QED BY <1>2, <1>3

\* OneLine leaves no space at the ends.
LEMMA LineIsNeat ==
  ASSUME NEW S, NEW text \in Seq(S)
  PROVE  /\ OneLine(text) \in Seq(S) /\ Neat(OneLine(text))
         /\ OneLine(text) # <<>> => Last(OneLine(text)) # " "
<1> DEFINE n == Len(text)
<1>1. PICK acc \in [0 .. n -> Seq(S)] :
        Lines(acc, text) /\ OneLine(text) = TrimRight(acc[n])
  BY LineFold
<1> DEFINE T == {i \in 0 .. n : Neat(acc[i])}
<1>2. n \in Nat
  OBVIOUS
<1>3. 0 \in T
  <2>1. acc[0] = <<>>
    BY <1>1 DEF Lines
  <2>2. Neat(<<>>)
    BY DEF Neat
  <2> QED BY <1>2, <2>1, <2>2
<1>4. ASSUME NEW i \in 1 .. n, i - 1 \in T PROVE i \in T
  <2>1. i \in 0 .. n /\ i - 1 \in 0 .. n
    BY <1>2
  <2> DEFINE l == acc[i - 1]
             c == text[i]
  <2>2. l \in Seq(S) /\ Neat(l) /\ c \in S /\ Len(l) \in Nat
    BY <1>4, <2>1
  <2>3. acc[i] = IF c = " " /\ (l = <<>> \/ Last(l) = " ") THEN l ELSE Append(l, c)
    BY <1>1 DEF Lines
  <2> HIDE DEF l, c
  <2>4. CASE c = " " /\ (l = <<>> \/ Last(l) = " ")
    BY <2>1, <2>2, <2>3, <2>4
  <2>5. CASE ~(c = " " /\ (l = <<>> \/ Last(l) = " "))
    <3> DEFINE a == Append(l, c)
    <3>1. /\ a # <<>> /\ Len(a) = Len(l) + 1 /\ a[Len(l) + 1] = c
          /\ \A j \in 1 .. Len(l) : a[j] = l[j]
      BY <2>2, AppendProperties
    <3> HIDE DEF a
    <3>2. CASE l = <<>>
      <4>1. Len(l) = 0
        BY <3>2
      <4>2. c # " "
        BY <2>5, <3>2
      <4>3. a[1] = c /\ Len(a) = 1
        BY <3>1, <4>1
      <4>4. 1 .. Len(a) - 1 = {}
        BY <4>3
      <4>5. Neat(a)
        BY <4>2, <4>3, <4>4 DEF Neat
      <4> QED BY <2>1, <2>3, <2>5, <4>5 DEF a
    <3>3. CASE l # <<>>
      <4>1. Len(l) \in 1 .. Len(l) /\ 1 \in 1 .. Len(l) /\ Len(a) - 1 = Len(l)
        BY <2>2, <3>1, <3>3
      <4>2. a[1] # " "
        BY <2>2, <3>1, <3>3, <4>1 DEF Neat
      <4>3. ASSUME NEW j \in 1 .. Len(l), a[j] = " " PROVE a[j + 1] # " "
        <5>1. l[j] = " "
          BY <3>1, <4>3
        <5>2. CASE j = Len(l)
          <6>1. Last(l) = " "
            BY <5>1, <5>2 DEF Last
          <6>2. c # " "
            BY <2>5, <6>1
          <6> QED BY <3>1, <5>2, <6>2
        <5>3. CASE j # Len(l)
          <6>1. j \in 1 .. Len(l) - 1 /\ j + 1 \in 1 .. Len(l)
            BY <2>2, <5>3
          <6>2. l[j + 1] # " "
            BY <2>2, <5>1, <6>1 DEF Neat
          <6> QED BY <3>1, <6>1, <6>2
        <5> QED BY <5>2, <5>3
      <4>4. Neat(a)
        BY <4>1, <4>2, <4>3 DEF Neat
      <4> QED BY <2>1, <2>3, <2>5, <4>4 DEF a
    <3> QED BY <3>2, <3>3
  <2> QED BY <2>4, <2>5
<1>5. Neat(acc[n]) /\ acc[n] \in Seq(S)
  <2>1. \A i \in 0 .. n : i \in T
    <3> HIDE DEF T, n
    <3> QED BY <1>2, <1>3, <1>4, Upwards
  <2>2. n \in 0 .. n
    BY <1>2
  <2> QED BY <2>1, <2>2
<1> QED BY <1>1, <1>5, TrimIsNeat

\* The name of a thread fits, for any text.
LEMMA NameFits ==
  ASSUME NEW S, NEW text \in Seq(S)
  PROVE  LET name == threadName(text)
         IN  Len(name) \in 1 .. NameMax /\ name[1] # " " /\ Last(name) # " "
<1> DEFINE line == OneLine(outsideAngles(text))
           name == threadName(text)
<1>1. /\ line \in Seq(S) /\ Neat(line)
      /\ line # <<>> => Last(line) # " "
  BY KeptIsOutside, LineIsNeat
<1>2. NameMax \in Nat \ {0}
  BY TopicAssumption DEF TopicAssumption
<1>3. name = IF line = <<>> THEN <<"session">>
             ELSE IF Len(line) > NameMax THEN Append(Clipped(line), "...") ELSE line
  BY DEF threadName
<1> HIDE DEF line, name
<1>4. Len(line) \in Nat
  BY <1>1, LenProperties
<1>5. CASE line = <<>>
  <2>1. name = <<"session">>
    BY <1>3, <1>5
  <2>2. Len(name) = 1 /\ name[1] = "session"
    BY <2>1
  <2>3. "session" # " "
    OBVIOUS
  <2>4. Len(name) \in 1 .. NameMax
    BY <1>2, <2>2
  <2> QED BY <2>2, <2>3, <2>4 DEF Last, name
<1>6. CASE line # <<>> /\ ~(Len(line) > NameMax)
  <2>1. name = line
    BY <1>3, <1>6
  <2>2. Len(line) \in 1 .. NameMax
    <3>1. line \in Seq(S) /\ line # <<>>
      BY <1>1, <1>6
    <3>2. Len(line) # 0
      BY <3>1
    <3> QED BY <1>2, <1>4, <1>6, <3>2
  <2>3. line[1] # " "
    BY <1>1, <1>6 DEF Neat
  <2> QED BY <1>1, <1>6, <2>1, <2>2, <2>3 DEF name
<1>7. CASE line # <<>> /\ Len(line) > NameMax
  <2> DEFINE m == NameMax - 1
             cut == SubSeq(line, 1, m)
             r == TrimRight(cut)
             R == S \cup {"..."}
  <2>1. name = Append(r, "...")
    BY <1>3, <1>7 DEF Clipped
  <2>2. m \in Nat /\ m < Len(line)
    BY <1>2, <1>4, <1>7
  <2>3. /\ cut \in Seq(S) /\ Len(cut) = m
        /\ \A i \in 1 .. m : cut[i] = line[i]
    <3>1. m <= Len(line)
      BY <1>4, <2>2
    <3> HIDE DEF m
    <3> QED BY <1>1, <2>2, <3>1, Beginning
  <2>4. Neat(cut)
    <3>1. cut # <<>> => 1 \in 1 .. m
      <4> HIDE DEF cut
      <4> QED BY <2>2, <2>3
    <3>2. \A j \in 1 .. m - 1 : j \in 1 .. m /\ j + 1 \in 1 .. m
                                /\ j \in 1 .. Len(line) - 1
      BY <2>2
    <3> HIDE DEF cut, m
    <3> QED BY <1>1, <1>7, <2>3, <3>1, <3>2 DEF Neat
  <2> HIDE DEF cut
  <2>5. r \in Seq(S) /\ Len(r) <= m /\ Neat(r) /\ Len(r) \in Nat
    <3>1. r \in Seq(S) /\ Len(r) <= m /\ Neat(r)
      BY <2>3, <2>4, TrimIsNeat
    <3> QED BY <3>1, LenProperties
  <2> HIDE DEF r
  <2>6. r \in Seq(R) /\ "..." \in R
    BY <2>5, SeqMonotonic
  <2>7. /\ Len(name) = Len(r) + 1 /\ name[Len(r) + 1] = "..."
        /\ \A i \in 1 .. Len(r) : name[i] = r[i]
    <3> HIDE DEF R
    <3> QED BY <2>1, <2>6, AppendProperties
  <2>8. Len(name) \in 1 .. NameMax
    BY <1>2, <2>5, <2>7
  <2>9. Last(name) # " "
    <3>1. Last(name) = "..."
      BY <2>7 DEF Last
    <3> QED BY <3>1
  <2>10. name[1] # " "
    <3>1. CASE r = <<>>
      <4>1. Len(r) + 1 = 1
        BY <3>1
      <4>2. name[1] = "..."
        BY <2>7, <4>1
      <4> QED BY <4>2
    <3>2. CASE r # <<>>
      <4>1. r \in Seq(S) /\ Neat(r)
        BY <2>5
      <4>2. 1 \in 1 .. Len(r)
        BY <3>2, <4>1
      <4>3. 1 \in 1 .. Len(r) /\ r[1] # " "
        BY <3>2, <4>1, <4>2 DEF Neat
      <4> QED BY <2>7, <4>3
    <3> QED BY <3>1, <3>2
  <2> QED BY <2>8, <2>9, <2>10 DEF name
<1> QED BY <1>5, <1>6, <1>7

-----------------------------------------------------------------------------
(* The files                                                               *)

\* embedImages takes each image that Discord mirrors, and takes it once.
LEMMA ImagesOnce ==
  ASSUME NEW S, NEW embeds \in Seq(S)
  PROVE  LET images == {Image(embed) : embed \in ToSet(embeds)} \cap Mirrored
         IN  /\ embedImages(embeds) \in Seq({Image(embed) : embed \in S})
             /\ ToSet(embedImages(embeds)) = images
             /\ Len(embedImages(embeds)) = Cardinality(images)
<1> DEFINE n == Len(embeds)
           V == {Image(embed) : embed \in S}
           Images(i) == {Image(embeds[j]) : j \in 1 .. i} \cap Mirrored
<1>1. PICK acc \in [0 .. n -> Seq(V)] :
        Picks(acc, embeds) /\ embedImages(embeds) = acc[n]
  <2>1. \A e \in S : Image(e) \in V
    OBVIOUS
  <2> HIDE DEF V
  <2> QED BY <2>1, ImagesFold
<1> DEFINE T == {i \in 0 .. n : /\ ToSet(acc[i]) = Images(i)
                                /\ IsFiniteSet(Images(i))
                                /\ Cardinality(Images(i)) = Len(acc[i])}
<1>2. n \in Nat /\ \A i \in 1 .. n : embeds[i] \in S
  OBVIOUS
<1>3. 0 \in T
  <2>1. acc[0] = <<>> /\ Images(0) = {}
    BY <1>1 DEF Picks
  <2>2. ToSet(<<>>) = {} /\ Len(<<>>) = 0
    BY DEF ToSet
  <2>3. 0 \in 0 .. n
    BY <1>2
  <2> HIDE DEF Images
  <2> QED BY <2>1, <2>2, <2>3, FS_EmptySet
<1>4. ASSUME NEW i \in 1 .. n, i - 1 \in T PROVE i \in T
  <2> DEFINE l == acc[i - 1]
             x == Image(embeds[i])
             I == Images(i - 1)
  <2>1. /\ i \in 0 .. n /\ i - 1 \in 0 .. n /\ 1 .. i = (1 .. i - 1) \cup {i}
    BY <1>2
  <2>2. l \in Seq(V) /\ x \in V
    BY <1>2, <2>1
  <2>3. ToSet(l) = I /\ IsFiniteSet(I) /\ Cardinality(I) = Len(l)
    BY <1>4
  <2>4. acc[i] = IF Skipped(l, x) THEN l ELSE Append(l, x)
    BY <1>1 DEF Picks
  <2>5. Images(i) = IF x \in Mirrored THEN I \cup {x} ELSE I
    BY <2>1
  <2> HIDE DEF l, x, I, Images, V
  <2>6. Skipped(l, x) <=> x \notin Mirrored \/ x \in I
    <3>1. DOMAIN l = 1 .. Len(l)
      BY <2>2, LenProperties
    <3>2. Contains(l, x) <=> x \in ToSet(l)
      BY <3>1 DEF Contains, ToSet
    <3> QED BY <2>3, <3>2 DEF Skipped
  <2>7. CASE x \notin Mirrored \/ x \in I
    <3>1. acc[i] = l /\ Images(i) = I
      BY <2>4, <2>5, <2>6, <2>7
    <3> QED BY <2>1, <2>3, <3>1
  <2>8. CASE x \in Mirrored /\ x \notin I
    <3> DEFINE a == Append(l, x)
    <3>1. acc[i] = a /\ Images(i) = I \cup {x}
      BY <2>4, <2>5, <2>6, <2>8
    <3>2. /\ Len(a) = Len(l) + 1 /\ DOMAIN a = 1 .. Len(l) + 1
          /\ \A j \in 1 .. Len(l) : a[j] = l[j]
          /\ a[Len(l) + 1] = x /\ DOMAIN l = 1 .. Len(l) /\ Len(l) \in Nat
      BY <2>2
    <3> HIDE DEF a
    <3>3. 1 .. Len(l) + 1 = (1 .. Len(l)) \cup {Len(l) + 1}
      BY <3>2
    <3>4. ToSet(a) = ToSet(l) \cup {x}
      BY <3>2, <3>3 DEF ToSet
    <3>5. IsFiniteSet(I \cup {x}) /\ Cardinality(I \cup {x}) = Cardinality(I) + 1
      BY <2>3, <2>8, FS_AddElement
    <3> QED BY <2>1, <2>3, <3>1, <3>2, <3>4, <3>5
  <2> QED BY <2>7, <2>8
<1>5. n \in T
  <2>1. \A i \in 0 .. n : i \in T
    <3> HIDE DEF T, n
    <3> QED BY <1>2, <1>3, <1>4, Upwards
  <2> HIDE DEF T
  <2> QED BY <1>2, <2>1
<1>6. {Image(embed) : embed \in ToSet(embeds)} \cap Mirrored = Images(n)
  <2>1. DOMAIN embeds = 1 .. n
    OBVIOUS
  <2>2. ToSet(embeds) = {embeds[j] : j \in 1 .. n}
    BY <2>1 DEF ToSet
  <2> HIDE DEF n
  <2> QED BY <2>2
<1>7. acc[n] \in Seq(V)
  BY <1>2
<1> HIDE DEF Images
<1> QED BY <1>1, <1>5, <1>6, <1>7

\* The end of two sequences put together.
LEMMA Ending ==
  ASSUME NEW S, NEW s \in Seq(S), NEW t \in Seq(S)
  PROVE  SubSeq(s \o t, Len(s) + 1, Len(s \o t)) = t
<1> DEFINE r == SubSeq(s \o t, Len(s) + 1, Len(s \o t))
<1>1. /\ s \o t \in Seq(S) /\ Len(s \o t) = Len(s) + Len(t)
      /\ Len(s) \in Nat /\ Len(t) \in Nat
      /\ \A i \in 1 .. Len(t) : (s \o t)[Len(s) + i] = t[i]
  OBVIOUS
<1>2. r \in Seq(S) /\ Len(r) = Len(t)
  BY <1>1
<1>3. \A i \in 1 .. Len(t) : r[i] = t[i]
  BY <1>1
<1> HIDE DEF r
<1>4. r = t
  BY <1>2, <1>3, SeqEqual
<1> QED BY <1>4 DEF r

\* What reference answers.
LEMMA ReferenceIsOne ==
  ASSUME NEW ref \in Quotes, NEW fetched \in Quotes
  PROVE  reference(ref, fetched) \in Quotes \cup {Nothing}
BY DEF reference

\* The files in their order.
Ordered(files, mine, quoted) ==
  /\ \A i \in 1 .. Len(mine) : files[i] = mine[i]
  /\ quoted # Nothing =>
       LET images == {Image(embed) : embed \in ToSet(quoted.embeds)} \cap Mirrored
           uploads == Len(mine) + Len(quoted.uploads)
           handed == SubSeq(files, uploads + 1, Len(files))
       IN  ToSet(handed) = images /\ Len(handed) = Cardinality(images)

LEMMA FilesAre ==
  ASSUME NEW mine \in Uploads, NEW quoted \in Quotes \cup {Nothing}
  PROVE  Ordered(attachmentsOf(mine, quoted), mine, quoted)
<1>1. mine \in Seq(ToSet(mine))
  BY IntakeAssumption DEF IntakeAssumption
<1>2. CASE quoted = Nothing
  <2>1. attachmentsOf(mine, quoted) = mine
    BY <1>2 DEF attachmentsOf
  <2> QED BY <1>2, <2>1 DEF Ordered
<1>3. CASE quoted # Nothing
  <2> DEFINE up == quoted.uploads
             embeds == quoted.embeds
             out == embedImages(embeds)
             V == {Image(embed) : embed \in ToSet(embeds)}
             S == ToSet(mine) \cup ToSet(up) \cup V
             files == attachmentsOf(mine, quoted)
  <2>1. up \in Seq(ToSet(up)) /\ embeds \in Seq(ToSet(embeds))
    BY <1>3, IntakeAssumption DEF IntakeAssumption
  <2>2. files = (mine \o up) \o out
    BY <1>3 DEF attachmentsOf
  <2>3. out \in Seq(V) /\ ToSet(out) = V \cap Mirrored /\ Len(out) = Cardinality(V \cap Mirrored)
    <3> HIDE DEF up, embeds
    <3> QED BY <2>1, ImagesOnce
  <2> HIDE DEF up, embeds, out, V, files
  <2>4. mine \in Seq(S) /\ up \in Seq(S) /\ out \in Seq(S)
    <3>1. ToSet(mine) \subseteq S /\ ToSet(up) \subseteq S /\ V \subseteq S
      OBVIOUS
    <3> HIDE DEF S
    <3> QED BY <1>1, <2>1, <2>3, <3>1, SeqMonotonic
  <2> HIDE DEF S
  <2> DEFINE both == mine \o up
  <2>5. /\ both \in Seq(S) /\ Len(both) = Len(mine) + Len(up)
        /\ Len(mine) \in Nat /\ Len(up) \in Nat
        /\ \A i \in 1 .. Len(mine) : i \in 1 .. Len(both) /\ both[i] = mine[i]
    BY <2>4
  <2> HIDE DEF both
  <2>6. \A i \in 1 .. Len(both) : (both \o out)[i] = both[i]
    BY <2>4, <2>5
  <2>7. \A i \in 1 .. Len(mine) : files[i] = mine[i]
    BY <2>2, <2>5, <2>6 DEF both
  <2>8. SubSeq(files, Len(mine) + Len(up) + 1, Len(files)) = out
    <3>1. SubSeq(both \o out, Len(both) + 1, Len(both \o out)) = out
      BY <2>4, <2>5, Ending
    <3>2. files = both \o out
      BY <2>2 DEF both
    <3> QED BY <2>5, <3>1, <3>2
  <2> QED BY <2>3, <2>7, <2>8 DEF files, up, embeds, V, Ordered
<1> QED BY <1>2, <1>3

-----------------------------------------------------------------------------
\* A decision on the text or the files is made of what there may be.
TextInv ==
  /\ stage = "repo" =>
       \E toks \in Toks, repos \in Catalogs :
         /\ about = [toks |-> toks, repos |-> repos]
         /\ verdict = [repo |-> matchRepo(toks, repos)]
  /\ stage = "thread" =>
       \E text \in Texts :
         about = [text |-> text] /\ verdict = [name |-> threadName(text)]
  /\ stage = "files" =>
       \E mine \in Uploads, ref, fetched \in Quotes :
         /\ about = [mine |-> mine, ref |-> ref, quoted |-> reference(ref, fetched)]
         /\ verdict = [files |-> attachmentsOf(mine, reference(ref, fetched))]

LEMMA TextInit == IntakeInit => TextInv
BY DEF IntakeInit, TextInv

LEMMA TextStep ==
  ASSUME TextInv, [IntakeNext]_intakeVars
  PROVE  TextInv'
<1>1. CASE Receive \/ Hear \/ Permit \/ Look \/ Stop \/ Read
  <2>1. stage' \notin {"repo", "thread", "files"}
    BY <1>1 DEF Receive, Hear, Permit, Look, Stop, Read
  <2> QED BY <2>1 DEF TextInv
<1>2. CASE NameRepo
  <2>1. stage' = "repo"
    BY <1>2 DEF NameRepo, Decide
  <2>2. \E toks \in Toks, repos \in Catalogs :
          /\ about' = [toks |-> toks, repos |-> repos]
          /\ verdict' = [repo |-> matchRepo(toks, repos)]
    BY <1>2 DEF NameRepo
  <2> QED BY <2>1, <2>2 DEF TextInv
<1>3. CASE NameThread
  <2>1. stage' = "thread"
    BY <1>3 DEF NameThread, Decide
  <2>2. \E text \in Texts :
          about' = [text |-> text] /\ verdict' = [name |-> threadName(text)]
    BY <1>3 DEF NameThread
  <2> QED BY <2>1, <2>2 DEF TextInv
<1>4. CASE Collect
  <2>1. stage' = "files"
    BY <1>4 DEF Collect, Decide
  <2>2. \E mine \in Uploads, ref, fetched \in Quotes :
          /\ about' = [mine |-> mine, ref |-> ref, quoted |-> reference(ref, fetched)]
          /\ verdict' = [files |-> attachmentsOf(mine, reference(ref, fetched))]
    BY <1>4 DEF Collect
  <2> QED BY <2>1, <2>2 DEF TextInv
<1>5. CASE UNCHANGED intakeVars
  BY <1>5 DEF intakeVars, TextInv
<1> QED BY <1>1, <1>2, <1>3, <1>4, <1>5 DEF IntakeNext

\* The text and the files decided on are ones there may be.
LEMMA TextInvariance == IntakeSpec => []TextInv
<1> QED BY TextInit, TextStep, PTL DEF IntakeSpec

\* The repository a session opens on is one the ping names, and the only base
\* name it names, whatever repositories there are and whatever is written, two
\* of one base name in full aside (matchRepo of topic.go).
THEOREM RepoIsNamed == IntakeSpec => []RepoIsTheOneNamed
<1>1. TextInv => RepoIsTheOneNamed
  <2> SUFFICES ASSUME TextInv, stage = "repo" PROVE RepoIsTheOneNamed
    BY DEF RepoIsTheOneNamed
  <2>1. PICK toks \in Toks, repos \in Catalogs :
          /\ about = [toks |-> toks, repos |-> repos]
          /\ verdict = [repo |-> matchRepo(toks, repos)]
    BY DEF TextInv
  <2>2. /\ about.toks = toks /\ about.repos = repos
        /\ verdict.repo = matchRepo(toks, repos)
    BY <2>1
  <2>3. NamedRepos = {repo \in ToSet(repos) : NamedIn(toks, repo)}
    BY <2>2 DEF NamedRepos
  <2> QED BY <2>2, <2>3, RepoIsRight DEF RepoIsTheOneNamed
<1> QED BY <1>1, TextInvariance, PTL

\* The name of a thread fits and is what stands outside of angles, for every text
\* (threadName, outsideAngles and oneLine of topic.go).
THEOREM ThreadNamed == IntakeSpec => []ThreadIsNamed
<1>1. TextInv => ThreadIsNamed
  <2>1. ASSUME TextInv, stage = "thread" PROVE ThreadNameFits /\ OnlyOutsideIsKept
    <3>1. PICK text \in Texts :
            about = [text |-> text] /\ verdict = [name |-> threadName(text)]
      BY <2>1 DEF TextInv
    <3>2. about.text = text /\ verdict.name = threadName(text)
      BY <3>1
    <3>3. text \in Seq(ToSet(text))
      BY IntakeAssumption DEF IntakeAssumption
    <3>4. ThreadNameFits
      BY <3>2, <3>3, NameFits DEF ThreadNameFits
    <3>5. OnlyOutsideIsKept
      BY <3>2, <3>3, KeptIsOutside DEF OnlyOutsideIsKept
    <3> QED BY <3>4, <3>5
  <2>2. stage # "thread" => ThreadNameFits /\ OnlyOutsideIsKept
    BY DEF ThreadNameFits, OnlyOutsideIsKept
  <2> QED BY <2>1, <2>2 DEF ThreadIsNamed
<1> QED BY <1>1, TextInvariance, PTL

\* The author's files come first, and of the images in the message pointed at
\* each that is mirrored comes once, whatever its embeds are (attachmentsOf of
\* router.go, embedImages of reference.go).
THEOREM FilesOrdered == IntakeSpec => []FilesInOrder
<1>1. TextInv => FilesInOrder
  <2>1. ASSUME TextInv, stage = "files" PROVE OwnFilesFirst /\ MirroredImagesOnce
    <3>1. PICK mine \in Uploads, ref \in Quotes, fetched \in Quotes :
            /\ about = [mine |-> mine, ref |-> ref,
                        quoted |-> reference(ref, fetched)]
            /\ verdict = [files |-> attachmentsOf(mine, reference(ref, fetched))]
      BY <2>1 DEF TextInv
    <3> DEFINE quoted == reference(ref, fetched)
    <3>2. /\ about.mine = mine /\ about.quoted = quoted
          /\ verdict.files = attachmentsOf(mine, quoted)
      BY <3>1
    <3>3. quoted \in Quotes \cup {Nothing}
      BY ReferenceIsOne
    <3> HIDE DEF quoted
    <3>6. Ordered(verdict.files, about.mine, about.quoted)
      BY <3>2, <3>3, FilesAre
    <3>4. OwnFilesFirst
      BY <3>6 DEF OwnFilesFirst, Ordered
    <3>5. MirroredImagesOnce
      BY <3>6 DEF MirroredImagesOnce, Ordered
    <3> QED BY <3>4, <3>5
  <2>2. stage # "files" => OwnFilesFirst /\ MirroredImagesOnce
    BY DEF OwnFilesFirst, MirroredImagesOnce
  <2> QED BY <2>1, <2>2 DEF FilesInOrder
<1> QED BY <1>1, TextInvariance, PTL
=============================================================================
