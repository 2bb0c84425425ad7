------------------------------- MODULE Access -------------------------------
(***************************************************************************)
(* Who may make the bot work, and in which session (src/access.go,         *)
(* address.go, idset.go, sessionkey.go, message.go, mode.go).              *)
(*                                                                         *)
(* These are decisions on one message; Intake makes them in the order of   *)
(* onMessage.  An id is a model value, a comma-separated setting is the    *)
(* set of the ids in it, and what the text of a message mentions is a flag *)
(* of the message.  The bot knows its own id: it does not start without.   *)
(***************************************************************************)
EXTENDS Naturals, FiniteSets

CONSTANTS
  People, Bots, Roles, Rooms,
  Self,    \* the bot
  Star,    \* the wildcard "*"
  None     \* "", no id at all

Modes     == {"normal", "support", "ambient", "off"}
Authors   == People \cup Bots \cup {Self}

ASSUME AccessAssumption ==
  /\ People \cap Bots = {} /\ Self \notin People \cup Bots
  /\ {Star, None} \cap (Authors \cup Roles \cup Rooms) = {}
  /\ Star # None /\ None \notin Modes

\* A message as it arrives: a thread may be one the gateway recorded, with the
\* channel it hangs off, and a message outside a guild carries no roles.
Messages ==
  {m \in [author : Authors, room : Rooms, guild : BOOLEAN,
          roles : SUBSET Roles, thread : BOOLEAN, parent : Rooms \cup {None},
          mentions : BOOLEAN, replies : BOOLEAN] :
     /\ ~m.guild => m.roles = {} /\ ~m.thread
     /\ m.parent # None => m.thread
     /\ m.parent # m.room}

\* The settings that say who and where.
Policies ==
  [owner : People \cup {None}, users : SUBSET (Authors \cup {Star}),
   roles : SUBSET (Roles \cup {Star}), channels : SUBSET (Rooms \cup {Star}),
   ignored : SUBSET (Rooms \cup {Star}), allowAll : BOOLEAN,
   bots : {"none", "mentions", "all"}]

Addresses ==
  [requireMention : BOOLEAN, threadRequireMention : BOOLEAN,
   free : SUBSET (Rooms \cup {Star})]

Scopes == [groupPerUser : BOOLEAN, threadPerUser : BOOLEAN]

-----------------------------------------------------------------------------
(* idset.go and message.go.                                                *)

matches(set, ids) == Star \in set \/ \E id \in ids : id # None /\ id \in set

IsBot(author) == author \in Bots \cup {Self}
Whereabouts(m) == {m.room, m.parent}

-----------------------------------------------------------------------------
(* access.go.                                                              *)

RolesEverywhere(p, m) == matches(p.roles, m.roles)
\* A role must be held: the wildcard is not one.
RolesByName(p, m) == m.guild /\ p.roles \cap m.roles # {}
RoleCounts(p, m) == p.roles # {} /\ m.guild /\ matches(p.roles, m.roles)

OwnerForgotten(p) == p.users = {} /\ p.channels # {}
\* The channel is the policy.
ChannelIsThePolicy(p) ==
  p.users = {} /\ p.roles = {} /\ p.owner = None /\ p.channels # {}

authorizes(p, m) ==
  \/ p.owner # None /\ m.author = p.owner
  \/ matches(p.users, {m.author})
  \/ RoleCounts(p, m)
  \/ p.allowAll
  \/ ChannelIsThePolicy(p)

BotsArePeople(p, mentioned) == p.bots # "none"
BotMayAsk(p, mentioned) == p.bots = "all" \/ (p.bots = "mentions" /\ mentioned)

IgnoredByItself(p, m) == matches(p.ignored, {m.room})
Ignored(p, m) == matches(p.ignored, Whereabouts(m))

permits(p, m, mentioned) ==
  /\ m.author # Self
  /\ IsBot(m.author) => BotMayAsk(p, mentioned)
  /\ ~Ignored(p, m)
  /\ p.channels # {} => matches(p.channels, Whereabouts(m))
  /\ authorizes(p, m)

configured(p) ==
  \/ p.owner # None \/ p.users # {} \/ p.roles # {} \/ p.channels # {}
  \/ p.allowAll

-----------------------------------------------------------------------------
(* address.go.                                                             *)

chatType(m) ==
  IF ~m.guild THEN "dm" ELSE IF m.thread THEN "thread" ELSE "channel"

addressed(a, m) ==
  \/ m.mentions \/ m.replies
  \/ chatType(m) = "dm"
  \/ chatType(m) = "thread" /\ ~a.threadRequireMention
  \/ matches(a.free, Whereabouts(m))
  \/ ~a.requireMention

-----------------------------------------------------------------------------
(* sessionkey.go.                                                          *)

isolatesUser(s, type) ==
  CASE type = "dm" -> FALSE
    [] type = "thread" -> s.threadPerUser
    [] type = "channel" -> s.groupPerUser

SharedUnlessPerUser(s, type) == ~isolatesUser(s, type)
multiUser(s, type) == type # "dm" /\ ~isolatesUser(s, type)

slot(s, type, conv, user) ==
  [conv |-> conv, user |-> IF isolatesUser(s, type) THEN user ELSE None]
=============================================================================
