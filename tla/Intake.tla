-------------------------------- MODULE Intake --------------------------------
(***************************************************************************)
(* The way of one message from the websocket to its session (onMessage of  *)
(* src/router.go, up to where Router takes over): the mode of its room,    *)
(* whether it is for the bot, whether its author may make the bot work,    *)
(* which session it belongs to; and what its text decides.                 *)
(*                                                                         *)
(* Each action is one of these decisions, and chooses the settings and the *)
(* data the decision reads when it needs them; once a later decision does  *)
(* not depend on them they are forgotten.                                  *)
(***************************************************************************)
EXTENDS Access, Topic

CONSTANTS
  Inbox,       \* the messages that may arrive
  Settings,    \* the policies an operator may have set
  Frees,       \* the values of free_response_channels
  SessionNames,    \* names of sessions
  Texts,       \* texts of messages
  Toks,        \* the sets of tokens a text may have
  Catalogs,    \* the lists of repositories the daemon may have
  Uploads,     \* lists of uploads
  Quotes       \* the messages it may point at, as the event has them or as
               \* they are fetched, and Nothing

ASSUME IntakeAssumption ==
  /\ Inbox \subseteq Messages /\ Settings \subseteq Policies
  /\ None \notin SessionNames
  /\ \A text \in Texts : text \in Seq(ToSet(text))
  /\ \A repos \in Catalogs :
       repos \in Seq(ToSet(repos)) /\ ToSet(repos) \cap {Nothing, TooMany} = {}
  /\ \A toks \in Toks : \A tok \in toks :
       tok = [owner |-> tok.owner, base |-> tok.base]
  /\ \A mine \in Uploads : mine \in Seq(ToSet(mine))
  /\ \A ref \in Quotes \ {Nothing} :
       ref.uploads \in Seq(ToSet(ref.uploads)) /\ ref.embeds \in Seq(ToSet(ref.embeds))

VARIABLES
  stage,       \* how far the message has come, or what is being decided
  message, policy, scope,
  roomMode, parentMode,      \* binds.Mode of the room and of its parent
  known,       \* the session of each slot, and the first the daemon has here
  about,       \* what the text and the files of the message are
  verdict      \* what was decided

who   == <<message, policy, scope>>
rooms == <<roomMode, parentMode>>
intakeVars == <<stage, who, rooms, known, about, verdict>>

IntakeInit ==
  /\ stage = "idle"
  /\ message = None /\ policy = None /\ scope = None
  /\ roomMode = None /\ parentMode = None
  /\ known = None /\ about = None /\ verdict = None

-----------------------------------------------------------------------------
(* onMessage.                                                              *)

RoomOnly(m, own, parents) == IF own = None THEN "normal" ELSE own
mode(m, own, parents) ==
  CASE own # None -> own
    [] own = None /\ m.parent # None -> parents
    [] OTHER -> "normal"

Receive ==
  /\ stage = "idle" /\ message' \in Inbox
  /\ roomMode' \in Modes \cup {None} /\ parentMode' \in Modes \cup {None}
  /\ stage' = IF mode(message', roomMode', parentMode') = "off"
              THEN "dropped" ELSE "arrived"
  /\ UNCHANGED <<policy, scope, known, about, verdict>>

ForTheBot(a) ==
  mode(message, roomMode, parentMode) = "ambient" \/ addressed(a, message)

\* Nothing below depends on the modes.
Hear ==
  /\ stage = "arrived" /\ roomMode' = None /\ parentMode' = None
  /\ \E a \in {a \in Addresses : a.free \in Frees} :
       stage' = IF ForTheBot(a) THEN "called" ELSE "dropped"
  /\ UNCHANGED <<who, known, about, verdict>>

Permit ==
  /\ stage = "called" /\ policy' \in Settings
  /\ stage' = IF permits(policy', message, message.mentions)
              THEN "let in" ELSE "dropped"
  /\ UNCHANGED <<message, scope, rooms, known, about, verdict>>

-----------------------------------------------------------------------------
(* Which session: of the message, and of a /stop or a choice its author    *)
(* makes in the same room (boundSession, sessionOf).                       *)

OwnSlot(s, m) == slot(s, chatType(m), m.room, m.author)
RoomSlot(m) == [conv |-> m.room, user |-> None]

\* What the store and the daemon may know of a room.
Known(s, m) ==
  [bound : [{OwnSlot(s, m), RoomSlot(m)} -> SessionNames \cup {None}],
   first : SessionNames \cup {None}]

Look ==
  /\ stage = "let in" /\ stage' = "bound"
  /\ policy' = None /\ scope' \in Scopes
  /\ known' \in Known(scope', message)
  /\ verdict' = known'.bound[OwnSlot(scope', message)]
  /\ UNCHANGED <<message, rooms, about>>

RoomFirst(s, m, k) ==
  IF k.bound[RoomSlot(m)] # None THEN k.bound[RoomSlot(m)]
  ELSE IF k.bound[OwnSlot(s, m)] # None THEN k.bound[OwnSlot(s, m)] ELSE k.first

boundSession(s, m, k) ==
  IF k.bound[OwnSlot(s, m)] # None THEN k.bound[OwnSlot(s, m)]
  ELSE IF k.bound[RoomSlot(m)] # None THEN k.bound[RoomSlot(m)] ELSE k.first

sessionOf(s, m, k) ==
  IF boundSession(s, m, k) # None THEN boundSession(s, m, k) ELSE m.room

Stop ==
  /\ stage = "bound" /\ stage' = "stopping"
  /\ about' = sessionOf(scope, message, known)
  /\ UNCHANGED <<who, rooms, known, verdict>>

\* Platform.Read: the host's reader of channels looks into the same room.  It
\* gets the messages unless the room has a session.
Read ==
  /\ stage = "bound" /\ stage' = "read"
  /\ about' = (known.bound[RoomSlot(message)] = None)
  /\ UNCHANGED <<who, rooms, known, verdict>>

-----------------------------------------------------------------------------
(* What the text and the files say.                                        *)

Decide(what) ==
  /\ stage = "idle" /\ stage' = what
  /\ UNCHANGED <<who, rooms, known>>

NameRepo ==
  /\ Decide("repo")
  /\ \E toks \in Toks, repos \in Catalogs :
       /\ about' = [toks |-> toks, repos |-> repos]
       /\ verdict' = [repo |-> matchRepo(toks, repos)]

NameThread ==
  /\ Decide("thread")
  /\ \E text \in Texts :
       /\ about' = [text |-> text]
       /\ verdict' = [name |-> threadName(text)]

\* compose and attachmentsOf of submit.
Collect ==
  /\ Decide("files")
  /\ \E mine \in Uploads, ref, fetched \in Quotes :
       LET quoted == reference(ref, fetched)
       IN  /\ about' = [mine |-> mine, ref |-> ref, quoted |-> quoted]
           /\ verdict' = [files |-> attachmentsOf(mine, quoted)]

IntakeNext ==
  \/ Receive \/ Hear \/ Permit \/ Look \/ Stop \/ Read
  \/ NameRepo \/ NameThread \/ Collect

IntakeSpec == IntakeInit /\ [][IntakeNext]_intakeVars

-----------------------------------------------------------------------------
(* Who makes the bot work.                                                 *)

\* The answer never comes in a room that is ignored, or in a thread the gateway
\* remembers under one, whoever asks (permits).
IgnoredStaysOut ==
  stage = "let in" => policy.ignored \cap (Whereabouts(message) \cup {Star}) = {}

\* Somebody the policy names, or anybody where it names nobody at all but the
\* channel; a role says nothing outside a guild, not even the wildcard.
Entitled ==
  \/ policy.allowAll
  \/ policy.owner = message.author
  \/ policy.users \cap {message.author, Star} # {}
  \/ message.guild /\ policy.roles \cap (message.roles \cup {Star}) # {}
  \/ /\ policy.owner = None /\ policy.users = {} /\ policy.roles = {}
     /\ policy.channels \cap (Whereabouts(message) \cup {Star}) # {}

OnlyTheEntitled == stage = "let in" => Entitled

\* Nothing but the room, and what is said of bots, keeps out somebody the policy
\* names.  The room keeps the owner out as well.
RoomIsBarred ==
  \/ policy.ignored \cap (Whereabouts(message) \cup {Star}) # {}
  \/ /\ policy.channels # {}
     /\ policy.channels \cap (Whereabouts(message) \cup {Star}) = {}
BotIsBarred ==
  \/ message.author = Self
  \/ /\ message.author \in Bots
     /\ policy.bots = "none" \/ (policy.bots = "mentions" /\ ~message.mentions)

\* A message permits turned down; before it no policy is read.
TurnedDown == stage = "dropped" /\ policy # None

TheEntitledAreLetIn == TurnedDown => ~Entitled \/ RoomIsBarred \/ BotIsBarred

\* Another bot gets an answer without a mention only under "all", so two bots
\* that reply to each other stop; its own messages never count.
LoopsNeedAMention ==
  stage = "let in" /\ IsBot(message.author) =>
    /\ message.author # Self
    /\ policy.bots # "none"
    /\ message.mentions \/ policy.bots = "all"

Joined(p, user) == [p EXCEPT !.users = @ \cup {user}]

\* Listing one more person shuts nobody out, save where the channel was the
\* policy: there the first one listed ends the access of everyone else.
ListingShutsNobodyOut ==
  stage = "let in" =>
    \/ policy.owner = None /\ policy.users = {} /\ policy.roles = {}
    \/ \A user \in People :
         permits(Joined(policy, user), message, message.mentions)

\* A thread is switched off with the channel it hangs off, unless it has a mode
\* of its own.
OffCoversThreads ==
  stage = "arrived" =>
    /\ roomMode # "off"
    /\ roomMode = None /\ message.parent # None => parentMode # "off"

\* The settings, combined, let in whom they say and nobody else: a room or a mode
\* that excludes wins over everything, even over the owner and through threads,
\* and beside these and the rule for bots nothing keeps out whom they name.
Admission ==
  /\ IgnoredStaysOut /\ OffCoversThreads
  /\ OnlyTheEntitled /\ TheEntitledAreLetIn
  /\ LoopsNeedAMention /\ ListingShutsNobodyOut

-----------------------------------------------------------------------------
(* Which session.                                                          *)

\* The agent is told that several people write exactly when another author in
\* this room would share its session; a direct message has one author.
SharedIsSaid ==
  stage = "bound" =>
    (multiUser(scope, chatType(message)) <=>
       /\ message.guild
       /\ \A other \in Authors :
            slot(scope, chatType(message), message.room, other)
              = OwnSlot(scope, message))

\* A /stop or a choice reaches the session the same person's messages reach; with
\* none of their own, one that is known in that very room.
StopReachesMine ==
  stage = "stopping" =>
    IF verdict # None THEN about = verdict
    ELSE about \in {known.bound[RoomSlot(message)], known.first, message.room}

\* The ways to the session of a person agree: what the agent is told of it, and
\* where a /stop looks, are what the key of the session makes them.
SessionsAgree == SharedIsSaid /\ StopReachesMine

\* "A channel the router drives by push returns nothing: that channel already has
\* an inbound path, and two would deliver every message twice" (adapters.go).
PushIsNotRead == stage = "read" /\ about => verdict = None

-----------------------------------------------------------------------------
(* What the text and the files say.                                        *)

NamedIn(toks, repo) ==
  {tok \in toks : /\ tok.base = repo.base
                  /\ tok.owner = Nothing => repo.base \in LongNames
                  /\ tok.owner \in {Nothing, repo.owner}} # {}

NamedRepos == {repo \in ToSet(about.repos) : NamedIn(about.toks, repo)}

\* Two repositories of one base name, each written in full.  Of these the code
\* takes one in silence, where the README has a menu ask.
NamedTwice ==
  \E one, other \in NamedRepos :
    /\ one.base = other.base /\ one.owner # other.owner
    /\ {[owner |-> repo.owner, base |-> repo.base] : repo \in {one, other}}
         \subseteq about.toks

\* The repository a ping opens on is one it names, all it names share its base
\* name, and of those a local checkout is preferred; two base names open none.
\* It says nothing of a ping that names two repositories of one base name in full.
RepoIsTheOneNamed ==
  stage = "repo" /\ ~NamedTwice =>
    IF verdict.repo \in {Nothing, TooMany}
    THEN \/ NamedRepos = {}
         \/ \E one, other \in NamedRepos : one.base # other.base
    ELSE /\ verdict.repo \in NamedRepos
         /\ \A repo \in NamedRepos :
              repo.base = verdict.repo.base /\ (repo.local => verdict.repo.local)

\* Discord takes the name of every thread: it is never empty and never too long,
\* and has no space at its ends.
ThreadNameFits ==
  stage = "thread" =>
    /\ Len(verdict.name) \in 1 .. NameMax
    /\ verdict.name[1] # " " /\ Last(verdict.name) # " "

Count(text, from, to, char) == Cardinality({i \in from .. to : text[i] = char})

\* A position is inside when some "<" up to it has not been closed since.
Inside(text, i) ==
  \E j \in 1 .. i :
    \A k \in j .. i : Count(text, j, k, "<") > Count(text, j, k, ">")

\* What stands outside every pair of angles reaches the name and what stands
\* inside does not: no mention, and no lost word.
OnlyOutsideIsKept ==
  stage = "thread" =>
    LET text == about.text
    IN  Len(outsideAngles(text)) =
          Cardinality({i \in 1 .. Len(text) :
                         ~Inside(text, i) /\ ~(text[i] = ">" /\ Inside(text, i - 1))})

\* The name of a thread is what was asked, as far as it fits.
ThreadIsNamed == ThreadNameFits /\ OnlyOutsideIsKept

\* The host keeps the first files only, so what the author attached comes before
\* what the message they point at has.
OwnFilesFirst ==
  stage = "files" =>
    \A i \in 1 .. Len(about.mine) : verdict.files[i] = about.mine[i]

\* Of the images in embeds, those Discord mirrors are handed over, once each, and
\* no other: the host would refuse it and a download slot be spent.
MirroredImagesOnce ==
  stage = "files" /\ about.quoted # Nothing =>
    LET images == {Image(embed) : embed \in ToSet(about.quoted.embeds)} \cap Mirrored
        uploads == Len(about.mine) + Len(about.quoted.uploads)
        handed == SubSeq(verdict.files, uploads + 1, Len(verdict.files))
    IN  ToSet(handed) = images /\ Len(handed) = Cardinality(images)

\* Of the files the host keeps none is wasted: what matters most comes first, and
\* nothing it would refuse is among them.
FilesInOrder == OwnFilesFirst /\ MirroredImagesOnce
=============================================================================
