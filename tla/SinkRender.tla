----------------------------- MODULE SinkRender -----------------------------
(***************************************************************************)
(* What the steps of one conversation's sink do to Discord (src/sink.go):  *)
(* the hourglass on a ping, the cross of a failure, the live progress      *)
(* message, and the deletion of an answered ping.                          *)
(*                                                                         *)
(* SinkQueue shows that steps run one at a time and in the order of their  *)
(* submission, so a step is one action here.  The steps come from several  *)
(* goroutines: the router's handler of each ping (Ask, Deliver, Note ...)  *)
(* and the turns of every session that answers in the conversation, which  *)
(* are several as soon as the sessions of a channel are per user.  The     *)
(* router's part is kept to what it submits to the sink and to why, and    *)
(* the daemon's to the turn events it sends: a turn opens with a human     *)
(* event and ends with a reply or an abandoned event.                      *)
(***************************************************************************)
EXTENDS Naturals, Sequences

CONSTANTS
  Pings,      \* the messages people write
  Sessions,   \* the sessions that answer in the conversation
  Session,    \* the session a ping is for
  Open,       \* the sessions bound before the first ping
  Owned,      \* the pings the configured owner wrote
  Here,       \* the pings written in the conversation of the sink itself
  Tidy,       \* DISCORD_TIDY_PINGS
  Progress,   \* the verbosity may render progress: it is asked each turn
  None        \* no ping: the empty msgRef, the nil progressView

ASSUME RenderAssumption ==
  /\ Session \in [Pings -> Sessions]
  /\ Open \subseteq Sessions
  /\ Owned \subseteq Pings /\ Here \subseteq Pings
  /\ {Tidy, Progress} \subseteq BOOLEAN
  /\ None \notin Pings

VARIABLES
  lastUser,   \* s.lastUser
  acked,      \* s.acked
  view,       \* s.pv, named by the ping whose turn drew it
  hourglass,  \* the messages that carry the ack reaction
  cross,      \* the messages that carry the failure reaction
  deleted,    \* the messages tidied away
  live,       \* the progress messages that still show a turn at work
  place,      \* where the handling of a ping is
  unnoted,    \* pings submitted to the daemon and not yet noted
  bound,      \* the sessions that are bound in the conversation
  menu,       \* whether a menu stands in the conversation, and was clicked
              \* when no ping was buffered
  posting,    \* pings whose handler is posting its menu
  reporting,  \* pings whose menu failed when they were not buffered any more
  turns,      \* the turns each session still has to run
  running,    \* the ping whose turn each session runs
  failing,    \* history: the acked pings fail was called for, without mishap
  mishaps     \* history: how the conversation left its calm course

sinkVars    == <<lastUser, acked, view>>
discordVars == <<hourglass, cross, deleted, live>>
menuVars    == <<menu, posting, reporting>>
turnVars    == <<turns, running>>
vars == <<sinkVars, discordVars, place, unnoted, bound, menuVars, turnVars,
          failing, mishaps>>

\* The places of a ping that waits for something and was acked, or goes
\* straight to a session.
Working == {"opening", "buffered", "picked", "refused", "bound", "submitted",
            "running"}
Places == Working \cup {"new", "heard", "unbound", "dropped", "answered",
                        "died", "failed"}

\* What the properties of a calm conversation exclude: "overlap", a ping came
\* while another one waited; "stale", a turn opened while the sink's last ping
\* was not its own; "used", the work of a click on a used menu failed; "late",
\* a menu failed whose ping was not buffered any more; "refusal", Discord may
\* refuse a reaction, an edit or a deletion.
Mishaps == {"overlap", "stale", "used", "late", "refusal"}

TypeOK ==
  /\ lastUser \in Pings \cup {None}
  /\ acked \in Pings \cup {None}
  /\ view \in Pings \cup {None}
  /\ hourglass \in SUBSET Pings
  /\ cross \in SUBSET Pings
  /\ deleted \in SUBSET Pings
  /\ live \in SUBSET Pings
  /\ place \in [Pings -> Places]
  /\ unnoted \in SUBSET Pings
  /\ bound \in SUBSET Sessions
  /\ menu \in {"none", "posted", "clicked"}
  /\ posting \in SUBSET Pings /\ reporting \in SUBSET Pings
  /\ turns \in [Sessions -> Seq(Pings)]
  /\ running \in [Sessions -> Pings \cup {None}]
  /\ failing \in SUBSET Pings
  /\ mishaps \in SUBSET Mishaps

Init ==
  /\ lastUser = None /\ acked = None /\ view = None
  /\ hourglass = {} /\ cross = {} /\ deleted = {} /\ live = {}
  /\ place = [p \in Pings |-> "new"]
  /\ unnoted = {}
  /\ bound = Open
  /\ menu = "none" /\ posting = {} /\ reporting = {}
  /\ turns = [s \in Sessions |-> <<>>]
  /\ running = [s \in Sessions |-> None]
  /\ failing = {}
  /\ mishaps \in SUBSET {"refusal"}

-----------------------------------------------------------------------------
(* Helpers.                                                                *)

Goes(p, to) == place' = [place EXCEPT ![p] = to]

MayRefuse == "refusal" \in mishaps

\* The pings that still wait for something.
Outstanding == {p \in Pings : place[p] \in Working \cup {"unbound"}}

\* A ping that comes while another one waits: from there on nothing is promised
\* of a calm conversation, whatever else happens.
Comes(p) ==
  mishaps' = IF place[p] = "new" /\ Outstanding # {} THEN Mishaps ELSE mishaps

\* addAck: the ack is remembered only when Discord took the reaction, and a
\* deleted message takes none.
AddAck(p) ==
  \/ /\ p \notin deleted
     /\ acked' = p
     /\ hourglass' = hourglass \cup {p}
  \/ /\ MayRefuse \/ p \in deleted
     /\ UNCHANGED <<acked, hourglass>>

ClearNothing == UNCHANGED <<acked, hourglass>>
\* clearAck: the ack is forgotten whether or not Discord took it back.
ClearAck ==
  /\ acked' = None
  /\ hourglass' \in {hourglass \ {acked}} \cup
       (IF MayRefuse THEN {hourglass} ELSE {})

\* addAck in a step of its own, and in onHuman.
Ack(p) == IF acked = p THEN UNCHANGED <<acked, hourglass>> ELSE AddAck(p)

CrossTooLate == ClearAck /\ UNCHANGED cross
\* The ping that failed is read before its ack is cleared.
TradeAck ==
  /\ acked' = None
  /\ hourglass' \in {hourglass \ {acked}} \cup
       (IF MayRefuse THEN {hourglass} ELSE {})
  /\ cross' \in (IF acked = None \/ acked \in deleted THEN {cross}
                 ELSE {cross \cup {acked}} \cup
                      (IF MayRefuse THEN {cross} ELSE {}))

\* flush(true) and nil: what the view has not shown yet may still be posted.
DropView ==
  /\ view' = None
  /\ live' \in {live} \cup (IF view = None THEN {} ELSE {live \cup {view}})

\* applyFail: the view is dropped, and the ping that is acked, if any, trades
\* its hourglass for a cross.
ApplyFail == DropView /\ TradeAck

TidyAnywhere == Tidy /\ acked # None /\ acked \in Owned
\* tidyPing deletes the acked ping when it is the owner's and was written in
\* the conversation the answer went to.
MayTidy == Tidy /\ acked # None /\ acked \in Here /\ acked \in Owned

ForgetsNot == lastUser' = lastUser /\ UNCHANGED acked
\* The ping that is gone is no longer acked, nor waiting for an ack.
ForgetDeleted ==
  /\ acked' = None
  /\ lastUser' = IF lastUser = acked THEN None ELSE lastUser

\* finish: the message becomes the summary.
FinishView ==
  /\ view' = None
  /\ live' \in {live \ {view}} \cup (IF MayRefuse THEN {live} ELSE {})

\* The end of onReply: the ping is deleted, or its hourglass is cleared.
SettlePing ==
  \/ /\ MayTidy /\ acked \notin deleted
     /\ deleted' = deleted \cup {acked}
     /\ ForgetDeleted
     /\ hourglass' = hourglass \ {acked}
  \/ /\ ~MayTidy \/ MayRefuse \/ acked \in deleted
     /\ ClearAck
     /\ UNCHANGED <<deleted, lastUser>>

\* The end of onAbandoned: nothing is deleted.
SettleDied == ClearAck /\ UNCHANGED <<deleted, lastUser>>

\* The history of what failed, kept while it is asked for.
Blame(p) == failing' = IF mishaps = {} THEN failing \cup {p} ELSE failing

-----------------------------------------------------------------------------
(* The router's handler of a ping.                                         *)

\* onMessage: the session of the ping did not take it, and is unbound.
SubmitRefused(p) ==
  /\ place[p] = "new" /\ Session[p] \in bound
  /\ bound' = bound \ {Session[p]}
  /\ Goes(p, "unbound")
  /\ Comes(p)
  /\ UNCHANGED <<sinkVars, discordVars, unnoted, menuVars, turnVars, failing>>

\* The pings ask is called with: the others go straight to their session.
Asking(p) ==
  place[p] = "unbound" \/ (place[p] = "new" /\ Session[p] \notin bound)

\* ask: there is no repository to work on, which is said.
NoRepos(p) ==
  /\ Asking(p)
  /\ Goes(p, "dropped")
  /\ UNCHANGED <<sinkVars, discordVars, unnoted, bound, menuVars, turnVars,
                 failing, mishaps>>

\* ask: the ping has no session yet; it is acked right away.
Ask(p) ==
  /\ Asking(p)
  /\ lastUser' = p
  /\ Ack(p)
  /\ Goes(p, "opening")
  /\ Comes(p)
  /\ UNCHANGED <<view, cross, deleted, live, unnoted, bound, menuVars,
                 turnVars, failing>>

\* r.pending holds one ping: whoever else was in it is lost.
PutAlone(p, to) ==
  place' = [q \in Pings |-> IF q = p THEN to
                            ELSE IF place[q] = "buffered" THEN "dropped"
                            ELSE place[q]]

\* askRepo: the ping is buffered, over the one that was, and its menu posted.
AskRepo(p) ==
  /\ place[p] = "opening"
  /\ posting' = posting \cup {p}
  /\ PutAlone(p, "buffered")
  /\ UNCHANGED <<sinkVars, discordVars, unnoted, bound, menu, reporting,
                 turnVars, failing, mishaps>>

MenuPosted(p) ==
  /\ p \in posting
  /\ posting' = posting \ {p}
  /\ menu' = IF menu = "none" THEN "posted" ELSE menu
  /\ UNCHANGED <<sinkVars, discordVars, place, unnoted, bound, reporting,
                 turnVars, failing, mishaps>>

\* The menu could not be posted: the buffer is emptied, whoever is in it, and
\* a failure is told, by Fail or, when the ping is not buffered any more, by
\* TellLate.
MenuFails(p) ==
  /\ p \in posting
  /\ posting' = posting \ {p}
  /\ IF place[p] = "buffered"
     THEN PutAlone(p, "refused") /\ UNCHANGED <<reporting, mishaps>>
     ELSE /\ PutAlone(p, place[p])
          /\ reporting' = reporting \cup {p}
          /\ mishaps' = mishaps \cup {"late"}
  /\ UNCHANGED <<sinkVars, discordVars, unnoted, bound, menu, turnVars,
                 failing>>

\* onBindPick: the author of the buffered ping picks its repository, on
\* whichever menu of the conversation.
Pick(p) ==
  /\ menu # "none" /\ place[p] = "buffered"
  /\ Goes(p, "picked")
  /\ UNCHANGED <<sinkVars, discordVars, unnoted, bound, menuVars, turnVars,
                 failing, mishaps>>

\* bind: the daemon made the session; it is bound, unless the store is locked.
Bind(p) ==
  /\ place[p] \in {"opening", "picked"}
  /\ bound' \in {bound, bound \cup {Session[p]}}
  /\ Goes(p, "bound")
  /\ UNCHANGED <<sinkVars, discordVars, unnoted, menuVars, turnVars, failing,
                 mishaps>>

\* noteSaveFailure, of onMessage and of bind: what could not be saved is said,
\* once for each change, and the handling of the ping goes on.
SaveFails(p) ==
  /\ place[p] \in {"unbound", "bound"}
  /\ ApplyFail
  /\ IF place[p] = "bound" THEN Blame(p) ELSE UNCHANGED failing
  /\ UNCHANGED <<lastUser, deleted, place, unnoted, bound, menuVars, turnVars,
                 mishaps>>

\* submit: the daemon takes the message, and the ping is noted after that.
Deliver(p) ==
  /\ place[p] = "bound" \/ (place[p] = "new" /\ Session[p] \in bound)
  /\ Goes(p, "submitted")
  /\ turns' = [turns EXCEPT ![Session[p]] = Append(@, p)]
  /\ unnoted' = unnoted \cup {p}
  /\ Comes(p)
  /\ UNCHANGED <<sinkVars, discordVars, bound, menuVars, running, failing>>

Note(p) ==
  /\ p \in unnoted
  /\ lastUser' = p
  /\ unnoted' = unnoted \ {p}
  /\ UNCHANGED <<acked, view, discordVars, place, bound, menuVars, turnVars,
                 failing, mishaps>>

\* The menu could not be posted, the daemon refused the session or did not
\* take the message: fail.
Fail(p) ==
  /\ place[p] \in {"opening", "picked", "refused", "bound"}
  /\ ApplyFail
  /\ Goes(p, "failed")
  /\ Blame(p)
  /\ UNCHANGED <<lastUser, deleted, unnoted, bound, menuVars, turnVars,
                 mishaps>>

\* The channel reader notes the last message of a person, whoever it is for.
Overhear(p) ==
  /\ place[p] = "new"
  /\ lastUser' = p
  /\ Goes(p, "heard")
  /\ UNCHANGED <<acked, view, discordVars, unnoted, bound, menuVars, turnVars,
                 failing, mishaps>>

-----------------------------------------------------------------------------
(* Failures told for no ping of their own.                                 *)

FailsAstray(how) ==
  /\ ApplyFail
  /\ mishaps' = mishaps \cup {how}
  /\ UNCHANGED <<lastUser, deleted, place, unnoted, bound, menu, posting,
                 turnVars, failing>>

\* The end of askRepo, for a ping that was replaced, picked or dropped.
TellLate(p) ==
  /\ p \in reporting
  /\ reporting' = reporting \ {p}
  /\ FailsAstray("late")

\* A second click, or one on a menu whose ping is gone: the job is put
\* together again (replaceLostJob) and bound, and nothing is delivered.  There
\* may be any number of them, and each may take its time.
ClickAgain ==
  /\ menu # "none" /\ \A p \in Pings : place[p] # "buffered"
  /\ menu' = "clicked"
  /\ UNCHANGED <<sinkVars, discordVars, place, unnoted, bound, posting,
                 reporting, turnVars, failing, mishaps>>

ClickBinds(s) ==
  /\ menu = "clicked"
  /\ bound' = bound \cup {s}
  /\ UNCHANGED <<sinkVars, discordVars, place, unnoted, menuVars, turnVars,
                 failing, mishaps>>

\* Its session is refused, or a change could not be saved.
ClickFails ==
  /\ menu = "clicked"
  /\ FailsAstray("used")
  /\ UNCHANGED reporting

-----------------------------------------------------------------------------
(* The turn events of a session.                                           *)

Human(s) ==
  /\ running[s] = None /\ turns[s] # <<>>
  /\ LET p == Head(turns[s])
     IN  /\ running' = [running EXCEPT ![s] = p]
         /\ Goes(p, "running")
         /\ view' \in {view} \cup (IF Progress THEN {p} ELSE {})
         /\ mishaps' = IF lastUser = p THEN mishaps
                       ELSE mishaps \cup {"stale"}
  /\ turns' = [turns EXCEPT ![s] = Tail(@)]
  /\ IF lastUser = None THEN UNCHANGED <<acked, hourglass>> ELSE Ack(lastUser)
  /\ UNCHANGED <<lastUser, cross, deleted, live, unnoted, bound, menuVars,
                 failing>>

\* onStatus and onChunk: the view's message is posted or edited.
Status(s) ==
  /\ running[s] # None /\ view # None
  /\ live' = live \cup {view}
  /\ UNCHANGED <<sinkVars, hourglass, cross, deleted, place, unnoted, bound,
                 menuVars, turnVars, failing, mishaps>>

\* onReply: the answer is posted, the view is collapsed to its summary.
Reply(s) ==
  /\ running[s] # None
  /\ SettlePing
  /\ FinishView
  /\ Goes(running[s], "answered")
  /\ running' = [running EXCEPT ![s] = None]
  /\ UNCHANGED <<cross, unnoted, bound, menuVars, turns, failing, mishaps>>

\* onAbandoned: the view is flushed as it stands, and left.
Abandon(s) ==
  /\ running[s] # None
  /\ SettleDied
  /\ DropView
  /\ Goes(running[s], "died")
  /\ running' = [running EXCEPT ![s] = None]
  /\ UNCHANGED <<cross, unnoted, bound, menuVars, turns, failing, mishaps>>

-----------------------------------------------------------------------------
Handle(p) ==
  \/ SubmitRefused(p) \/ NoRepos(p) \/ Ask(p) \/ AskRepo(p) \/ MenuPosted(p)
  \/ MenuFails(p) \/ Pick(p) \/ Bind(p) \/ SaveFails(p) \/ Deliver(p)
  \/ Note(p) \/ Fail(p) \/ Overhear(p) \/ TellLate(p)

Click == ClickAgain \/ ClickFails \/ \E s \in Sessions : ClickBinds(s)

Turn(s) == Human(s) \/ Status(s) \/ Reply(s) \/ Abandon(s)

\* Nothing is asked, menus nobody picks from aside, and no turn runs.
Quiescent ==
  /\ \A p \in Outstanding : place[p] = "buffered"
  /\ \A p \in Pings : place[p] # "new"
  /\ unnoted = {} /\ posting = {} /\ reporting = {}
  /\ UNCHANGED vars

Next ==
  \/ \E p \in Pings : Handle(p)
  \/ Click
  \/ \E s \in Sessions : Turn(s)
  \/ Quiescent

Spec == Init /\ [][Next]_vars

-----------------------------------------------------------------------------
(* Properties.                                                             *)

\* The sink remembers an ack only while the reaction is on the message and
\* the message is there: whatever Discord refused, clearing or deleting it
\* later is not aimed at nothing.
AckIsShown == acked # None => acked \in hourglass /\ acked \notin deleted

\* The sink forgets: with no ping at work, and no failure left to tell, it
\* holds no ack and no progress view, however the turns and failures of its
\* sessions were mixed.  What it kept would be cleared, crossed or deleted by a
\* later turn.
IdleForgets ==
  acked # None \/ view # None =>
    reporting # {} \/ \E p \in Pings : place[p] \in Working

\* Tidying is narrow: a message disappears only at the end of a turn that
\* answered, and it is one of the owner's, in this very conversation, that
\* shows an hourglass.
TidyIsNarrow ==
  [][\A p \in deleted' \ deleted :
       /\ p \in Owned \cap Here \cap hourglass
       /\ \E q \in Pings : place[q] = "running" /\ place'[q] = "answered"]_vars

\* The rest is what the README says of one person who waits for each answer,
\* and each premise names what breaks it: see Mishaps.
Without(what) == mishaps \cap what = {}

\* The README on the ack: an hourglass is a state and never a destination, it
\* does not outlive the handling of its ping.
HourglassIsAState ==
  Without({"overlap", "stale", "late", "refusal"}) =>
    hourglass \subseteq Outstanding

\* The README on a failure: the cross is put on the same message, the one that
\* failed.
CrossMarksTheFailed == Without(Mishaps) => cross = failing

\* What stands on a ping is true of it: the hourglass while it is handled, the
\* cross once it failed; as long as each ping waits for the answer to the last
\* and is noted before its turn opens, no click on a used menu fails and no
\* menu fails late, and Discord takes the reactions.
MarksAreTrue == HourglassIsAState /\ CrossMarksTheFailed

\* The README on tidying: a turn that died keeps its ping, which is the only
\* record left of what was wanted; for one person who waits for each answer.
DiedKeepsItsPing ==
  Without({"overlap"}) => \A p \in deleted : place[p] # "died"

\* The same, and of a ping that never had a turn, where the sink also knows a
\* ping when its turn opens: whatever Discord refuses, whoever clicks on a used
\* menu, and however late one fails.
NotedDiedKeepsItsPing ==
  Without({"overlap", "stale"}) =>
    \A p \in deleted : place[p] \notin {"died", "failed"}

\* The README on progress: the live message of a turn is collapsed to a summary
\* when the turn is answered; for one person who waits for each answer, where
\* Discord takes the edits, no click on a used menu fails and no menu fails
\* late.  A note that comes after its turn has opened does no harm here.
AnsweredIsCollapsed ==
  Without({"overlap", "used", "late", "refusal"}) =>
    \A p \in live : place[p] # "answered"
=============================================================================
