------------------------------- MODULE Slash --------------------------------
(***************************************************************************)
(* The slash surface (src/slash.go) over the content of the allow store    *)
(* (src/allow.go).  Every interaction has a goroutine of its own, so the   *)
(* list somebody was let in by may change before they act.                 *)
(*                                                                         *)
(* An interaction asks for something on behalf of a person; what it does   *)
(* to the daemon, the router or the bindings is one effect here (Router    *)
(* models the picks and /mode), what it does to the allow store is its     *)
(* change.  Discord must be answered once, at once or by an announcement   *)
(* and a later edit, and may refuse any of these calls.  StateFile shows   *)
(* how the store is saved.                                                 *)
(***************************************************************************)
EXTENDS Naturals, FiniteSets

CONSTANTS
  Calls,      \* the interactions
  Users,
  Sessions,   \* the sessions that may have a list of their own
  Nobody

ASSUME SlashAssumption == Nobody \notin Users

VARIABLES
  locked,     \* s.locked: the file of the store could not be read
  global,     \* s.Global
  session,    \* s.Session; a session without an entry has nobody
  pc,         \* where each interaction is
  ask,        \* what it asks for
  by,         \* who asks
  told,       \* history: how often it was answered or announced, refused or not
  deferred,   \* history: the answer was announced, and an edit brings it
  fate,      \* history: what became of its answer at Discord
  effects,    \* history: what it did to the daemon, the router or a store
  free        \* history: its person could have been let in at some time

store   == <<locked, global, session>>
request == <<ask, by>>
history == <<told, deferred, fate, effects, free>>
slashVars    == <<store, pc, request, history>>

\* The menus a click may come from, the commands of the core, those of the
\* gateway, and those that change the store or read it.
Picks   == {"bind menu", "choice menu", "other menu"}
Core    == {"set", "session", "service"}
Own     == {"stop", "verbosity", "mode"}
Changes == [what : {"allow"}, op : {"add", "remove"}, user : Users,
            name : {Nobody}]
           \cup [what : {"session allow"}, op : {"add", "remove"},
                 user : Users, name : Sessions]
Plain(what) == [what |-> what, op |-> "", user |-> Nobody, name |-> Nobody]
Requests == Changes \cup
  {Plain(what) : what \in Picks \cup Core \cup Own
                          \cup {"allow list", "autocomplete"}}

SlashTypeOK ==
  /\ locked \in BOOLEAN /\ global \subseteq Users
  /\ session \in [Sessions -> SUBSET Users]
  /\ pc \in [Calls -> {"new", "gate", "let in", "denied", "run",
                       "edit", "answer", "over"}]
  /\ ask \in [Calls -> Requests \cup {Plain("nothing")}]
  /\ by \in [Calls -> Users \cup {Nobody}]
  /\ told \in [Calls -> Nat] /\ deferred \in [Calls -> BOOLEAN]
  /\ fate \in [Calls -> {"none", "taken", "refused"}]
  /\ effects \in [Calls -> Nat] /\ free \in [Calls -> BOOLEAN]

\* A store that could not load its file has nothing in it.
SlashInit ==
  /\ locked \in BOOLEAN
  /\ global \in IF locked THEN {{}} ELSE SUBSET Users
  /\ session = [n \in Sessions |-> {}]
  /\ pc = [i \in Calls |-> "new"]
  /\ ask = [i \in Calls |-> Plain("nothing")]
  /\ by = [i \in Calls |-> Nobody]
  /\ told = [i \in Calls |-> 0]
  /\ deferred = [i \in Calls |-> FALSE]
  /\ fate = [i \in Calls |-> "none"]
  /\ effects = [i \in Calls |-> 0]
  /\ free = [i \in Calls |-> FALSE]

-----------------------------------------------------------------------------
(* The allow store.                                                        *)

EmptyLetsIn(user) == global = {} \/ user \in global
Allowed(user) == ~locked /\ (global = {} \/ user \in global)

MayChange == ~locked

Replaced(list, r) ==
  IF r.op = "add" THEN {r.user} ELSE list \ {r.user}

\* AddGlobal, RemoveGlobal, AddSession and RemoveSession: the change in memory.
Changed(list, r) ==
  IF r.op = "add" THEN list \cup {r.user} ELSE list \ {r.user}

Change(r) ==
  IF MayChange
  THEN /\ global' = IF r.what = "allow" THEN Changed(global, r) ELSE global
       /\ session' = IF r.what = "session allow"
                     THEN [session EXCEPT ![r.name] = Changed(@, r)]
                     ELSE session
  ELSE UNCHANGED <<global, session>>

\* Who has an interaction under way and could be let in as the store is next.
FreeNow(asker) ==
  free' = [i \in Calls |->
             \/ free[i]
             \/ asker[i] # Nobody /\ ~locked
                /\ (global' = {} \/ asker[i] \in global')]

-----------------------------------------------------------------------------
(* Helpers.                                                                *)

Goto(i, place) == pc' = [pc EXCEPT ![i] = place]
Tell(i) == told' = [told EXCEPT ![i] = @ + 1]
Becomes(i, outcome) == fate' = [fate EXCEPT ![i] = outcome]
\* A call that brings the answer: Discord takes it, or the failure is logged.
Send(i) == \E outcome \in {"taken", "refused"} : Becomes(i, outcome)
Act(i)  == effects' = [effects EXCEPT ![i] = @ + 1]

-----------------------------------------------------------------------------
(* onInteraction, onComponent, gate.                                       *)

Arrive(i) ==
  /\ pc[i] = "new" /\ Goto(i, "gate")
  /\ ask' \in {[ask EXCEPT ![i] = r] : r \in Requests}
  /\ by' \in {[by EXCEPT ![i] = u] : u \in Users}
  /\ UNCHANGED <<store, told, deferred, fate, effects>>
  /\ FreeNow(by')

PicksUngated(i) == ask[i].what \in Picks \/ Allowed(by[i])
LetIn(i) == Allowed(by[i])

Gate(i) ==
  /\ pc[i] = "gate"
  /\ Goto(i, IF LetIn(i) THEN "let in" ELSE "denied")
  /\ UNCHANGED <<store, request, history>>

FallsThrough(i) == "let in"
AfterDenial(i) == "over"

\* The refusal is itself the answer, or an empty list of choices.
Deny(i) ==
  /\ pc[i] = "denied" /\ Goto(i, AfterDenial(i)) /\ Tell(i) /\ Send(i)
  /\ UNCHANGED <<store, request, deferred, effects, free>>

\* onBindPick, onChoicePick, stop, setVerbosity, setMode: they work first, and
\* their answer is the acknowledgement.
WorkThenAnswer(i) ==
  /\ pc[i] = "let in"
  /\ ask[i].what \in {"bind menu", "choice menu"} \cup Own
  /\ Act(i) /\ Goto(i, "answer")
  /\ UNCHANGED <<store, request, told, deferred, fate, free>>

\* A custom id that is none of the gateway's.
DropPick(i) ==
  /\ pc[i] = "let in" /\ ask[i].what = "other menu" /\ Goto(i, "over")
  /\ UNCHANGED <<store, request, history>>

UnsavedIsSilent(i) == "over"
AfterChange(i) == "answer"

\* /allow and /session allow, add and remove: saved or not, there is an answer.
ChangeList(i) ==
  /\ pc[i] = "let in" /\ ask[i] \in Changes
  /\ Change(ask[i]) /\ locked' = locked
  /\ Act(i) /\ Goto(i, AfterChange(i))
  /\ UNCHANGED <<request, told, deferred, fate>>
  /\ FreeNow(by)

ShowList(i) ==
  /\ pc[i] = "let in" /\ ask[i].what = "allow list" /\ Goto(i, "answer")
  /\ UNCHANGED <<store, request, history>>

\* Suggestions are found, or the registry has nothing to answer with.
Suggest(i) ==
  /\ pc[i] = "let in" /\ ask[i].what = "autocomplete"
  /\ \E place \in {"answer", "over"} : Goto(i, place)
  /\ UNCHANGED <<store, request, history>>

\* respond, ackComponent, RespondAutocomplete: Discord takes it, or it is lost.
Answer(i) ==
  /\ pc[i] = "answer" /\ Goto(i, "over") /\ Tell(i) /\ Send(i)
  /\ UNCHANGED <<store, request, deferred, effects, free>>

-----------------------------------------------------------------------------
(* dispatch: a command of the core takes its time, so it is announced, run, *)
(* and its result edited in.                                               *)

RunsAnyway == {"run"}
AfterFailedDefer == {"over"}

Defer(i) ==
  /\ pc[i] = "let in" /\ ask[i].what \in Core /\ Tell(i)
  /\ \/ /\ Goto(i, "run") /\ deferred' = [deferred EXCEPT ![i] = TRUE]
        /\ UNCHANGED fate
     \/ /\ \E place \in AfterFailedDefer : Goto(i, place)
        /\ UNCHANGED deferred /\ Becomes(i, "refused")
  /\ UNCHANGED <<store, request, effects, free>>

Dispatch(i) ==
  /\ pc[i] = "run" /\ Goto(i, "edit") /\ Act(i)
  /\ UNCHANGED <<store, request, told, deferred, fate, free>>

\* The edit is taken; or it fails, or the application's id cannot be found: the
\* announcement then stands for ever.
EditResponse(i) ==
  /\ pc[i] = "edit" /\ Goto(i, "over") /\ Send(i)
  /\ UNCHANGED <<store, request, told, deferred, effects, free>>

-----------------------------------------------------------------------------

Step(i) ==
  \/ Gate(i) \/ Deny(i) \/ WorkThenAnswer(i) \/ DropPick(i) \/ ChangeList(i)
  \/ ShowList(i) \/ Suggest(i) \/ Answer(i)
  \/ Defer(i) \/ Dispatch(i) \/ EditResponse(i)

SlashNext == \E i \in Calls : Arrive(i) \/ Step(i)

SlashSpec == SlashInit /\ [][SlashNext]_slashVars

-----------------------------------------------------------------------------

\* Discord takes one answer per interaction: a refusal, an announcement and an
\* acknowledgement never follow one another (onInteraction, gate, dispatch), and
\* one that Discord refused is not tried again.
ToldOnce == \A i \in Calls : told[i] <= 1

\* And the gateway never leaves it without one: the answer is there in the end,
\* unless Discord refused to take it or its announcement, the click belongs to
\* nobody, or no suggestions could be made.
NobodyIsLeftWaiting ==
  \A i \in Calls : pc[i] = "over" /\ fate[i] # "taken" =>
    fate[i] = "refused" \/ ask[i].what \in {"other menu", "autocomplete"}

\* A command of the core runs once, and only when its answer has a place to go:
\* the edit needs the deferred response, which Discord has taken.
CoreIsAnnounced ==
  \A i \in Calls : ask[i].what \in Core /\ effects[i] > 0 =>
    deferred[i] /\ effects[i] = 1

\* Nobody makes the gateway do anything who could not be let in at any time
\* since they asked, however the list changed meanwhile: buttons and menus are
\* gated like commands.
EffectsAreGated == \A i \in Calls : effects[i] > 0 => free[i]

\* A store that could not be read lets nobody in and is never changed.
LockedMeansNobody ==
  locked => /\ global = {} /\ \A n \in Sessions : session[n] = {}
            /\ \A i \in Calls : effects[i] = 0

\* Discord's protocol of an interaction is kept through every failure: the gateway
\* gives one answer, never two, and it is missing in the end only where Discord
\* refused it; a long command announces itself first, and does not run when that
\* was refused.
AnsweredOnce == ToldOnce /\ NobodyIsLeftWaiting /\ CoreIsAnnounced

\* Only who is let in makes the gateway act, and of a list it could not read it
\* lets nobody in.
OnlyTheAllowedAct == EffectsAreGated /\ LockedMeansNobody

Done(i, what, op) == ask[i].what = what /\ ask[i].op = op /\ effects[i] > 0

\* Of two changes of one list neither undoes the other: who was added is on it
\* unless somebody removed them.
AddedStays ==
  \A i \in Calls :
    /\ Done(i, "allow", "add") => 
         \/ ask[i].user \in global
         \/ \E j \in Calls : Done(j, "allow", "remove")
                              /\ ask[j].user = ask[i].user
    /\ Done(i, "session allow", "add") =>
         \/ ask[i].user \in session[ask[i].name]
         \/ \E j \in Calls : Done(j, "session allow", "remove")
                              /\ ask[j].user = ask[i].user
                              /\ ask[j].name = ask[i].name
=============================================================================
