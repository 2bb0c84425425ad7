------------------------------ MODULE MCEdges -------------------------------
(* The edges of the gateway for TLC: slash interactions, the intake of a    *)
(* message, and what a channel sees of a turn.  The three share no state,   *)
(* so each behaviour is about one of them.                                  *)
EXTENDS Slash, Intake, View, TLC

CONSTANTS i1, i2, u1, u2, n1, n2, p1, p2, r1, c1, c2, t1, t2, d1,
          repoA, repoB, short, own1, own2, m1, m2, m3

VARIABLE part

Symmetric ==
  Permutations({i1, i2}) \cup Permutations({u1, u2}) \cup Permutations({n1, n2})
    \cup Permutations({t1, t2})

MCInbox ==
  {m \in Messages : m.room = c1 /\ (m.mentions => ~m.replies)}
MCSettings ==
  {p \in Policies :
     /\ p.owner \in {None, p1} /\ p.users \in {{}, {p2}, Bots, {Star}}
     /\ p.roles \in {{}, {r1}, {Star}} /\ p.channels \in {{}, {c1}, {c2}, {Star}}
     /\ p.ignored \in {{}, {c2}}}
MCFrees == {{}, {c2}}

MCCatalog ==
  [owner : {own1, own2}, base : {repoA, short}, local : {FALSE}]
    \cup [owner : {own1, Nothing}, base : {repoA, repoB}, local : {TRUE}]
MCCatalogs == {c \in SeqOf(MCCatalog, 3) : IsInjective(c)}
MCToks ==
  SUBSET ([owner : {own1, own2}, base : {repoA}]
            \cup [owner : {Nothing}, base : {repoA, repoB, short}])
MCTexts == SeqOf({"<", ">", "a", " "}, 6)

MCMedia == [url : {m1, Nothing}, proxy : {m2, Nothing}]
MCEmbeds ==
  SeqOf([image : MCMedia, thumbnail : [url : {m3, Nothing}, proxy : {Nothing}]], 2)
MCQuotes ==
  [text : {FALSE}, uploads : {<<>>, <<m3>>}, embeds : MCEmbeds, hasId : BOOLEAN]
    \cup {Nothing}
MCUploads == {<<>>, <<m1>>, <<m3, m2>>}

MCAnswers == {<<"a">>, [i \in 1 .. 7 |-> "a"]}
MCSilentAnswers == SeqOf({"a", "nl"}, 9) \ {<<>>}

MCInit ==
  /\ SlashInit /\ IntakeInit /\ ViewInit
  /\ \/ part = "slash"
     \/ part = "intake" /\ ~locked /\ global = {} /\ level = "silent"
     \/ part = "view" /\ ~locked /\ global = {}
  /\ part = "slash" => level = "silent"

MCNext ==
  /\ UNCHANGED part
  /\ \/ part = "slash" /\ SlashNext /\ UNCHANGED <<intakeVars, viewVars>>
     \/ part = "intake" /\ IntakeNext /\ UNCHANGED <<slashVars, viewVars>>
     \/ part = "view" /\ ViewNext /\ UNCHANGED <<slashVars, intakeVars>>

MCSpec == MCInit /\ [][MCNext]_<<part, slashVars, intakeVars, viewVars>>
=============================================================================
