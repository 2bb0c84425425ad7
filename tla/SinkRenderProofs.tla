-------------------------- MODULE SinkRenderProofs --------------------------
(***************************************************************************)
(* Proofs about SinkRender, for any number of pings and sessions, whatever *)
(* the verbosity and the tidying are.  What is only true of a conversation *)
(* in which each ping waits for the answer to the last says so in its      *)
(* premise, as the properties do.                                          *)
(***************************************************************************)
EXTENDS SinkRender, SequenceTheorems, TLAPS

\* A turn runs for the session its ping is for, and the ping says so.
TurnInv ==
  \A s \in Sessions :
    /\ running[s] # None =>
         place[running[s]] = "running" /\ Session[running[s]] = s
    /\ \A i \in 1 .. Len(turns[s]) : Session[turns[s][i]] = s

\* The inductive invariant.
IInv == TypeOK /\ TurnInv /\ AckIsShown /\ IdleForgets

USE RenderAssumption DEF RenderAssumption

-----------------------------------------------------------------------------
\* The initial state satisfies the invariant: nothing is acked or drawn.
LEMMA InitIInv == Init => IInv
  BY DEF Init, IInv, TypeOK, Places, Mishaps, TurnInv, AckIsShown, IdleForgets

\* What an acked ping trades for: the pieces of state clearAck, tidyPing and
\* applyFail assign keep their types, and leave no ack behind.
LEMMA Clearing ==
  ASSUME TypeOK
  PROVE  /\ ClearAck => acked' = None /\ hourglass' \in SUBSET Pings
         /\ TradeAck => /\ acked' = None
                        /\ hourglass' \in SUBSET Pings
                        /\ cross' \in SUBSET Pings
         /\ DropView => view' = None /\ live' \in SUBSET Pings
         /\ FinishView => view' = None /\ live' \in SUBSET Pings
         /\ SettlePing => /\ acked' = None
                          /\ hourglass' \in SUBSET Pings
                          /\ deleted' \in SUBSET Pings
                          /\ lastUser' \in Pings \cup {None}
         /\ SettleDied => /\ acked' = None
                          /\ hourglass' \in SUBSET Pings
                          /\ deleted' = deleted /\ lastUser' = lastUser
  BY DEF TypeOK, ClearAck, TradeAck, DropView, FinishView, SettlePing,
         SettleDied, MayTidy, ForgetDeleted

\* Acking a ping keeps the types, and acks what is shown.
LEMMA Acking ==
  ASSUME TypeOK, AckIsShown, NEW p \in Pings, Ack(p), UNCHANGED deleted
  PROVE  /\ acked' \in Pings \cup {None} /\ hourglass' \in SUBSET Pings
         /\ AckIsShown'
  BY DEF TypeOK, AckIsShown, Ack, AddAck

\* A ping that comes leaves mishaps behind, or nothing.
LEMMA Coming ==
  ASSUME TypeOK, NEW p \in Pings, Comes(p)
  PROVE  mishaps' \in SUBSET Mishaps
<1>1. mishaps \in SUBSET Mishaps
  BY DEF TypeOK
<1> QED BY <1>1 DEF Comes

\* Every step keeps the types.
LEMMA TypeStep ==
  ASSUME TypeOK, AckIsShown, [Next]_vars
  PROVE  TypeOK'
<1> USE DEF Places, Working
<1>1. ASSUME NEW p \in Pings, Handle(p) PROVE TypeOK'
  <2>1. CASE Ask(p)
    <3>1. mishaps' \in SUBSET Mishaps
      BY <2>1, Coming DEF Ask
    <3> QED BY <2>1, <3>1, Acking DEF TypeOK, Ask, Goes, menuVars, turnVars
  <2>2. CASE AskRepo(p) \/ MenuFails(p)
    <3>1. mishaps' \in SUBSET Mishaps
      BY <2>2 DEF AskRepo, MenuFails, TypeOK, Mishaps
    <3>2. ASSUME NEW to \in Places, PutAlone(p, to)
          PROVE  place' \in [Pings -> Places]
      BY <3>2 DEF PutAlone, TypeOK
    <3>3. place' \in [Pings -> Places]
      BY <2>2, <3>2 DEF AskRepo, MenuFails, TypeOK
    <3>4. posting' \in SUBSET Pings /\ reporting' \in SUBSET Pings
      BY <2>2 DEF AskRepo, MenuFails, TypeOK
    <3> QED
      BY <2>2, <3>1, <3>3, <3>4 DEF TypeOK, AskRepo, MenuFails, sinkVars,
                                    discordVars, turnVars
  <2>5. CASE SubmitRefused(p)
    BY <2>5, Coming DEF TypeOK, SubmitRefused, Goes, sinkVars, discordVars,
                        menuVars, turnVars
  <2>7. CASE NoRepos(p) \/ Pick(p)
    BY <2>7 DEF TypeOK, NoRepos, Pick, Goes, sinkVars, discordVars, menuVars,
                turnVars
  <2>8. CASE Bind(p)
    <3>1. bound' \in SUBSET Sessions
      BY <2>8 DEF Bind, TypeOK
    <3> QED
      BY <2>8, <3>1 DEF TypeOK, Bind, Goes, sinkVars, discordVars, menuVars,
                        turnVars
  <2>6. CASE MenuPosted(p) \/ Note(p) \/ Overhear(p)
    BY <2>6 DEF TypeOK, MenuPosted, Note, Overhear, Goes, sinkVars,
                discordVars, menuVars, turnVars
  <2>3. CASE Deliver(p)
    <3>1. Append(turns[Session[p]], p) \in Seq(Pings)
      BY DEF TypeOK
    <3> QED
      BY <2>3, <3>1, Coming DEF TypeOK, Deliver, Goes, sinkVars, discordVars,
                        menuVars
  <2>4. CASE SaveFails(p) \/ Fail(p) \/ TellLate(p)
    <3>1. /\ acked' = None /\ view' = None
          /\ hourglass' \in SUBSET Pings /\ cross' \in SUBSET Pings
          /\ live' \in SUBSET Pings
      BY <2>4, Clearing DEF SaveFails, Fail, TellLate, FailsAstray, ApplyFail
    <3> QED
      BY <2>4, <3>1 DEF TypeOK, SaveFails, Fail, TellLate, FailsAstray, Blame,
                        Goes, menuVars, turnVars, Mishaps
  <2> QED BY <1>1, <2>1, <2>2, <2>3, <2>4, <2>5, <2>6, <2>7, <2>8 DEF Handle
<1>2. ASSUME NEW s \in Sessions, Turn(s) PROVE TypeOK'
  <2>1. CASE Human(s)
    <3>1. Head(turns[s]) \in Pings /\ Tail(turns[s]) \in Seq(Pings)
      BY <2>1 DEF TypeOK, Human
    <3>2. acked' \in Pings \cup {None} /\ hourglass' \in SUBSET Pings
      BY <2>1, Acking DEF Human, TypeOK
    <3> QED
      BY <2>1, <3>1, <3>2 DEF TypeOK, Human, Goes, menuVars, Mishaps
  <2>2. CASE Status(s)
    BY <2>2 DEF TypeOK, Status, sinkVars, menuVars, turnVars
  <2>3. CASE Reply(s)
    BY <2>3, Clearing DEF TypeOK, Reply, Goes, menuVars
  <2>4. CASE Abandon(s)
    BY <2>4, Clearing DEF TypeOK, Abandon, Goes, menuVars
  <2> QED BY <1>2, <2>1, <2>2, <2>3, <2>4 DEF Turn
<1>3. CASE Click
  <2>1. CASE ClickFails
    <3>1. /\ acked' = None /\ view' = None
          /\ hourglass' \in SUBSET Pings /\ cross' \in SUBSET Pings
          /\ live' \in SUBSET Pings
      BY <2>1, Clearing DEF ClickFails, FailsAstray, ApplyFail
    <3> QED
      BY <2>1, <3>1 DEF TypeOK, ClickFails, FailsAstray, turnVars, Mishaps
  <2>2. CASE ClickAgain \/ \E s \in Sessions : ClickBinds(s)
    BY <2>2 DEF TypeOK, ClickAgain, ClickBinds, sinkVars, discordVars, menuVars,
                turnVars
  <2> QED BY <1>3, <2>1, <2>2 DEF Click
<1>4. CASE Quiescent \/ UNCHANGED vars
  BY <1>4 DEF Quiescent, vars, TypeOK, sinkVars, discordVars, menuVars, turnVars
<1> QED BY <1>1, <1>2, <1>3, <1>4 DEF Next

\* Every step keeps turns and pings in agreement.
LEMMA TurnStep ==
  ASSUME TypeOK, TurnInv, [Next]_vars
  PROVE  TurnInv'
<1>1. ASSUME NEW p \in Pings, Handle(p) PROVE TurnInv'
  <2>1. running' = running
    BY <1>1 DEF Handle, SubmitRefused, NoRepos, Ask, AskRepo, MenuPosted,
                MenuFails, Pick, Bind, SaveFails, Deliver, Note, Fail,
                Overhear, TellLate, FailsAstray, turnVars
  <2>2. \A q \in Pings : place[q] = "running" => place'[q] = "running"
    BY <1>1 DEF Handle, SubmitRefused, NoRepos, Asking, Ask, AskRepo,
                MenuPosted, MenuFails, PutAlone, Pick, Bind, SaveFails,
                Deliver, Note, Fail, Overhear, TellLate, FailsAstray, Goes,
                TypeOK
  <2>3. ASSUME NEW s \in Sessions, NEW i \in 1 .. Len(turns'[s])
        PROVE  Session[turns'[s][i]] = s
    <3>1. CASE Deliver(p)
      <4>1. CASE s = Session[p]
        <5>1. turns'[s] = Append(turns[s], p) /\ turns[s] \in Seq(Pings)
          BY <3>1, <4>1 DEF Deliver, TypeOK
        <5>2. i \in 1 .. Len(turns[s]) + 1
          BY <5>1
        <5>3. CASE i = Len(turns[s]) + 1
          BY <4>1, <5>1, <5>3
        <5>4. CASE i \in 1 .. Len(turns[s])
          BY <5>1, <5>4 DEF TurnInv
        <5> QED BY <5>1, <5>2, <5>3, <5>4
      <4>2. CASE s # Session[p]
        BY <2>3, <3>1, <4>2 DEF Deliver, TypeOK, TurnInv
      <4> QED BY <4>1, <4>2
    <3>2. CASE ~Deliver(p)
      <4>1. turns' = turns
        BY <1>1, <3>2 DEF Handle, SubmitRefused, NoRepos, Ask, AskRepo,
                          MenuPosted, MenuFails, Pick, Bind, SaveFails, Note,
                          Fail, Overhear, TellLate, FailsAstray, turnVars
      <4> QED BY <2>3, <4>1 DEF TurnInv
    <3> QED BY <3>1, <3>2
  <2> QED BY <2>1, <2>2, <2>3 DEF TurnInv, TypeOK
<1>2. ASSUME NEW s \in Sessions, Turn(s) PROVE TurnInv'
  <2>1. CASE Human(s)
    <3> DEFINE p == Head(turns[s])
    <3>1. /\ turns[s] \in Seq(Pings) /\ turns[s] # <<>>
          /\ p \in Pings /\ Session[p] = s
      <4>1. turns[s] \in Seq(Pings) /\ turns[s] # <<>>
        BY <2>1 DEF TypeOK, Human
      <4>2. 1 \in 1 .. Len(turns[s]) /\ p = turns[s][1] /\ p \in Pings
        BY <4>1
      <4> QED BY <4>1, <4>2 DEF TurnInv
    <3>2. /\ running' = [running EXCEPT ![s] = p]
          /\ place' = [place EXCEPT ![p] = "running"]
          /\ turns' = [turns EXCEPT ![s] = Tail(@)]
      BY <2>1 DEF Human, Goes
    <3>3. ASSUME NEW t \in Sessions, running'[t] # None
          PROVE  place'[running'[t]] = "running" /\ Session[running'[t]] = t
      BY <3>1, <3>2, <3>3 DEF TypeOK, TurnInv
    <3>4. ASSUME NEW t \in Sessions, NEW i \in 1 .. Len(turns'[t])
          PROVE  Session[turns'[t][i]] = t
      <4>1. CASE t = s
        <5>1. turns'[s] = Tail(turns[s])
          BY <3>2 DEF TypeOK
        <5>2. /\ Len(turns'[s]) = Len(turns[s]) - 1
              /\ i + 1 \in 1 .. Len(turns[s])
              /\ turns'[s][i] = turns[s][i + 1]
          BY <3>1, <3>4, <4>1, <5>1
        <5> QED BY <4>1, <5>2 DEF TurnInv
      <4>2. CASE t # s
        BY <3>2, <3>4, <4>2 DEF TypeOK, TurnInv
      <4> QED BY <4>1, <4>2
    <3> QED BY <3>3, <3>4 DEF TurnInv
  <2>2. CASE Status(s)
    BY <2>2 DEF Status, TurnInv, turnVars
  <2>3. CASE Reply(s) \/ Abandon(s)
    <3>1. /\ running[s] # None
          /\ running' = [running EXCEPT ![s] = None]
          /\ turns' = turns
      BY <2>3 DEF Reply, Abandon
    <3>2. PICK to \in Places : place' = [place EXCEPT ![running[s]] = to]
      BY <2>3 DEF Reply, Abandon, Goes, Places
    <3>3. ASSUME NEW t \in Sessions, running'[t] # None
          PROVE  place'[running'[t]] = "running" /\ Session[running'[t]] = t
      <4>1. t # s /\ running'[t] = running[t]
        BY <3>1, <3>3 DEF TypeOK
      <4>2. running[t] # running[s]
        BY <3>1, <3>3, <4>1 DEF TurnInv
      <4> QED BY <3>2, <3>3, <4>1, <4>2 DEF TypeOK, TurnInv
    <3> QED BY <3>1, <3>3 DEF TurnInv
  <2> QED BY <1>2, <2>1, <2>2, <2>3 DEF Turn
<1>3. CASE Click \/ Quiescent \/ UNCHANGED vars
  BY <1>3 DEF Click, ClickAgain, ClickBinds, ClickFails, FailsAstray,
              Quiescent, vars, turnVars, TurnInv
<1> QED BY <1>1, <1>2, <1>3 DEF Next

\* Every step keeps the remembered ack on the screen.
LEMMA AckStep ==
  ASSUME TypeOK, AckIsShown, [Next]_vars
  PROVE  AckIsShown'
<1>1. ASSUME NEW p \in Pings, Handle(p) PROVE AckIsShown'
  <2>1. CASE Ask(p)
    BY <2>1, Acking DEF Ask
  <2>2. CASE SaveFails(p) \/ Fail(p) \/ TellLate(p)
    BY <2>2, Clearing DEF SaveFails, Fail, TellLate, FailsAstray, ApplyFail,
                          AckIsShown
  <2>3. CASE ~(Ask(p) \/ SaveFails(p) \/ Fail(p) \/ TellLate(p))
    BY <1>1, <2>3 DEF Handle, SubmitRefused, NoRepos, AskRepo, MenuPosted,
                      MenuFails, Pick, Bind, Deliver, Note, Overhear,
                      AckIsShown, sinkVars, discordVars
  <2> QED BY <1>1, <2>1, <2>2, <2>3 DEF Handle
<1>2. ASSUME NEW s \in Sessions, Turn(s) PROVE AckIsShown'
  <2>1. CASE Human(s)
    <3>1. CASE lastUser = None
      BY <2>1, <3>1 DEF Human, AckIsShown
    <3>2. CASE lastUser # None
      BY <2>1, <3>2, Acking DEF Human, TypeOK
    <3> QED BY <3>1, <3>2
  <2>2. CASE Status(s)
    BY <2>2 DEF Status, AckIsShown, sinkVars
  <2>3. CASE Reply(s) \/ Abandon(s)
    BY <2>3, Clearing DEF Reply, Abandon, AckIsShown
  <2> QED BY <1>2, <2>1, <2>2, <2>3 DEF Turn
<1>3. CASE ClickFails
  BY <1>3, Clearing DEF ClickFails, FailsAstray, ApplyFail, AckIsShown
<1>4. CASE \/ ClickAgain \/ \E s \in Sessions : ClickBinds(s)
           \/ Quiescent \/ UNCHANGED vars
  BY <1>4 DEF ClickAgain, ClickBinds, Quiescent, vars, AckIsShown, sinkVars,
              discordVars
<1> QED BY <1>1, <1>2, <1>3, <1>4 DEF Next, Click

\* Every step that leaves something acked or drawn leaves a ping at work, or a
\* failure to tell.
LEMMA IdleStep ==
  ASSUME TypeOK, IdleForgets, [Next]_vars
  PROVE  IdleForgets'
<1> USE DEF Working
<1>1. ASSUME NEW p \in Pings, place'[p] \in Working PROVE IdleForgets'
  BY <1>1 DEF IdleForgets
<1>2. ASSUME NEW p \in Pings, Handle(p) PROVE IdleForgets'
  <2>1. CASE Ask(p) \/ AskRepo(p) \/ Pick(p) \/ Bind(p) \/ Deliver(p)
    BY <1>1, <2>1 DEF Ask, AskRepo, PutAlone, Pick, Bind, Deliver, Goes, TypeOK
  <2>2. CASE SaveFails(p) \/ Fail(p) \/ TellLate(p)
    BY <2>2, Clearing DEF SaveFails, Fail, TellLate, FailsAstray, ApplyFail,
                          IdleForgets
  <2>3. CASE MenuFails(p)
    <3>1. CASE place[p] = "buffered"
      BY <1>1, <2>3, <3>1 DEF MenuFails, PutAlone
    <3>2. CASE place[p] # "buffered"
      BY <2>3, <3>2 DEF MenuFails, IdleForgets
    <3> QED BY <3>1, <3>2
  <2>4. CASE SubmitRefused(p) \/ NoRepos(p) \/ Overhear(p)
    BY <2>4 DEF SubmitRefused, NoRepos, Asking, Overhear, Goes, IdleForgets,
                TypeOK, sinkVars, menuVars
  <2>5. CASE MenuPosted(p) \/ Note(p)
    BY <2>5 DEF MenuPosted, Note, IdleForgets, sinkVars, menuVars
  <2> QED BY <1>2, <2>1, <2>2, <2>3, <2>4, <2>5 DEF Handle
<1>3. ASSUME NEW s \in Sessions, Turn(s) PROVE IdleForgets'
  <2>1. CASE Human(s)
    <3>1. Head(turns[s]) \in Pings
      BY <2>1 DEF TypeOK, Human
    <3> QED BY <1>1, <2>1, <3>1 DEF Human, Goes, TypeOK
  <2>2. CASE Status(s)
    BY <2>2 DEF Status, sinkVars, menuVars, IdleForgets
  <2>3. CASE Reply(s) \/ Abandon(s)
    BY <2>3, Clearing DEF Reply, Abandon, IdleForgets
  <2> QED BY <1>3, <2>1, <2>2, <2>3 DEF Turn
<1>4. CASE ClickFails
  BY <1>4, Clearing DEF ClickFails, FailsAstray, ApplyFail, IdleForgets
<1>5. CASE \/ ClickAgain \/ \E s \in Sessions : ClickBinds(s)
           \/ Quiescent \/ UNCHANGED vars
  BY <1>5 DEF ClickAgain, ClickBinds, Quiescent, vars, sinkVars, menuVars,
              IdleForgets
<1> QED BY <1>2, <1>3, <1>4, <1>5 DEF Next, Click

\* A step that deletes a message ends an answered turn, and deletes the acked
\* ping of the owner.
LEMMA TidyStep ==
  ASSUME IInv, [Next]_vars, NEW p \in deleted' \ deleted
  PROVE  /\ p \in Owned \cap Here \cap hourglass
         /\ \E q \in Pings : place[q] = "running" /\ place'[q] = "answered"
<1>1. PICK s \in Sessions : Reply(s)
  <2>1. \A q \in Pings : Handle(q) => deleted' = deleted
    BY DEF Handle, SubmitRefused, NoRepos, Ask, AskRepo, MenuPosted, MenuFails,
           Pick, Bind, SaveFails, Deliver, Note, Fail, Overhear, TellLate,
           FailsAstray, discordVars
  <2>2. Click => deleted' = deleted
    BY DEF Click, ClickAgain, ClickBinds, ClickFails, FailsAstray, discordVars
  <2> QED
    BY <2>1, <2>2 DEF Next, Turn, Human, Status, Abandon, SettleDied,
                      Quiescent, vars, discordVars
<1>2. p = acked /\ acked # None /\ acked \in Here /\ acked \in Owned
  BY <1>1 DEF Reply, SettlePing, MayTidy
<1>3. p \in hourglass
  BY <1>2 DEF IInv, AckIsShown
<1>4. /\ running[s] \in Pings /\ place[running[s]] = "running"
      /\ place'[running[s]] = "answered"
  BY <1>1 DEF Reply, Goes, IInv, TypeOK, TurnInv
<1> QED BY <1>2, <1>3, <1>4

-----------------------------------------------------------------------------
\* The invariant holds in every reachable state.
THEOREM Invariance == Spec => []IInv
<1>1. IInv /\ [Next]_vars => IInv'
  BY TypeStep, TurnStep, AckStep, IdleStep DEF IInv
<1> QED BY InitIInv, <1>1, PTL DEF Spec

\* The sink never remembers an ack that is not on a message that is there,
\* for any pings and sessions and whatever Discord refuses (addAck, clearAck,
\* tidyPing).
THEOREM AckShown == Spec => []AckIsShown
<1>1. IInv => AckIsShown
  BY DEF IInv
<1> QED BY Invariance, <1>1, PTL

\* A conversation with nothing at work holds no ack and no progress view
\* (onReply, onAbandoned and applyFail clear both).
THEOREM SinkForgets == Spec => []IdleForgets
<1>1. IInv => IdleForgets
  BY DEF IInv
<1> QED BY Invariance, <1>1, PTL

\* tidyPing deletes at the end of an answered turn only, and only the owner's
\* pings of this conversation that show an hourglass.
THEOREM Narrow == Spec => TidyIsNarrow
<1> DEFINE Step ==
      \A p \in deleted' \ deleted :
        /\ p \in Owned \cap Here \cap hourglass
        /\ \E q \in Pings : place[q] = "running" /\ place'[q] = "answered"
<1>1. IInv /\ [Next]_vars => [Step]_vars
  BY TidyStep
<1>2. Spec => [][Step]_vars
  BY Invariance, <1>1, PTL DEF Spec
<1> QED BY <1>2 DEF TidyIsNarrow
-----------------------------------------------------------------------------
(* One person who waits for each answer: as long as nothing else happens,  *)
(* and, part by part, as long as what the part excludes has not happened.  *)

\* One ping waits, or none, and the turns and the view are its own.
Alone ==
  /\ \A p, q \in Outstanding : p = q
  /\ view # None => place[view] = "running"
  /\ \A s \in Sessions : turns[s] # <<>> =>
       \E p \in Pings : turns[s] = <<p>> /\ place[p] = "submitted"

\* The ping that is acked is at work, or was lost behind a menu; only such
\* pings are deleted, and only once they are not at work any more.
AckIsOwn ==
  /\ acked # None => place[acked] \in Working \cup {"dropped"}
  /\ \A p \in deleted : place[p] \in {"answered", "dropped"}

AckAtWork == acked # None => place[acked] \in Working

CalmInv ==
  /\ Without({"overlap"}) => Alone
  /\ Without({"overlap", "stale"}) => AckIsOwn
  /\ Without({"overlap", "stale", "late"}) => AckAtWork

\* What Discord shows is what the sink holds: a ping that is not yet submitted
\* has its hourglass, or lost it to a cross, and the only progress message at
\* work beside the view is that of a turn that died.
Unsubmitted == {"opening", "buffered", "picked", "refused", "bound"}
Crosses ==
  /\ cross = failing
  /\ \A p \in Pings : place[p] \in Unsubmitted =>
       acked = p \/ (acked = None /\ p \in failing)
Views == \A p \in live : p = view \/ place[p] = "died"

ShownInv ==
  /\ Without({"overlap", "stale", "late", "refusal"}) => hourglass \subseteq {acked}
  /\ Without(Mishaps) => Crosses
  /\ Without({"overlap", "used", "late", "refusal"}) => Views

-----------------------------------------------------------------------------
\* What has gone wrong stays so.
LEMMA MishapsGrow ==
  ASSUME TypeOK, [Next]_vars
  PROVE  mishaps \subseteq mishaps'
<1>1. mishaps \in SUBSET Mishaps
  BY DEF TypeOK
<1>2. ASSUME NEW p \in Pings, Comes(p) PROVE mishaps \subseteq mishaps'
  BY <1>1, <1>2 DEF Comes
<1>3. ASSUME NEW p \in Pings, Handle(p) PROVE mishaps \subseteq mishaps'
  <2>1. CASE SubmitRefused(p) \/ Ask(p) \/ Deliver(p)
    BY <1>2, <2>1 DEF SubmitRefused, Ask, Deliver
  <2>2. CASE ~(SubmitRefused(p) \/ Ask(p) \/ Deliver(p))
    BY <1>3, <2>2 DEF Handle, NoRepos, AskRepo, MenuPosted, MenuFails, Pick,
                      Bind, SaveFails, Note, Fail, Overhear, TellLate,
                      FailsAstray
  <2> QED BY <2>1, <2>2
<1>4. Click => mishaps \subseteq mishaps'
  BY DEF Click, ClickAgain, ClickBinds, ClickFails, FailsAstray
<1>5. ASSUME NEW s \in Sessions, Turn(s) PROVE mishaps \subseteq mishaps'
  BY <1>5 DEF Turn, Human, Status, Reply, Abandon
<1> QED BY <1>3, <1>4, <1>5 DEF Next, Quiescent, vars

\* A ping that comes while no other waits is no mishap.
LEMMA ComesAlone ==
  ASSUME NEW p \in Pings, Comes(p), "overlap" \notin mishaps'
  PROVE  mishaps' = mishaps /\ (place[p] = "new" => Outstanding = {})
BY DEF Comes, Mishaps

\* What is known while p is the ping that waits.
LEMMA OnlyOne ==
  ASSUME IInv, Alone, NEW p \in Outstanding
  PROVE  /\ \A q \in Outstanding : q = p
         /\ view # None => view = p /\ place[p] = "running"
         /\ \A s \in Sessions : running[s] # None => running[s] = p
         /\ \A s \in Sessions : turns[s] # <<>> =>
              turns[s] = <<p>> /\ place[p] = "submitted"
<1>1. \A q \in Outstanding : q = p
  BY DEF Alone
<1>2. ASSUME NEW q \in Pings, place[q] \in {"running", "submitted"}
      PROVE  q = p
  BY <1>1, <1>2 DEF Outstanding, Working
<1>3. view # None => view = p /\ place[p] = "running"
  BY <1>2 DEF Alone, IInv, TypeOK
<1>4. \A s \in Sessions : running[s] # None => running[s] = p
  BY <1>2 DEF IInv, TypeOK, TurnInv
<1>5. \A s \in Sessions : turns[s] # <<>> =>
        turns[s] = <<p>> /\ place[p] = "submitted"
  BY <1>2 DEF Alone
<1> QED BY <1>1, <1>3, <1>4, <1>5

\* With no ping waiting, nothing is left of the ones before.
LEMMA NoneWaits ==
  ASSUME IInv, Alone, Outstanding = {}
  PROVE  view = None /\ \A s \in Sessions : turns[s] = <<>>
BY DEF Alone, Outstanding, Working, IInv, TypeOK

\* At the start no ping waits, and nothing is shown.
LEMMA InitCalm == Init => CalmInv /\ ShownInv
BY DEF Init, CalmInv, Alone, AckIsOwn, AckAtWork, ShownInv, Crosses, Views,
       Unsubmitted, Outstanding, Working

\* As long as no ping comes while another one waits, one waits at most.
LEMMA AloneStep ==
  ASSUME IInv, Alone, [Next]_vars, "overlap" \notin mishaps'
  PROVE  Alone'
<1> USE DEF IInv, TypeOK, Goes
\* A step after which p waits and nobody else does.
<1>1. ASSUME NEW p \in Pings,
             \A q \in Pings : q # p => q \notin Outstanding',
             view' \in {p, None}, view' # None => place'[p] = "running",
             \A s \in Sessions : turns'[s] # <<>> =>
               turns'[s] = <<p>> /\ place'[p] = "submitted"
      PROVE  Alone'
  <2>1. \A q \in Outstanding' : q = p
    BY <1>1 DEF Outstanding
  <2> QED BY <1>1, <2>1 DEF Alone
\* A step that puts p, before its submission, somewhere else before it.
<1>2. ASSUME NEW p \in Pings, UNCHANGED <<view, turns>>,
             p \in Outstanding \/ Outstanding = {},
             place[p] \notin {"submitted", "running"},
             \A q \in Pings : q # p => place'[q] \in {place[q], "dropped"}
      PROVE  Alone'
  <2>1. \A q \in Pings : q # p => q \notin Outstanding
    BY <1>2, OnlyOne
  <2>2. \A q \in Pings : q # p => q \notin Outstanding'
    BY <1>2, <2>1 DEF Outstanding, Working
  <2>3. view = None /\ \A s \in Sessions : turns[s] = <<>>
    BY <1>2, OnlyOne, NoneWaits
  <2> QED BY <1>1, <1>2, <2>2, <2>3
\* A step after which nobody waits who did not wait there.
<1>3. ASSUME turns' = turns,
             view' = None \/ (view' = view /\ \A q \in Pings :
               place[q] = "running" => place'[q] = "running"),
             \A q \in Pings : \/ place'[q] = place[q]
                              \/ /\ place[q] # "submitted"
                                 /\ place'[q] \notin Working \cup {"unbound"}
      PROVE  Alone'
  <2>1. Outstanding' \subseteq Outstanding
    BY <1>3 DEF Outstanding
  <2>2. \A q \in Pings : place[q] = "submitted" => place'[q] = "submitted"
    BY <1>3 DEF Working
  <2> QED BY <1>3, <2>1, <2>2 DEF Alone
<1>4. ASSUME NEW p \in Pings, SubmitRefused(p) \/ Ask(p)
      PROVE  Alone'
  <2>1. Comes(p) /\ place[p] \in {"new", "unbound"}
    BY <1>4 DEF SubmitRefused, Ask, Asking
  <2>2. p \in Outstanding \/ Outstanding = {}
    BY <2>1, ComesAlone DEF Outstanding
  <2>3. UNCHANGED <<view, turns>> /\ \A q \in Pings : q # p => place'[q] = place[q]
    BY <1>4 DEF SubmitRefused, Ask, sinkVars, turnVars
  <2> QED BY <1>2, <2>1, <2>2, <2>3
<1>5. ASSUME NEW p \in Pings, AskRepo(p) \/ Pick(p) \/ Bind(p)
      PROVE  Alone'
  <2>1. place[p] \in {"opening", "picked", "buffered"}
    BY <1>5 DEF AskRepo, Pick, Bind
  <2>2. p \in Outstanding
    BY <2>1 DEF Outstanding, Working
  <2>3. /\ UNCHANGED <<view, turns>>
        /\ \A q \in Pings : q # p => place'[q] \in {place[q], "dropped"}
    BY <1>5 DEF AskRepo, PutAlone, Pick, Bind, sinkVars, turnVars
  <2> QED BY <1>2, <2>1, <2>2, <2>3
<1>6. ASSUME NEW p \in Pings, MenuFails(p)
      PROVE  Alone'
  <2>1. UNCHANGED <<view, turns>>
    BY <1>6 DEF MenuFails, sinkVars, turnVars
  <2>2. CASE place[p] = "buffered"
    <3>1. p \in Outstanding
      BY <2>2 DEF Outstanding, Working
    <3>2. \A q \in Pings : q # p => place'[q] \in {place[q], "dropped"}
      BY <1>6, <2>2 DEF MenuFails, PutAlone
    <3> QED BY <1>2, <2>1, <2>2, <3>1, <3>2
  <2>3. CASE place[p] # "buffered"
    <3>1. \A q \in Pings : \/ place'[q] = place[q]
                           \/ place[q] = "buffered" /\ place'[q] = "dropped"
      BY <1>6, <2>3 DEF MenuFails, PutAlone
    <3> QED BY <1>3, <2>1, <3>1 DEF Working
  <2> QED BY <2>2, <2>3
<1>7. ASSUME NEW p \in Pings, NoRepos(p) \/ Overhear(p)
      PROVE  Alone'
  <2>1. place[p] \in {"new", "unbound"}
    BY <1>7 DEF NoRepos, Asking, Overhear
  <2>2. /\ UNCHANGED <<view, turns>>
        /\ place'[p] \in {"dropped", "heard"}
        /\ \A q \in Pings : q # p => place'[q] = place[q]
    BY <1>7 DEF NoRepos, Overhear, sinkVars, turnVars
  <2> QED BY <1>3, <2>1, <2>2 DEF Working
<1>8. ASSUME NEW p \in Pings, SaveFails(p) \/ Fail(p) \/ TellLate(p)
      PROVE  Alone'
  <2>1. view' = None /\ turns' = turns
    BY <1>8, Clearing DEF SaveFails, Fail, TellLate, FailsAstray, ApplyFail,
                          turnVars
  <2>2. CASE Fail(p)
    <3>1. place[p] # "submitted" /\ place'[p] = "failed"
          /\ \A q \in Pings : q # p => place'[q] = place[q]
      BY <2>2 DEF Fail
    <3> QED BY <1>3, <2>1, <3>1 DEF Working
  <2>3. CASE ~Fail(p)
    <3>1. place' = place
      BY <1>8, <2>3 DEF SaveFails, TellLate, FailsAstray
    <3> QED BY <1>3, <2>1, <3>1
  <2> QED BY <2>2, <2>3
<1>9. ASSUME NEW p \in Pings, Deliver(p)
      PROVE  Alone'
  <2>1. Comes(p) /\ place[p] \in {"new", "bound"}
    BY <1>9 DEF Deliver
  <2>2. p \in Outstanding \/ Outstanding = {}
    BY <2>1, ComesAlone DEF Outstanding, Working
  <2>3. \A q \in Pings : q # p => q \notin Outstanding
    BY <2>2, OnlyOne
  <2>4. view = None /\ \A s \in Sessions : turns[s] = <<>>
    BY <2>1, <2>2, OnlyOne, NoneWaits
  <2>5. view' = view /\ place' = [place EXCEPT ![p] = "submitted"]
    BY <1>9 DEF Deliver, sinkVars
  <2>6. \A q \in Pings : q # p => q \notin Outstanding'
    BY <2>3, <2>5 DEF Outstanding
  <2>7. ASSUME NEW s \in Sessions, turns'[s] # <<>>
        PROVE  turns'[s] = <<p>>
    <3>1. turns' = [turns EXCEPT ![Session[p]] = Append(turns[Session[p]], p)]
      BY <1>9 DEF Deliver
    <3>2. CASE s = Session[p]
      <4>1. turns'[s] = Append(<<>>, p)
        BY <2>4, <3>1, <3>2
      <4> QED BY <4>1
    <3>3. CASE s # Session[p]
      BY <2>4, <2>7, <3>1, <3>3
    <3> QED BY <3>2, <3>3
  <2> QED BY <1>1, <2>4, <2>5, <2>6, <2>7
<1>10. ASSUME NEW s \in Sessions, Human(s)
       PROVE  Alone'
  <2>1. PICK p \in Pings : turns[s] = <<p>> /\ place[p] = "submitted"
    BY <1>10 DEF Human, Alone
  <2>2. p \in Outstanding
    BY <2>1 DEF Outstanding, Working
  <2>3. p = Head(turns[s]) /\ Tail(turns[s]) = <<>>
    BY <2>1
  <2>4. view = None
    BY <2>1, <2>2, OnlyOne
  <2>5. /\ place' = [place EXCEPT ![p] = "running"]
        /\ view' \in {p, None}
        /\ turns' = [turns EXCEPT ![s] = <<>>]
    BY <1>10, <2>3, <2>4 DEF Human
  <2>6. \A q \in Pings : q # p => q \notin Outstanding'
    BY <2>2, <2>5, OnlyOne DEF Outstanding
  <2>7. ASSUME NEW t \in Sessions PROVE turns'[t] = <<>>
    <3>1. CASE t = s
      BY <2>5, <3>1
    <3>2. CASE t # s
      <4>1. ASSUME turns[t] # <<>> PROVE FALSE
        <5>1. turns[t] = <<p>>
          BY <2>2, <4>1, OnlyOne
        <5>2. 1 \in 1 .. Len(turns[t]) /\ turns[t][1] = p
          BY <5>1
        <5>3. 1 \in 1 .. Len(turns[s]) /\ turns[s][1] = p
          BY <2>1
        <5> QED BY <3>2, <5>2, <5>3 DEF TurnInv
      <4> QED BY <2>5, <3>2, <4>1
    <3> QED BY <3>1, <3>2
  <2> QED BY <1>1, <2>5, <2>6, <2>7
<1>11. ASSUME NEW s \in Sessions, Reply(s) \/ Abandon(s)
       PROVE  Alone'
  <2>1. PICK p \in Pings : p = running[s] /\ place[p] = "running"
    BY <1>11 DEF Reply, Abandon, TurnInv
  <2>2. /\ view' = None /\ turns' = turns
        /\ place'[p] \in {"answered", "died"}
        /\ \A q \in Pings : q # p => place'[q] = place[q]
    BY <1>11, <2>1, Clearing DEF Reply, Abandon
  <2> QED BY <1>3, <2>1, <2>2 DEF Working
<1>12. CASE \/ \E p \in Pings : MenuPosted(p) \/ Note(p)
            \/ \E s \in Sessions : Status(s)
            \/ Click \/ Quiescent \/ UNCHANGED vars
  <2>1. place' = place /\ turns' = turns
    BY <1>12 DEF MenuPosted, Note, Status, Click, ClickAgain, ClickBinds,
                 ClickFails, FailsAstray, Quiescent, vars, turnVars
  <2>2. CASE ClickFails
    <3>1. view' = None
      BY <2>2, Clearing DEF ClickFails, FailsAstray, ApplyFail
    <3> QED BY <1>3, <2>1, <3>1
  <2>3. CASE ~ClickFails
    <3>1. view' = view
      BY <1>12, <2>3 DEF MenuPosted, Note, Status, Click, ClickAgain,
                         ClickBinds, Quiescent, vars, sinkVars
    <3> QED BY <1>3, <2>1, <3>1
  <2> QED BY <2>2, <2>3
<1> QED BY <1>4, <1>5, <1>6, <1>7, <1>8, <1>9, <1>10, <1>11, <1>12
        DEF Next, Handle, Turn

\* What is deleted was acked, and answered or lost: as long as turns open for
\* the last ping the sink knows.
LEMMA OwnStep ==
  ASSUME IInv, Alone, AckIsOwn, [Next]_vars,
         "overlap" \notin mishaps', "stale" \notin mishaps'
  PROVE  AckIsOwn'
<1> USE DEF IInv, TypeOK, Goes
\* A step that acks nothing new, deletes nothing and moves no ping that is
\* acked or deleted away from where it belongs.
<1>1. ASSUME acked' \in {acked, None}, deleted' = deleted,
             \A q \in Pings :
               \/ place'[q] = place[q]
               \/ /\ place[q] \in Working
                  /\ place'[q] \in Working \cup {"dropped"}
               \/ place[q] \in {"new", "unbound"}
      PROVE  AckIsOwn'
  <2>1. acked' # None => place'[acked'] \in Working \cup {"dropped"}
    BY <1>1 DEF AckIsOwn, Working
  <2>2. \A q \in deleted : place'[q] \in {"answered", "dropped"}
    BY <1>1 DEF AckIsOwn, Working
  <2> QED BY <1>1, <2>1, <2>2 DEF AckIsOwn
<1>2. ASSUME NEW p \in Pings, Ask(p)
      PROVE  AckIsOwn'
  <2>1. /\ acked' \in {p, acked} /\ deleted' = deleted
        /\ place' = [place EXCEPT ![p] = "opening"]
        /\ place[p] \in {"new", "unbound"}
    BY <1>2 DEF Ask, Asking, Ack, AddAck
  <2> QED BY <2>1 DEF AckIsOwn, Working
<1>3. ASSUME NEW p \in Pings, SaveFails(p) \/ Fail(p) \/ TellLate(p)
      PROVE  AckIsOwn'
  <2>1. acked' = None /\ deleted' = deleted
    BY <1>3, Clearing DEF SaveFails, Fail, TellLate, FailsAstray, ApplyFail
  <2>2. \A q \in deleted : place'[q] = place[q]
    BY <1>3 DEF SaveFails, Fail, TellLate, FailsAstray, AckIsOwn
  <2> QED BY <2>1, <2>2 DEF AckIsOwn
<1>4. ASSUME NEW p \in Pings, AskRepo(p) \/ MenuFails(p)
      PROVE  AckIsOwn'
  <2>1. acked' = acked /\ deleted' = deleted
    BY <1>4 DEF AskRepo, MenuFails, sinkVars, discordVars
  <2>2. \A q \in Pings :
          \/ place'[q] = place[q]
          \/ /\ place[q] \in {"opening", "buffered"}
             /\ place'[q] \in {"buffered", "refused", "dropped"}
    BY <1>4 DEF AskRepo, MenuFails, PutAlone
  <2> QED BY <1>1, <2>1, <2>2 DEF Working
<1>5. ASSUME NEW p \in Pings,
             \/ SubmitRefused(p) \/ NoRepos(p) \/ Pick(p) \/ Bind(p)
             \/ Deliver(p) \/ Overhear(p) \/ MenuPosted(p) \/ Note(p)
      PROVE  AckIsOwn'
  <2>1. acked' = acked /\ deleted' = deleted
    BY <1>5 DEF SubmitRefused, NoRepos, Pick, Bind, Deliver, Overhear,
                MenuPosted, Note, sinkVars, discordVars
  <2>2. \A q \in Pings :
          \/ place'[q] = place[q]
          \/ place[q] \in {"new", "unbound"}
          \/ /\ place[q] \in {"opening", "buffered", "picked", "bound"}
             /\ place'[q] \in {"picked", "bound", "submitted"}
    BY <1>5 DEF SubmitRefused, NoRepos, Asking, Pick, Bind, Deliver, Overhear,
                MenuPosted, Note
  <2> QED BY <1>1, <2>1, <2>2 DEF Working
<1>6. ASSUME NEW s \in Sessions, Human(s)
      PROVE  AckIsOwn'
  <2>1. PICK p \in Pings : turns[s] = <<p>> /\ place[p] = "submitted"
    BY <1>6 DEF Human, Alone
  <2>2. p = Head(turns[s])
    BY <2>1
  <2>3. lastUser = p
    BY <1>6, <2>2 DEF Human
  <2>4. /\ acked' \in {p, acked} /\ deleted' = deleted
        /\ place' = [place EXCEPT ![p] = "running"]
    BY <1>6, <2>2, <2>3 DEF Human, Ack, AddAck
  <2> QED BY <2>1, <2>4 DEF AckIsOwn, Working
<1>7. ASSUME NEW s \in Sessions, Reply(s) \/ Abandon(s)
      PROVE  AckIsOwn'
  <2>1. PICK p \in Pings : p = running[s] /\ place[p] = "running"
    BY <1>7 DEF Reply, Abandon, TurnInv
  <2>2. acked' = None
    BY <1>7, Clearing DEF Reply, Abandon
  <2>3. \A q \in Pings : q # p => place'[q] = place[q]
    BY <1>7, <2>1 DEF Reply, Abandon
  <2>4. CASE Abandon(s)
    <3>1. deleted' = deleted
      BY <2>4, Clearing DEF Abandon
    <3> QED BY <2>1, <2>2, <2>3, <3>1 DEF AckIsOwn
  <2>5. CASE Reply(s)
    <3>1. deleted' \subseteq deleted \cup ({acked} \cap Here)
      BY <2>5 DEF Reply, SettlePing, MayTidy
    <3>2. place'[p] = "answered"
      BY <2>1, <2>5 DEF Reply
    <3>3. ASSUME acked \in Here PROVE place'[acked] \in {"answered", "dropped"}
      <4>1. acked \in Pings /\ place[acked] \in Working \cup {"dropped"}
        BY <3>3 DEF AckIsOwn
      <4>2. CASE place[acked] = "dropped"
        BY <2>1, <2>3, <4>1, <4>2
      <4>3. CASE place[acked] \in Working
        BY <2>1, <3>2, <4>1, <4>3 DEF Alone, Outstanding, Working
      <4> QED BY <4>1, <4>2, <4>3
    <3>4. \A q \in deleted : place'[q] \in {"answered", "dropped"}
      BY <2>3, <3>2 DEF AckIsOwn
    <3> QED BY <2>2, <3>1, <3>3, <3>4 DEF AckIsOwn
  <2> QED BY <1>7, <2>4, <2>5
<1>8. CASE \/ \E s \in Sessions : Status(s)
           \/ Click \/ Quiescent \/ UNCHANGED vars
  <2>1. place' = place /\ deleted' = deleted
    BY <1>8 DEF Status, Click, ClickAgain, ClickBinds, ClickFails, FailsAstray,
                Quiescent, vars, discordVars
  <2>2. acked' \in {acked, None}
    BY <1>8, Clearing DEF Status, Click, ClickAgain, ClickBinds, ClickFails,
                FailsAstray, ApplyFail, Quiescent, vars, sinkVars
  <2> QED BY <1>1, <2>1, <2>2
<1> QED BY <1>2, <1>3, <1>4, <1>5, <1>6, <1>7, <1>8 DEF Next, Handle, Turn

\* The acked ping is at work, as long as no menu fails late.
LEMMA AtWorkStep ==
  ASSUME IInv, Alone, AckAtWork, [Next]_vars, "overlap" \notin mishaps',
         "stale" \notin mishaps', "late" \notin mishaps'
  PROVE  AckAtWork'
<1> USE DEF IInv, TypeOK, Goes
<1>1. ASSUME acked' \in {acked, None},
             \A q \in Pings : place[q] \in Working => place'[q] \in Working
      PROVE  AckAtWork'
  BY <1>1 DEF AckAtWork
<1>2. ASSUME NEW p \in Pings, Ask(p)
      PROVE  AckAtWork'
  <2>1. /\ acked' \in {p, acked}
        /\ place' = [place EXCEPT ![p] = "opening"]
    BY <1>2 DEF Ask, Ack, AddAck
  <2> QED BY <2>1 DEF AckAtWork, Working
<1>3. ASSUME NEW p \in Pings, SaveFails(p) \/ Fail(p) \/ TellLate(p)
      PROVE  AckAtWork'
  BY <1>3, Clearing DEF SaveFails, Fail, TellLate, FailsAstray, ApplyFail,
                        AckAtWork
<1>4. ASSUME NEW p \in Pings, AskRepo(p) \/ MenuFails(p)
      PROVE  AckAtWork'
  <2>1. acked' = acked
    BY <1>4 DEF AskRepo, MenuFails, sinkVars
  <2>2. /\ place[p] \in {"opening", "buffered"}
        /\ place'[p] \in {"buffered", "refused"}
        /\ \A q \in Pings : q # p =>
             place'[q] = place[q] \/ place[q] = "buffered"
    BY <1>4 DEF AskRepo, MenuFails, PutAlone
  <2>3. p \in Outstanding
    BY <2>2 DEF Outstanding, Working
  <2>4. \A q \in Pings : q # p => place[q] \notin Working
    BY <2>3, OnlyOne DEF Outstanding
  <2> QED BY <1>1, <2>1, <2>2, <2>4 DEF Working
<1>5. ASSUME NEW p \in Pings,
             \/ SubmitRefused(p) \/ NoRepos(p) \/ Pick(p) \/ Bind(p)
             \/ Deliver(p) \/ Overhear(p) \/ MenuPosted(p) \/ Note(p)
      PROVE  AckAtWork'
  <2>1. acked' = acked
    BY <1>5 DEF SubmitRefused, NoRepos, Pick, Bind, Deliver, Overhear,
                MenuPosted, Note, sinkVars
  <2>2. \A q \in Pings :
          \/ place'[q] = place[q]
          \/ place[q] \in {"new", "unbound"}
          \/ place'[q] \in {"picked", "bound", "submitted"}
    BY <1>5 DEF SubmitRefused, NoRepos, Asking, Pick, Bind, Deliver, Overhear,
                MenuPosted, Note
  <2> QED BY <1>1, <2>1, <2>2 DEF Working
<1>6. ASSUME NEW s \in Sessions, Human(s)
      PROVE  AckAtWork'
  <2>1. PICK p \in Pings : p = Head(turns[s])
    BY <1>6 DEF Human
  <2>2. lastUser = p
    BY <1>6, <2>1 DEF Human
  <2>3. acked' \in {p, acked} /\ place' = [place EXCEPT ![p] = "running"]
    BY <1>6, <2>1, <2>2 DEF Human, Ack, AddAck
  <2> QED BY <2>3 DEF AckAtWork, Working
<1>7. ASSUME NEW s \in Sessions, Reply(s) \/ Abandon(s)
      PROVE  AckAtWork'
  BY <1>7, Clearing DEF Reply, Abandon, AckAtWork
<1>8. CASE \/ \E s \in Sessions : Status(s)
           \/ Click \/ Quiescent \/ UNCHANGED vars
  <2>1. place' = place
    BY <1>8 DEF Status, Click, ClickAgain, ClickBinds, ClickFails, FailsAstray,
                Quiescent, vars
  <2>2. acked' \in {acked, None}
    BY <1>8, Clearing DEF Status, Click, ClickAgain, ClickBinds, ClickFails,
                FailsAstray, ApplyFail, Quiescent, vars, sinkVars
  <2> QED BY <1>1, <2>1, <2>2
<1> QED BY <1>2, <1>3, <1>4, <1>5, <1>6, <1>7, <1>8 DEF Next, Handle, Turn

\* The failures of nobody's, or of a late menu, are mishaps.
LEMMA NotAstray ==
  ASSUME [Next]_vars
  PROVE  /\ "late" \notin mishaps' => \A p \in Pings : ~TellLate(p)
         /\ "used" \notin mishaps' => ~ClickFails
BY DEF TellLate, ClickFails, FailsAstray

\* What nobody acked is not at work, and the ping that comes finds none acked.
LEMMA NotAckedYet ==
  ASSUME IInv, Alone, AckAtWork, NEW p \in Pings, Asking(p), Comes(p),
         "overlap" \notin mishaps'
  PROVE  acked = None
<1>1. p \in Outstanding \/ Outstanding = {}
  BY ComesAlone DEF Asking, Outstanding
<1>2. acked # None => acked \in Outstanding /\ place[acked] \in Working
  BY DEF AckAtWork, IInv, TypeOK, Outstanding
<1> QED BY <1>1, <1>2 DEF Alone, Asking, Working

\* Where Discord refuses nothing, the only hourglass is the sink's ack.
LEMMA HoursStep ==
  ASSUME IInv, Alone, AckAtWork, hourglass \subseteq {acked}, [Next]_vars,
         "overlap" \notin mishaps', "stale" \notin mishaps',
         "late" \notin mishaps', "refusal" \notin mishaps
  PROVE  hourglass' \subseteq {acked'}
<1> USE DEF IInv, TypeOK, MayRefuse
<1>1. None \notin hourglass
  OBVIOUS
<1>2. ASSUME NEW p \in Pings, Ask(p)
      PROVE  hourglass' \subseteq {acked'}
  <2>1. acked = None
    BY <1>2, NotAckedYet DEF Ask
  <2> QED BY <1>1, <1>2, <2>1 DEF Ask, Ack, AddAck
<1>3. ASSUME NEW s \in Sessions, Human(s)
      PROVE  hourglass' \subseteq {acked'}
  <2>1. PICK p \in Pings : turns[s] = <<p>> /\ place[p] = "submitted"
    BY <1>3 DEF Human, Alone
  <2>2. p = Head(turns[s])
    BY <2>1
  <2>3. lastUser = p
    BY <1>3, <2>2 DEF Human
  <2>4. acked \in {p, None}
    BY <2>1 DEF Alone, AckAtWork, Outstanding, Working
  <2> QED BY <1>1, <1>3, <2>3, <2>4 DEF Human, Ack, AddAck
<1>4. ASSUME TradeAck \/ SettlePing \/ SettleDied
      PROVE  hourglass' \subseteq {acked'}
  BY <1>4 DEF TradeAck, SettlePing, SettleDied, ClearAck
<1>5. ASSUME NEW s \in Sessions, Reply(s) \/ Abandon(s)
      PROVE  hourglass' \subseteq {acked'}
  BY <1>4, <1>5 DEF Reply, Abandon
<1>6. ASSUME \/ \E p \in Pings : SaveFails(p) \/ Fail(p) \/ TellLate(p)
             \/ ClickFails
      PROVE  hourglass' \subseteq {acked'}
  BY <1>4, <1>6 DEF SaveFails, Fail, TellLate, ClickFails, FailsAstray,
                    ApplyFail
<1>7. ASSUME NEW p \in Pings, Handle(p),
             ~(Ask(p) \/ SaveFails(p) \/ Fail(p) \/ TellLate(p))
      PROVE  hourglass' \subseteq {acked'}
  BY <1>7 DEF Handle, SubmitRefused, NoRepos, AskRepo, MenuPosted, MenuFails,
              Pick, Bind, Deliver, Note, Overhear, sinkVars, discordVars
<1>8. CASE \/ \E s \in Sessions : Status(s) \/ ClickBinds(s)
           \/ ClickAgain \/ Quiescent \/ UNCHANGED vars
  BY <1>8 DEF Status, ClickBinds, ClickAgain, Quiescent, vars, sinkVars,
              discordVars
<1> QED BY <1>2, <1>3, <1>5, <1>6, <1>7, <1>8 DEF Next, Click, Turn, Handle

\* Without any mishap the crosses are on the pings that failed.
LEMMA CrossesStep ==
  ASSUME IInv, Alone, Alone', AckIsOwn, AckAtWork, Crosses, [Next]_vars,
         mishaps' = {}, mishaps = {}
  PROVE  Crosses'
<1> USE DEF IInv, TypeOK, Goes, MayRefuse
\* A step that leaves the marks alone, and p, if any, before its submission.
<1>1. ASSUME UNCHANGED <<acked, cross, failing>>,
             \A q \in Pings : place'[q] \in Unsubmitted => place[q] \in Unsubmitted
      PROVE  Crosses'
  BY <1>1 DEF Crosses
\* A step after which p waits, and not for its submission.
<1>2. ASSUME NEW p \in Outstanding', UNCHANGED <<cross, failing>>,
             place'[p] \notin Unsubmitted
      PROVE  Crosses'
  <2>1. \A q \in Pings : place'[q] \notin Unsubmitted
    BY <1>2 DEF Alone, Outstanding, Unsubmitted, Working
  <2> QED BY <1>2, <2>1 DEF Crosses
<1>3. ASSUME NEW p \in Pings, Ask(p)
      PROVE  Crosses'
  <2>1. /\ place[p] \in {"new", "unbound"}
        /\ place' = [place EXCEPT ![p] = "opening"]
        /\ UNCHANGED <<cross, failing>>
    BY <1>3 DEF Ask, Asking
  <2>2. p \notin deleted
    BY <2>1 DEF AckIsOwn
  <2>3. acked' = p
    BY <1>3, <2>2 DEF Ack, AddAck, Ask
  <2>4. \A q \in Pings : place'[q] \in Unsubmitted => q = p
    BY <2>1 DEF Alone, Outstanding, Unsubmitted, Working
  <2> QED BY <2>1, <2>3, <2>4 DEF Crosses
<1>4. ASSUME NEW p \in Pings, AskRepo(p) \/ MenuFails(p)
      PROVE  Crosses'
  <2>1. UNCHANGED <<acked, cross, failing>>
    BY <1>4 DEF AskRepo, MenuFails, sinkVars, discordVars
  <2>2. /\ place[p] \in Unsubmitted
        /\ \A q \in Pings : q # p => place'[q] \in {place[q], "dropped"}
    BY <1>4 DEF AskRepo, MenuFails, PutAlone, Unsubmitted
  <2> QED BY <1>1, <2>1, <2>2 DEF Unsubmitted
<1>5. ASSUME NEW p \in Pings,
             \/ SubmitRefused(p) \/ NoRepos(p) \/ Pick(p) \/ Bind(p)
             \/ Deliver(p) \/ Overhear(p) \/ MenuPosted(p) \/ Note(p)
      PROVE  Crosses'
  <2>1. UNCHANGED <<acked, cross, failing>>
    BY <1>5 DEF SubmitRefused, NoRepos, Pick, Bind, Deliver, Overhear,
                MenuPosted, Note, sinkVars, discordVars
  <2>2. \A q \in Pings :
          \/ place'[q] = place[q]
          \/ place'[q] \notin Unsubmitted
          \/ place[q] \in {"opening", "buffered", "picked"}
    BY <1>5 DEF SubmitRefused, NoRepos, Pick, Bind, Deliver, Overhear,
                MenuPosted, Note, Unsubmitted
  <2> QED BY <1>1, <2>1, <2>2 DEF Unsubmitted
<1>6. ASSUME NEW p \in Pings, SaveFails(p) \/ Fail(p)
      PROVE  Crosses'
  <2>1. p \in Outstanding
    BY <1>6 DEF SaveFails, Fail, Outstanding, Working
  <2>2. \A q \in Pings : q # p => place[q] \notin Unsubmitted
    BY <2>1, OnlyOne DEF Outstanding, Unsubmitted, Working
  <2>3. /\ acked' = None
        /\ \A q \in Pings : q # p => place'[q] = place[q]
    BY <1>6, Clearing DEF SaveFails, Fail, ApplyFail
  <2>4. CASE place[p] = "unbound"
    <3>1. acked = None
      BY <2>1, <2>4, OnlyOne DEF AckAtWork, Outstanding, Working
    <3>2. UNCHANGED <<cross, failing, place>>
      BY <1>6, <2>4, <3>1 DEF SaveFails, Fail, ApplyFail, TradeAck
    <3> QED BY <1>1, <2>3, <3>1, <3>2
  <2>5. CASE place[p] # "unbound"
    <3>1. place[p] \in Unsubmitted
      BY <1>6, <2>5 DEF SaveFails, Fail, Unsubmitted
    <3>2. acked = p \/ (acked = None /\ p \in failing)
      BY <3>1 DEF Crosses
    <3>3. failing' = failing \cup {p}
      BY <1>6, <2>5 DEF SaveFails, Fail, Blame
    <3>4. p \notin deleted
      BY <3>1 DEF AckIsOwn, Unsubmitted
    <3>5. cross' = IF acked = p THEN cross \cup {p} ELSE cross
      BY <1>6, <3>2, <3>4 DEF SaveFails, Fail, ApplyFail, TradeAck
    <3>6. cross' = failing'
      BY <3>2, <3>3, <3>5 DEF Crosses
    <3> QED BY <2>2, <2>3, <3>3, <3>6 DEF Crosses
  <2> QED BY <2>4, <2>5
<1>7. ASSUME NEW s \in Sessions, Human(s)
      PROVE  Crosses'
  <2>1. PICK p \in Pings : p = Head(turns[s])
    BY <1>7 DEF Human
  <2>2. place'[p] = "running" /\ UNCHANGED <<cross, failing>>
    BY <1>7, <2>1 DEF Human
  <2>3. p \in Outstanding'
    BY <2>2 DEF Outstanding, Working
  <2> QED BY <1>2, <2>2, <2>3 DEF Unsubmitted
<1>8. ASSUME NEW s \in Sessions, Reply(s) \/ Abandon(s)
      PROVE  Crosses'
  <2>1. PICK p \in Pings : p = running[s] /\ place[p] = "running"
    BY <1>8 DEF Reply, Abandon, TurnInv
  <2>2. /\ UNCHANGED <<cross, failing>>
        /\ place'[p] \in {"answered", "died"}
        /\ \A q \in Pings : q # p => place'[q] = place[q]
    BY <1>8, <2>1 DEF Reply, Abandon
  <2>3. \A q \in Pings : place'[q] \notin Unsubmitted
    BY <2>1, <2>2 DEF Alone, Outstanding, Unsubmitted, Working
  <2> QED BY <2>2, <2>3 DEF Crosses
<1>9. CASE \/ \E s \in Sessions : Status(s) \/ ClickBinds(s)
           \/ ClickAgain \/ Quiescent \/ UNCHANGED vars
  BY <1>1, <1>9 DEF Status, ClickBinds, ClickAgain, Quiescent, vars, sinkVars,
                    discordVars
<1> QED BY <1>3, <1>4, <1>5, <1>6, <1>7, <1>8, <1>9, NotAstray
        DEF Next, Click, Turn, Handle

\* The only progress message still at work is the view's, or that of a turn
\* that died, where Discord takes every edit.
LEMMA ViewsStep ==
  ASSUME IInv, Alone, Views, [Next]_vars, "overlap" \notin mishaps',
         "used" \notin mishaps', "late" \notin mishaps', "refusal" \notin mishaps
  PROVE  Views'
<1> USE DEF IInv, TypeOK, Goes, MayRefuse
<1>1. ASSUME live' = live, view' = view,
             \A q \in Pings : place[q] = "died" => place'[q] = "died"
      PROVE  Views'
  BY <1>1 DEF Views
<1>2. ASSUME NEW p \in Pings, Handle(p), ~(SaveFails(p) \/ Fail(p) \/ TellLate(p))
      PROVE  Views'
  <2>1. live' = live /\ view' = view
    BY <1>2 DEF Handle, SubmitRefused, NoRepos, Ask, AskRepo, MenuPosted,
                MenuFails, Pick, Bind, Deliver, Note, Overhear, sinkVars,
                discordVars
  <2>2. \A q \in Pings : place[q] = "died" => place'[q] = "died"
    BY <1>2 DEF Handle, SubmitRefused, NoRepos, Asking, Ask, AskRepo,
                MenuPosted, MenuFails, PutAlone, Pick, Bind, Deliver, Note,
                Overhear
  <2> QED BY <1>1, <2>1, <2>2
<1>3. ASSUME NEW p \in Pings, SaveFails(p) \/ Fail(p)
      PROVE  Views'
  <2>1. p \in Outstanding /\ place[p] \notin {"running", "died"}
    BY <1>3 DEF SaveFails, Fail, Outstanding, Working
  <2>2. view = None
    BY <2>1, OnlyOne
  <2>3. live' = live /\ view' = view
    BY <1>3, <2>2 DEF SaveFails, Fail, ApplyFail, DropView
  <2>4. \A q \in Pings : place[q] = "died" => place'[q] = "died"
    BY <1>3, <2>1 DEF SaveFails, Fail
  <2> QED BY <1>1, <2>3, <2>4
<1>4. ASSUME NEW s \in Sessions, Human(s)
      PROVE  Views'
  <2>1. PICK p \in Pings : turns[s] = <<p>> /\ place[p] = "submitted"
    BY <1>4 DEF Human, Alone
  <2>2. p = Head(turns[s]) /\ p \in Outstanding
    BY <2>1 DEF Outstanding, Working
  <2>3. view = None
    BY <2>1, <2>2, OnlyOne
  <2>4. live' = live /\ place' = [place EXCEPT ![p] = "running"]
    BY <1>4, <2>2 DEF Human
  <2> QED BY <2>1, <2>3, <2>4 DEF Views
<1>5. ASSUME NEW s \in Sessions, Reply(s) \/ Abandon(s)
      PROVE  Views'
  <2>1. PICK p \in Pings : p = running[s] /\ place[p] = "running"
    BY <1>5 DEF Reply, Abandon, TurnInv
  <2>2. view # None => view = p
    BY <2>1, OnlyOne DEF Outstanding, Working
  <2>3. \A q \in Pings : q # p => place'[q] = place[q]
    BY <1>5, <2>1 DEF Reply, Abandon
  <2>4. CASE Reply(s)
    <3>1. live' = live \ {view}
      BY <2>4 DEF Reply, FinishView
    <3> QED BY <2>1, <2>3, <3>1 DEF Views
  <2>5. CASE Abandon(s)
    <3>1. live' \subseteq live \cup {p}
      BY <2>2, <2>5 DEF Abandon, DropView
    <3>2. place'[p] = "died"
      BY <2>1, <2>5 DEF Abandon
    <3> QED BY <2>2, <2>3, <3>1, <3>2 DEF Views
  <2> QED BY <1>5, <2>4, <2>5
<1>6. ASSUME NEW s \in Sessions, Status(s)
      PROVE  Views'
  BY <1>6 DEF Status, Views, sinkVars
<1>7. CASE \/ \E s \in Sessions : ClickBinds(s)
           \/ ClickAgain \/ Quiescent \/ UNCHANGED vars
  BY <1>1, <1>7 DEF ClickBinds, ClickAgain, Quiescent, vars, sinkVars,
                    discordVars
<1> QED BY <1>2, <1>3, <1>4, <1>5, <1>6, <1>7, NotAstray
        DEF Next, Click, Turn, Handle

\* The inductive invariant of a conversation in which each ping waits for the
\* answer to the last: one ping waits, and what the sink holds and what Discord
\* shows is that ping's, part by part as long as nothing else goes wrong.
THEOREM CalmInvariance == Spec => [](IInv /\ CalmInv /\ ShownInv)
<1>1. ASSUME IInv, CalmInv, ShownInv, [Next]_vars
      PROVE  IInv' /\ CalmInv' /\ ShownInv'
  <2>1. IInv'
    BY <1>1, TypeStep, TurnStep, AckStep, IdleStep DEF IInv
  <2>2. mishaps \subseteq mishaps'
    BY <1>1, MishapsGrow DEF IInv
  <2>3. mishaps \in SUBSET Mishaps /\ mishaps' \in SUBSET Mishaps
    BY <1>1, <2>1 DEF IInv, TypeOK
  <2>4. ASSUME "overlap" \notin mishaps' PROVE Alone /\ Alone'
    <3>1. Alone
      BY <1>1, <2>2, <2>4 DEF CalmInv, Without
    <3> QED BY <1>1, <2>4, <3>1, AloneStep
  <2>5. ASSUME "overlap" \notin mishaps', "stale" \notin mishaps'
        PROVE  AckIsOwn /\ AckIsOwn'
    <3>1. AckIsOwn
      BY <1>1, <2>2, <2>5 DEF CalmInv, Without
    <3> QED BY <1>1, <2>4, <2>5, <3>1, OwnStep
  <2>6. ASSUME "overlap" \notin mishaps', "stale" \notin mishaps',
               "late" \notin mishaps'
        PROVE  AckAtWork /\ AckAtWork'
    <3>1. AckAtWork
      BY <1>1, <2>2, <2>6 DEF CalmInv, Without
    <3> QED BY <1>1, <2>4, <2>6, <3>1, AtWorkStep
  <2>7. CalmInv'
    BY <2>4, <2>5, <2>6 DEF CalmInv, Without
  <2>8. ASSUME "overlap" \notin mishaps', "stale" \notin mishaps',
               "late" \notin mishaps', "refusal" \notin mishaps'
        PROVE  hourglass' \subseteq {acked'}
    <3>1. hourglass \subseteq {acked}
      BY <1>1, <2>2, <2>8 DEF ShownInv, Without
    <3> QED BY <1>1, <2>2, <2>4, <2>6, <2>8, <3>1, HoursStep
  <2>9. ASSUME mishaps' = {}
        PROVE  Crosses'
    <3>1. mishaps = {} /\ Crosses
      BY <1>1, <2>2, <2>9 DEF ShownInv, Without
    <3> QED BY <1>1, <2>4, <2>5, <2>6, <2>9, <3>1, CrossesStep
  <2>10. ASSUME "overlap" \notin mishaps', "used" \notin mishaps',
                "late" \notin mishaps', "refusal" \notin mishaps'
         PROVE  Views'
    <3>1. Views
      BY <1>1, <2>2, <2>10 DEF ShownInv, Without
    <3> QED BY <1>1, <2>2, <2>4, <2>10, <3>1, ViewsStep
  <2>11. Without(Mishaps)' => mishaps' = {}
    BY <2>3 DEF Without
  <2>12. ShownInv'
    BY <2>8, <2>9, <2>10, <2>11 DEF ShownInv, Without
  <2> QED BY <2>1, <2>7, <2>12
<1> QED BY InitIInv, InitCalm, <1>1, PTL DEF Spec

\* A ping that is deleted is none whose turn died or that failed, whatever
\* Discord refuses and whoever clicks where, as long as each ping waits for the
\* answer to the last and is noted before its turn opens (onHuman, tidyPing).
THEOREM DiedKeeps == Spec => []NotedDiedKeepsItsPing
<1>1. CalmInv => NotedDiedKeepsItsPing
  BY DEF CalmInv, AckIsOwn, NotedDiedKeepsItsPing
<1> QED BY CalmInvariance, <1>1, PTL

\* The hourglass is on pings that wait, the cross on those that failed, as long
\* as nothing goes wrong (addAck, clearAck, applyFail).
THEOREM MarksTrue == Spec => []MarksAreTrue
<1>1. ASSUME IInv, CalmInv, ShownInv,
             Without({"overlap", "stale", "late", "refusal"})
      PROVE  hourglass \subseteq Outstanding
  <2>1. Without({"overlap", "stale", "late"})
    BY <1>1 DEF Without
  <2>2. AckAtWork /\ hourglass \subseteq {acked}
    BY <1>1, <2>1 DEF CalmInv, ShownInv
  <2> QED BY <1>1, <2>2 DEF AckAtWork, IInv, TypeOK, Outstanding
<1>2. IInv /\ CalmInv /\ ShownInv => MarksAreTrue
  BY <1>1 DEF ShownInv, Crosses, MarksAreTrue, HourglassIsAState,
              CrossMarksTheFailed
<1> QED BY CalmInvariance, <1>2, PTL

\* The progress message of an answered turn is a summary, where each ping waits
\* for the answer to the last and nothing but a note comes late (onReply).
THEOREM Collapsed == Spec => []AnsweredIsCollapsed
<1>1. ASSUME IInv, CalmInv, ShownInv,
             Without({"overlap", "used", "late", "refusal"}), NEW p \in live
      PROVE  place[p] # "answered"
  <2>1. Alone /\ Views
    BY <1>1 DEF CalmInv, ShownInv, Without
  <2>2. p \in Pings
    BY <1>1 DEF IInv, TypeOK
  <2> QED BY <2>1, <2>2 DEF Alone, Views
<1>2. IInv /\ CalmInv /\ ShownInv => AnsweredIsCollapsed
  BY <1>1 DEF AnsweredIsCollapsed
<1> QED BY CalmInvariance, <1>2, PTL
=============================================================================
