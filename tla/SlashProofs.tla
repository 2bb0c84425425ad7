---------------------------- MODULE SlashProofs -----------------------------
(***************************************************************************)
(* Theorems of Slash: who is answered, and how often; who may make the     *)
(* gateway do something; what becomes of the list.  They hold for any      *)
(* number of interactions, people and sessions.                            *)
(***************************************************************************)
EXTENDS Slash, TLAPS

\* What is true of an interaction in each of its places.
CallInv(i) ==
  /\ pc[i] # "new" => by[i] \in Users /\ ask[i] \in Requests
  /\ pc[i] = "new" => by[i] = Nobody
  /\ pc[i] \in {"new", "gate", "let in", "denied", "answer"} =>
       told[i] = 0 /\ ~deferred[i]
  /\ pc[i] \in {"new", "gate", "let in", "denied"} => effects[i] = 0
  /\ pc[i] \in {"let in", "answer", "run", "edit"} => free[i]
  /\ pc[i] = "answer" => ask[i].what \notin Core
  /\ pc[i] \in {"run", "edit"} => told[i] = 1 /\ deferred[i]
  /\ pc[i] = "run" => effects[i] = 0
  /\ pc[i] \in {"run", "edit"} => ask[i].what \in Core
  /\ pc[i] = "edit" => effects[i] = 1
  /\ pc[i] = "over" /\ fate[i] = "none" =>
       ask[i].what \in {"other menu", "autocomplete"}
  /\ told[i] <= 1
  /\ ask[i].what \in Core /\ effects[i] > 0 => deferred[i] /\ effects[i] = 1
  /\ effects[i] > 0 => free[i]

\* Who could be let in now could be let in at some time; a locked store never
\* let anybody in, and has nothing in it.
StoreInv ==
  /\ \A i \in Calls : by[i] # Nobody /\ Allowed(by[i]) => free[i]
  /\ locked => /\ global = {} /\ \A n \in Sessions : session[n] = {}
               /\ \A i \in Calls : ~free[i]

CallsInv == \A i \in Calls : CallInv(i)
IInv == SlashTypeOK /\ CallsInv /\ StoreInv

-----------------------------------------------------------------------------
\* What a request is made of.
LEMMA RequestParts ==
  ASSUME NEW r
  PROVE  /\ r \in Changes => /\ r.user \in Users /\ r \in Requests
                             /\ r.what \in {"allow", "session allow"}
                             /\ r.what = "session allow" => r.name \in Sessions
         /\ \A what \in Picks \cup Core \cup Own
                          \cup {"allow list", "autocomplete"} :
              Plain(what) \in Requests
BY DEF Changes, Requests

\* The list that comes of a change is a set of people.
LEMMA ChangedIsAList ==
  ASSUME NEW r \in Changes, NEW list \in SUBSET Users
  PROVE  Changed(list, r) \in SUBSET Users
BY RequestParts DEF Changed

\* The kinds of interaction exclude one another.
LEMMA Kinds ==
  /\ {"bind menu", "choice menu"} \cap Core = {} /\ Own \cap Core = {}
  /\ "other menu" \notin Core /\ "autocomplete" \notin Core
  /\ "allow list" \notin Core
  /\ {"allow", "session allow"} \cap Core = {}
BY DEF Core, Own

-----------------------------------------------------------------------------
\* The first state.
LEMMA InitHolds == SlashInit => IInv
<1> SUFFICES ASSUME SlashInit PROVE IInv
  OBVIOUS
<1>1. SlashTypeOK
  <2>1. global \subseteq Users
    BY DEF SlashInit
  <2> QED BY <2>1 DEF SlashInit, SlashTypeOK
<1>2. CallsInv
  BY DEF SlashInit, CallsInv, CallInv
<1>3. StoreInv
  BY DEF SlashInit, StoreInv
<1> QED BY <1>1, <1>2, <1>3 DEF IInv

\* The steps that leave the store and the requests alone.
Quiet(i) ==
  \/ Gate(i) \/ Deny(i) \/ WorkThenAnswer(i) \/ DropPick(i)
  \/ ShowList(i) \/ Suggest(i) \/ Answer(i)
  \/ Defer(i) \/ Dispatch(i) \/ EditResponse(i)

LEMMA QuietKeepsStore ==
  ASSUME NEW i \in Calls, Quiet(i)
  PROVE  UNCHANGED <<store, request, free>>
BY DEF Quiet, Gate, Deny, WorkThenAnswer, DropPick, ShowList, Suggest, Answer,
       Defer, Dispatch, EditResponse, history

Places == {"new", "gate", "let in", "denied", "run", "edit", "answer", "over"}

\* What such a step may do to each of the variables it does not leave alone.
Shape(i) ==
  /\ \E place \in Places : pc' = [pc EXCEPT ![i] = place]
  /\ told' = told \/ told' = [told EXCEPT ![i] = told[i] + 1]
  /\ effects' = effects \/ effects' = [effects EXCEPT ![i] = effects[i] + 1]
  /\ deferred' = deferred \/ deferred' = [deferred EXCEPT ![i] = TRUE]
  /\ \/ fate' = fate
     \/ \E outcome \in {"taken", "refused"} : fate' = [fate EXCEPT ![i] = outcome]

LEMMA QuietShape ==
  ASSUME NEW i \in Calls, Quiet(i)
  PROVE  Shape(i)
<1> USE DEF Shape, Places, Goto, history, Send, Becomes
<1>1. CASE Gate(i)
  BY <1>1 DEF Gate
<1>2. CASE Deny(i)
  BY <1>2 DEF Deny, AfterDenial, Tell
<1>3. CASE WorkThenAnswer(i)
  BY <1>3 DEF WorkThenAnswer, Act
<1>4. CASE DropPick(i)
  BY <1>4 DEF DropPick
<1>5. CASE ShowList(i)
  BY <1>5 DEF ShowList
<1>6. CASE Suggest(i)
  BY <1>6 DEF Suggest
<1>7. CASE Answer(i)
  BY <1>7 DEF Answer, Tell
<1>8. CASE Defer(i)
  BY <1>8 DEF Defer, AfterFailedDefer, Tell
<1>9. CASE Dispatch(i)
  BY <1>9 DEF Dispatch, Act
<1>10. CASE EditResponse(i)
  BY <1>10 DEF EditResponse
<1> QED BY <1>1, <1>2, <1>3, <1>4, <1>5, <1>6, <1>7, <1>8, <1>9, <1>10 DEF Quiet

LEMMA QuietTypes ==
  ASSUME IInv, NEW i \in Calls, Quiet(i)
  PROVE  SlashTypeOK'
<1>0. SlashTypeOK
  BY DEF IInv
<1>1. UNCHANGED <<store, request, free>>
  BY QuietKeepsStore
<1>2. pc' \in [Calls -> {"new", "gate", "let in", "denied", "run",
                         "edit", "answer", "over"}]
  BY <1>0, QuietShape DEF SlashTypeOK, Shape, Places
<1>3. told' \in [Calls -> Nat]
  <2>1. told \in [Calls -> Nat]
    BY <1>0 DEF SlashTypeOK
  <2> QED BY <2>1, QuietShape DEF Shape
<1>4. effects' \in [Calls -> Nat]
  <2>1. effects \in [Calls -> Nat]
    BY <1>0 DEF SlashTypeOK
  <2> QED BY <2>1, QuietShape DEF Shape
<1>5. deferred' \in [Calls -> BOOLEAN]
  <2>1. deferred \in [Calls -> BOOLEAN]
    BY <1>0 DEF SlashTypeOK
  <2> QED BY <2>1, QuietShape DEF Shape
<1>6. fate' \in [Calls -> {"none", "taken", "refused"}]
  <2>1. fate \in [Calls -> {"none", "taken", "refused"}]
    BY <1>0 DEF SlashTypeOK
  <2> QED BY <2>1, QuietShape DEF Shape
<1> QED BY <1>0, <1>1, <1>2, <1>3, <1>4, <1>5, <1>6 DEF SlashTypeOK, store, request

\* A step of one interaction leaves the others where they are.
LEMMA QuietOthers ==
  ASSUME SlashTypeOK, NEW i \in Calls, Quiet(i), NEW j \in Calls, j # i
  PROVE  /\ pc'[j] = pc[j] /\ told'[j] = told[j] /\ effects'[j] = effects[j]
         /\ deferred'[j] = deferred[j] /\ fate'[j] = fate[j]
BY DEF Quiet, Gate, Deny, WorkThenAnswer, DropPick, ShowList, Suggest, Answer,
       Defer, Dispatch, EditResponse, history, Goto, Tell, Send, Becomes, Act,
       SlashTypeOK

LEMMA QuietCall ==
  ASSUME IInv, NEW i \in Calls, Quiet(i)
  PROVE  CallInv(i)'
<1>0. SlashTypeOK /\ CallInv(i) /\ StoreInv
  BY DEF IInv, CallsInv
<1>a. by' = by /\ ask' = ask /\ free' = free
  BY QuietKeepsStore DEF request
<1>t. /\ pc \in [Calls -> Places] /\ told \in [Calls -> Nat]
      /\ effects \in [Calls -> Nat] /\ deferred \in [Calls -> BOOLEAN]
      /\ fate \in [Calls -> {"none", "taken", "refused"}]
  BY <1>0 DEF SlashTypeOK, Places
<1>k. told[i] \in Nat /\ effects[i] \in Nat
  BY <1>t
<1>1. CASE Gate(i)
  <2>1. pc[i] = "gate" /\ by[i] # Nobody
    BY <1>0, <1>1, SlashAssumption DEF Gate, CallInv, SlashAssumption
  <2>2. LetIn(i) => free[i]
    BY <1>0, <2>1 DEF LetIn, StoreInv
  <2> QED BY <1>1, <2>1, <2>2, <1>0, <1>a, <1>t, Kinds DEF CallInv, Goto, history, Gate
<1>2. CASE Deny(i)
  <2>1. /\ pc[i] = "denied" /\ pc'[i] = "over" /\ told'[i] = told[i] + 1
        /\ effects'[i] = effects[i] /\ deferred'[i] = deferred[i]
        /\ fate'[i] # "none"
    BY <1>2, <1>t DEF Deny, Goto, history, AfterDenial, Tell, Send, Becomes
  <2>2. told[i] = 0 /\ by[i] \in Users /\ ask[i] \in Requests
        /\ (ask[i].what \in Core /\ effects[i] > 0 => deferred[i] /\ effects[i] = 1)
        /\ (effects[i] > 0 => free[i])
    BY <1>0, <2>1 DEF CallInv
  <2>3. told'[i] <= 1
    BY <2>1, <2>2
  <2> QED BY <1>a, <2>1, <2>2, <2>3 DEF CallInv
<1>3. CASE WorkThenAnswer(i)
  BY <1>3, <1>0, <1>a, <1>t, Kinds DEF CallInv, Goto, history, WorkThenAnswer, Act
<1>4. CASE DropPick(i)
  BY <1>4, <1>0, <1>a, <1>t, Kinds DEF CallInv, Goto, history, DropPick
<1>5. CASE ShowList(i)
  BY <1>5, <1>0, <1>a, <1>t, Kinds DEF CallInv, Goto, history, ShowList
<1>6. CASE Suggest(i)
  BY <1>6, <1>0, <1>a, <1>t, Kinds DEF CallInv, Goto, history, Suggest
<1>7. CASE Answer(i)
  <2>1. /\ pc[i] = "answer" /\ pc'[i] = "over" /\ told'[i] = told[i] + 1
        /\ effects'[i] = effects[i] /\ deferred'[i] = deferred[i]
        /\ fate'[i] # "none"
    BY <1>7, <1>t DEF Answer, Goto, history, Tell, Send, Becomes
  <2>2. told[i] = 0 /\ by[i] \in Users /\ ask[i] \in Requests
        /\ (ask[i].what \in Core /\ effects[i] > 0 => deferred[i] /\ effects[i] = 1)
        /\ (effects[i] > 0 => free[i])
    BY <1>0, <2>1 DEF CallInv
  <2>3. told'[i] <= 1
    BY <2>1, <2>2
  <2> QED BY <1>a, <2>1, <2>2, <2>3 DEF CallInv
<1>8. CASE Defer(i)
  <2>1. pc[i] = "let in" /\ ask[i].what \in Core
    BY <1>8 DEF Defer
  <2>2. told'[i] = told[i] + 1 /\ effects'[i] = effects[i]
    BY <1>8, <1>t DEF Defer, Tell
  <2>3. \/ pc'[i] = "run" /\ deferred'[i] /\ fate'[i] = fate[i]
        \/ pc'[i] = "over" /\ fate'[i] = "refused"
    BY <1>8, <1>t DEF Defer, Goto, AfterFailedDefer, Becomes
  <2>4. effects[i] = 0 /\ told[i] = 0 /\ free[i]
    BY <1>0, <2>1 DEF CallInv
  <2>5. told'[i] = 1 /\ effects'[i] = 0
    BY <2>2, <2>4
  <2>8. told'[i] <= 1 /\ ~(effects'[i] > 0)
    BY <2>5
  <2>9. by'[i] \in Users /\ ask'[i] \in Requests /\ ask'[i].what \in Core
        /\ free'[i]
    BY <1>0, <1>a, <2>1, <2>4 DEF CallInv
  <2>6. CASE pc'[i] = "run" /\ deferred'[i]
    BY <2>5, <2>6, <2>8, <2>9 DEF CallInv
  <2>7. CASE pc'[i] = "over" /\ fate'[i] = "refused"
    BY <2>7, <2>8, <2>9 DEF CallInv
  <2> QED BY <2>3, <2>6, <2>7
<1>9. CASE Dispatch(i)
  <2>1. /\ pc[i] = "run" /\ pc'[i] = "edit" /\ told'[i] = told[i]
        /\ effects'[i] = effects[i] + 1 /\ deferred'[i] = deferred[i]
        /\ fate'[i] = fate[i]
    BY <1>9, <1>t DEF Dispatch, Goto, history, Act
  <2>2. effects[i] = 0 /\ told[i] = 1 /\ deferred[i] /\ free[i]
        /\ ask[i].what \in Core
    BY <1>0, <2>1 DEF CallInv
  <2>3. effects'[i] = 1
    BY <2>1, <2>2
  <2> QED BY <1>0, <1>a, <2>1, <2>2, <2>3 DEF CallInv
<1>10. CASE EditResponse(i)
  <2>1. /\ pc[i] = "edit" /\ pc'[i] = "over" /\ told'[i] = told[i]
        /\ effects'[i] = effects[i] /\ deferred'[i] = deferred[i]
        /\ fate'[i] # "none"
    BY <1>10, <1>t DEF EditResponse, Goto, history, Send, Becomes
  <2> QED BY <1>0, <1>a, <1>t, <1>k, <2>1 DEF CallInv
<1> QED BY <1>1, <1>2, <1>3, <1>4, <1>5, <1>6, <1>7, <1>8, <1>9, <1>10 DEF Quiet

LEMMA QuietStep ==
  ASSUME IInv, NEW i \in Calls, Quiet(i)
  PROVE  IInv'
<1>0. UNCHANGED <<store, request, free>>
  BY QuietKeepsStore
<1>1. SlashTypeOK'
  BY QuietTypes
<1>2. CallsInv'
  <2> SUFFICES ASSUME NEW j \in Calls PROVE CallInv(j)'
    BY DEF CallsInv
  <2>1. CASE j = i
    BY <2>1, QuietCall
  <2>2. CASE j # i
    BY <1>0, <2>2, QuietOthers DEF IInv, CallsInv, CallInv, request
  <2> QED BY <2>1, <2>2
<1>3. StoreInv'
  BY <1>0 DEF IInv, StoreInv, Allowed, store, request
<1> QED BY <1>1, <1>2, <1>3 DEF IInv

-----------------------------------------------------------------------------
\* A person asks for something.
LEMMA ArriveStep ==
  ASSUME IInv, NEW i \in Calls, Arrive(i)
  PROVE  IInv'
<1> USE DEF IInv
<1>1. PICK r \in Requests, u \in Users :
        ask' = [ask EXCEPT ![i] = r] /\ by' = [by EXCEPT ![i] = u]
  BY DEF Arrive
<1>2. /\ pc[i] = "new" /\ pc' = [pc EXCEPT ![i] = "gate"]
      /\ UNCHANGED <<store, told, deferred, fate, effects>>
  BY DEF Arrive, Goto
<1>3. free' = [j \in Calls |->
                 \/ free[j]
                 \/ by'[j] # Nobody /\ ~locked
                    /\ (global' = {} \/ by'[j] \in global')]
  BY DEF Arrive, FreeNow
<1>4. SlashTypeOK'
  BY <1>1, <1>2, <1>3 DEF SlashTypeOK, store
<1>5. CallsInv'
  <2> SUFFICES ASSUME NEW j \in Calls PROVE CallInv(j)'
    BY DEF CallsInv
  <2>1. CallInv(j) /\ CallInv(i)
    BY DEF CallsInv
  <2>2. free[j] => free'[j]
    BY <1>3
  <2>3. CASE j = i
    <3>1. /\ pc'[i] = "gate" /\ by'[i] = u /\ ask'[i] = r /\ told'[i] = told[i]
          /\ deferred'[i] = deferred[i] /\ effects'[i] = effects[i]
          /\ fate'[i] = fate[i]
      BY <1>1, <1>2 DEF SlashTypeOK
    <3>2. told[i] = 0 /\ ~deferred[i] /\ effects[i] = 0
      BY <1>2, <2>1 DEF CallInv
    <3> QED BY <2>3, <3>1, <3>2 DEF CallInv
  <2>4. CASE j # i
    BY <1>1, <1>2, <2>1, <2>2, <2>4 DEF CallInv, SlashTypeOK
  <2> QED BY <2>3, <2>4
<1>6. StoreInv'
  BY <1>1, <1>2, <1>3 DEF StoreInv, Allowed, store, SlashTypeOK
<1> QED BY <1>4, <1>5, <1>6

\* A change of one of the lists.
LEMMA ChangeStep ==
  ASSUME IInv, NEW i \in Calls, ChangeList(i)
  PROVE  IInv'
<1> USE DEF IInv
<1> DEFINE r == ask[i]
<1>1. /\ pc[i] = "let in" /\ r \in Changes
      /\ pc' = [pc EXCEPT ![i] = "answer"]
      /\ effects' = [effects EXCEPT ![i] = @ + 1]
      /\ locked' = locked /\ UNCHANGED <<request, told, deferred, fate>>
  BY DEF ChangeList, Goto, AfterChange, Act
<1>2. CallInv(i) /\ free[i] /\ ~locked
  BY <1>1 DEF CallsInv, CallInv, StoreInv
<1>3. /\ global' = IF r.what = "allow" THEN Changed(global, r) ELSE global
      /\ session' = IF r.what = "session allow"
                    THEN [session EXCEPT ![r.name] = Changed(@, r)]
                    ELSE session
  BY <1>2 DEF ChangeList, Change, MayChange
<1>4. free' = [j \in Calls |->
                 \/ free[j]
                 \/ by[j] # Nobody /\ ~locked
                    /\ (global' = {} \/ by[j] \in global')]
  BY DEF ChangeList, FreeNow
<1>5. SlashTypeOK'
  <2>1. global' \subseteq Users
    BY <1>1, <1>3, ChangedIsAList DEF SlashTypeOK
  <2>2. session' \in [Sessions -> SUBSET Users]
    <3>1. CASE r.what = "session allow"
      <4>1. r.name \in Sessions
        BY <1>1, <3>1, RequestParts
      <4>2. Changed(session[r.name], r) \in SUBSET Users
        BY <1>1, <4>1, ChangedIsAList DEF SlashTypeOK
      <4> QED BY <1>3, <3>1, <4>1, <4>2 DEF SlashTypeOK
    <3> QED BY <1>3, <3>1 DEF SlashTypeOK
  <2>3. effects' \in [Calls -> Nat]
    <3>1. effects \in [Calls -> Nat]
      BY DEF SlashTypeOK
    <3>2. effects' = [effects EXCEPT ![i] = effects[i] + 1]
      BY DEF ChangeList, Act
    <3> HIDE DEF IInv
    <3> QED BY <3>1, <3>2
  <2>4. free' \in [Calls -> BOOLEAN]
    BY <1>4
  <2>5. pc' \in [Calls -> Places]
    BY <1>1 DEF SlashTypeOK, Places
  <2> QED BY <1>1, <2>1, <2>2, <2>3, <2>4, <2>5 DEF SlashTypeOK, request, Places
<1>6. CallsInv'
  <2> SUFFICES ASSUME NEW j \in Calls PROVE CallInv(j)'
    BY DEF CallsInv
  <2>1. CallInv(j)
    BY DEF CallsInv
  <2>2. free[j] => free'[j]
    BY <1>4
  <2>3. CASE j = i
    <3>1. r.what \notin Core
      BY <1>1, RequestParts, Kinds
    <3> QED BY <1>1, <1>2, <2>1, <2>2, <2>3, <3>1
            DEF CallInv, SlashTypeOK, request
  <2>4. CASE j # i
    BY <1>1, <2>1, <2>2, <2>4 DEF CallInv, SlashTypeOK, request
  <2> QED BY <2>3, <2>4
<1>7. StoreInv'
  <2>1. \A j \in Calls : by'[j] # Nobody /\ Allowed(by[j])' => free'[j]
    BY <1>1, <1>4 DEF Allowed, request
  <2> QED BY <1>1, <1>2, <2>1 DEF StoreInv, Allowed, request
<1> QED BY <1>5, <1>6, <1>7

LEMMA StutterKeeps ==
  ASSUME IInv, UNCHANGED slashVars
  PROVE  IInv'
BY DEF IInv, SlashTypeOK, CallsInv, CallInv, StoreInv, Allowed, slashVars, store,
       request, history

\* The inductive invariant of the slash surface.
THEOREM Invariance == SlashSpec => []IInv
<1>1. IInv /\ [SlashNext]_slashVars => IInv'
  <2> SUFFICES ASSUME IInv, [SlashNext]_slashVars PROVE IInv'
    OBVIOUS
  <2>1. ASSUME NEW i \in Calls, Arrive(i) PROVE IInv'
    BY <2>1, ArriveStep
  <2>2. ASSUME NEW i \in Calls, Step(i) PROVE IInv'
    <3>1. CASE ChangeList(i)
      BY <3>1, ChangeStep
    <3>2. CASE Quiet(i)
      BY <3>2, QuietStep
    <3> QED BY <2>2, <3>1, <3>2 DEF Step, Quiet
  <2>3. CASE UNCHANGED slashVars
    BY <2>3, StutterKeeps
  <2> QED BY <2>1, <2>2, <2>3 DEF SlashNext
<1> QED BY <1>1, InitHolds, PTL DEF SlashSpec

-----------------------------------------------------------------------------
\* The variables of the slash surface keep their types (src/slash.go, allow.go).
THEOREM TypeCorrect == SlashSpec => []SlashTypeOK
<1>1. IInv => SlashTypeOK
  BY DEF IInv
<1> QED BY <1>1, Invariance, PTL

\* The gateway answers or announces an interaction at most once, whether Discord
\* takes it or not (respond, gate, dispatch, ackComponent).
THEOREM AtMostOnce == SlashSpec => []ToldOnce
<1>1. IInv => ToldOnce
  BY DEF IInv, CallsInv, CallInv, ToldOnce
<1> QED BY <1>1, Invariance, PTL

\* Where Discord refused neither the announcement nor the answer, no interaction
\* ends without one, but for the two kinds that have none (respond, dispatch).
THEOREM AllAnswered == SlashSpec => []NobodyIsLeftWaiting
<1>1. IInv => NobodyIsLeftWaiting
  BY DEF IInv, SlashTypeOK, CallsInv, CallInv, NobodyIsLeftWaiting
<1> QED BY <1>1, Invariance, PTL

\* A command of the core runs once, after its answer was announced (dispatch).
THEOREM Announced == SlashSpec => []CoreIsAnnounced
<1>1. IInv => CoreIsAnnounced
  BY DEF IInv, CallsInv, CallInv, CoreIsAnnounced
<1> QED BY <1>1, Invariance, PTL

\* Nobody acts who could not have been let in at some time since they asked, for
\* any number of interactions that change the list meanwhile (gate).
THEOREM Gated == SlashSpec => []EffectsAreGated
<1>1. IInv => EffectsAreGated
  BY DEF IInv, CallsInv, CallInv, EffectsAreGated
<1> QED BY <1>1, Invariance, PTL

\* A store that could not be read lets nobody in and is never changed (Allowed,
\* persist).
THEOREM Locked == SlashSpec => []LockedMeansNobody
<1>1. IInv => LockedMeansNobody
  <2> SUFFICES ASSUME IInv, locked PROVE LockedMeansNobody
    BY DEF LockedMeansNobody
  <2>1. \A i \in Calls : effects[i] \in Nat /\ ~(effects[i] > 0)
    BY DEF IInv, SlashTypeOK, CallsInv, CallInv, StoreInv
  <2> QED BY <2>1 DEF IInv, StoreInv, LockedMeansNobody
<1> QED BY <1>1, Invariance, PTL

-----------------------------------------------------------------------------
(* Whom a change put on a list.                                            *)

Acted(i) == effects[i] > 0
ListNames == {"allow", "session allow"}

LEMMA DoneMeans ==
  /\ \A i \in Calls : \A what, op :
       Done(i, what, op) <=> ask[i].what = what /\ ask[i].op = op /\ Acted(i)
  /\ (\A i \in Calls : \A what, op :
       Done(i, what, op) <=> ask[i].what = what /\ ask[i].op = op /\ Acted(i))'
BY DEF Done, Acted

\* Nobody but a change of a list counts as one.
LEMMA QuietActs ==
  ASSUME IInv, NEW i \in Calls, Quiet(i), NEW j \in Calls,
         ask[j].what \in ListNames
  PROVE  Acted(j)' <=> Acted(j)
<1>0. SlashTypeOK
  BY DEF IInv
<1>1. CASE j # i
  BY <1>0, <1>1, QuietOthers DEF Acted
<1>2. CASE j = i
  <2>1. ~WorkThenAnswer(i) /\ ~Dispatch(i)
    <3>1. ~WorkThenAnswer(i)
      BY <1>2 DEF WorkThenAnswer, ListNames, Own
    <3>2. pc[i] # "run"
      BY <1>2 DEF IInv, CallsInv, CallInv, ListNames, Core
    <3> QED BY <3>1, <3>2 DEF Dispatch
  <2>2. effects' = effects
    BY <2>1 DEF Quiet, Gate, Deny, DropPick, ShowList, Suggest, Answer, Defer,
                EditResponse, history
  <2> QED BY <1>2, <2>2 DEF Acted
<1> QED BY <1>1, <1>2

LEMMA QuietAdded ==
  ASSUME IInv, AddedStays, NEW i \in Calls, Quiet(i)
  PROVE  AddedStays'
<1>1. ask' = ask /\ global' = global /\ session' = session
  BY QuietKeepsStore DEF store, request
<1>2. \A j \in Calls : \A what \in ListNames : \A op :
        Done(j, what, op)' <=> Done(j, what, op)
  BY <1>1, QuietActs, DoneMeans
<1> QED BY <1>1, <1>2 DEF AddedStays, ListNames

LEMMA ArriveAdded ==
  ASSUME IInv, AddedStays, NEW i \in Calls, Arrive(i)
  PROVE  AddedStays'
<1>1. global' = global /\ session' = session /\ effects' = effects
  BY DEF Arrive, store
<1>2. ~Acted(i)
  <2>1. effects[i] = 0
    BY DEF IInv, CallsInv, CallInv, Arrive
  <2> QED BY <2>1 DEF Acted
<1>3. \A j \in Calls : j # i => ask'[j] = ask[j]
  BY DEF Arrive, IInv, SlashTypeOK
<1>4. \A j \in Calls : Acted(j)' <=> Acted(j)
  BY <1>1 DEF Acted
<1>5. \A j \in Calls : \A what, op : Done(j, what, op)' <=> Done(j, what, op)
  BY <1>2, <1>3, <1>4, DoneMeans
<1>6. \A j \in Calls : \A what, op : Done(j, what, op) => ask'[j] = ask[j]
  BY <1>2, <1>3, DoneMeans
<1>7. \A k \in Calls : \A what, op :
        Done(k, what, op) => Done(k, what, op)' /\ ask'[k] = ask[k]
  BY <1>5, <1>6
<1>8. ASSUME NEW j \in Calls, Done(j, "allow", "add")'
      PROVE  \/ ask'[j].user \in global'
             \/ \E k \in Calls : Done(k, "allow", "remove")'
                                 /\ ask'[k].user = ask'[j].user
  <2>1. Done(j, "allow", "add") /\ ask'[j] = ask[j]
    BY <1>5, <1>7, <1>8
  <2>2. \/ ask[j].user \in global
        \/ \E k \in Calls : Done(k, "allow", "remove")
                            /\ ask[k].user = ask[j].user
    BY <2>1 DEF AddedStays
  <2> QED BY <1>1, <1>7, <2>1, <2>2
<1>9. ASSUME NEW j \in Calls, Done(j, "session allow", "add")'
      PROVE  \/ ask'[j].user \in session'[ask'[j].name]
             \/ \E k \in Calls : Done(k, "session allow", "remove")'
                                 /\ ask'[k].user = ask'[j].user
                                 /\ ask'[k].name = ask'[j].name
  <2>1. Done(j, "session allow", "add") /\ ask'[j] = ask[j]
    BY <1>5, <1>7, <1>9
  <2>2. \/ ask[j].user \in session[ask[j].name]
        \/ \E k \in Calls : Done(k, "session allow", "remove")
                            /\ ask[k].user = ask[j].user
                            /\ ask[k].name = ask[j].name
    BY <2>1 DEF AddedStays
  <2> QED BY <1>1, <1>7, <2>1, <2>2
<1> QED BY <1>8, <1>9 DEF AddedStays

LEMMA ChangeAdded ==
  ASSUME IInv, AddedStays, NEW i \in Calls, ChangeList(i)
  PROVE  AddedStays'
<1> DEFINE r == ask[i]
<1>1. r \in Changes /\ ask' = ask
  BY DEF ChangeList, request
<1>2. ~locked
  BY DEF IInv, CallsInv, CallInv, StoreInv, ChangeList
<1>3. /\ global' = IF r.what = "allow" THEN Changed(global, r) ELSE global
      /\ session' = IF r.what = "session allow"
                    THEN [session EXCEPT ![r.name] = Changed(@, r)]
                    ELSE session
  BY <1>2 DEF ChangeList, Change, MayChange
<1>4. Acted(i)' /\ \A j \in Calls : Acted(j) => Acted(j)'
  <2>1. effects \in [Calls -> Nat]
    BY DEF IInv, SlashTypeOK
  <2>2. effects' = [effects EXCEPT ![i] = effects[i] + 1]
    BY DEF ChangeList, Act
  <2> QED BY <2>1, <2>2 DEF Acted
<1>5. \A j \in Calls : j # i => (Acted(j)' <=> Acted(j))
  <2>1. effects \in [Calls -> Nat]
    BY DEF IInv, SlashTypeOK
  <2>2. effects' = [effects EXCEPT ![i] = effects[i] + 1]
    BY DEF ChangeList, Act
  <2> QED BY <2>1, <2>2 DEF Acted
<1>6. \A j \in Calls : \A what, op : Done(j, what, op) => Done(j, what, op)'
  BY <1>1, <1>4, DoneMeans
<1>7. \A j \in Calls : \A what, op :
        j # i => (Done(j, what, op)' <=> Done(j, what, op))
  BY <1>1, <1>5, DoneMeans
<1>8. Done(i, r.what, r.op)'
  BY <1>1, <1>4, DoneMeans
<1>9. /\ r.op \in {"add", "remove"} /\ r.what \in ListNames
      /\ r.what = "session allow" => r.name \in Sessions
      /\ session \in [Sessions -> SUBSET Users]
  BY <1>1 DEF Changes, ListNames, IInv, SlashTypeOK
<1>10. \A u : /\ r.op = "add" => (u \in Changed(global, r) <=>
                                   u \in global \/ u = r.user)
              /\ r.op = "remove" => (u \in Changed(global, r) <=>
                                      u \in global /\ u # r.user)
  BY DEF Changed
<1>11. ASSUME NEW j \in Calls, Done(j, "allow", "add")'
       PROVE  \/ ask'[j].user \in global'
              \/ \E k \in Calls : Done(k, "allow", "remove")'
                                  /\ ask'[k].user = ask'[j].user
  <2>1. CASE j = i
    <3>1. r.what = "allow" /\ r.op = "add"
      BY <1>1, <1>11, <2>1, DoneMeans
    <3> QED BY <1>1, <1>3, <1>10, <2>1, <3>1
  <2>2. CASE j # i
    <3>1. \/ ask[j].user \in global
          \/ \E k \in Calls : Done(k, "allow", "remove")
                              /\ ask[k].user = ask[j].user
      BY <1>7, <1>11, <2>2 DEF AddedStays
    <3>2. CASE \E k \in Calls : Done(k, "allow", "remove")
                                /\ ask[k].user = ask[j].user
      BY <1>1, <1>6, <3>2
    <3>3. CASE ask[j].user \in global
      BY <1>1, <1>3, <1>8, <1>9, <1>10, <3>3
    <3> QED BY <3>1, <3>2, <3>3
  <2> QED BY <2>1, <2>2
<1>12. ASSUME NEW j \in Calls, Done(j, "session allow", "add")'
       PROVE  \/ ask'[j].user \in session'[ask'[j].name]
              \/ \E k \in Calls : Done(k, "session allow", "remove")'
                                  /\ ask'[k].user = ask'[j].user
                                  /\ ask'[k].name = ask'[j].name
  <2> DEFINE name == ask[j].name
  <2>a. ask[j] \in Changes /\ name \in Sessions
    <3>1. ask[j].what = "session allow"
      BY <1>1, <1>12, DoneMeans
    <3>2. ask[j] \in Requests \cup {Plain("nothing")}
      BY DEF IInv, SlashTypeOK
    <3>3. ask[j] \in Changes
      <4>1. \A what : Plain(what).what = what
        BY DEF Plain
      <4>2. "session allow" \notin Picks \cup Core \cup Own
                          \cup {"allow list", "autocomplete", "nothing"}
        BY DEF Picks, Core, Own
      <4>3. \/ ask[j] \in Changes
            \/ \E what \in Picks \cup Core \cup Own
                            \cup {"allow list", "autocomplete", "nothing"} :
                 ask[j] = Plain(what)
        <5> HIDE DEF name, r
        <5> QED BY <3>2 DEF Requests
      <4> QED BY <3>1, <4>1, <4>2, <4>3
    <3> QED BY <3>1, <3>3 DEF Changes
  <2>b. \A u : /\ r.op = "add" => (u \in Changed(session[name], r) <=>
                                    u \in session[name] \/ u = r.user)
               /\ r.op = "remove" => (u \in Changed(session[name], r) <=>
                                       u \in session[name] /\ u # r.user)
    BY DEF Changed
  <2>c. session'[name] = IF r.what = "session allow" /\ r.name = name
                         THEN Changed(session[name], r) ELSE session[name]
    BY <1>3, <1>9, <2>a
  <2>1. CASE j = i
    <3>1. r.what = "session allow" /\ r.op = "add"
      BY <1>1, <1>12, <2>1, DoneMeans
    <3> QED BY <1>1, <2>1, <2>b, <2>c, <3>1
  <2>2. CASE j # i
    <3>1. \/ ask[j].user \in session[name]
          \/ \E k \in Calls : Done(k, "session allow", "remove")
                              /\ ask[k].user = ask[j].user
                              /\ ask[k].name = name
      BY <1>7, <1>12, <2>2 DEF AddedStays
    <3>2. CASE \E k \in Calls : Done(k, "session allow", "remove")
                                /\ ask[k].user = ask[j].user
                                /\ ask[k].name = name
      BY <1>1, <1>6, <3>2
    <3>3. CASE ask[j].user \in session[name]
      BY <1>1, <1>8, <1>9, <2>b, <2>c, <3>3
    <3> QED BY <3>1, <3>2, <3>3
  <2> QED BY <2>1, <2>2
<1> QED BY <1>11, <1>12 DEF AddedStays

\* Of two changes of one list neither undoes the other, however many people and
\* interactions there are (AddGlobal, RemoveGlobal, AddSession, RemoveSession).
THEOREM NoChangeIsLost == SlashSpec => []AddedStays
<1>1. SlashInit => AddedStays
  BY DEF SlashInit, AddedStays, Done
<1>2. IInv /\ AddedStays /\ [SlashNext]_slashVars => AddedStays'
  <2> SUFFICES ASSUME IInv, AddedStays, [SlashNext]_slashVars PROVE AddedStays'
    OBVIOUS
  <2>1. ASSUME NEW i \in Calls, Arrive(i) PROVE AddedStays'
    BY <2>1, ArriveAdded
  <2>2. ASSUME NEW i \in Calls, Step(i) PROVE AddedStays'
    <3>1. CASE ChangeList(i)
      BY <3>1, ChangeAdded
    <3>2. CASE Quiet(i)
      BY <3>2, QuietAdded
    <3> QED BY <2>2, <3>1, <3>2 DEF Step, Quiet
  <2>3. CASE UNCHANGED slashVars
    BY <2>3 DEF AddedStays, Done, slashVars, store, request, history
  <2> QED BY <2>1, <2>2, <2>3 DEF SlashNext
<1> QED BY <1>1, <1>2, Invariance, PTL DEF SlashSpec

\* The gateway answers an interaction once, whatever Discord refuses, and it ends
\* without an answer only where Discord refused it; a long one is announced first.
THEOREM Answered == SlashSpec => []AnsweredOnce
<1>1. ToldOnce /\ NobodyIsLeftWaiting /\ CoreIsAnnounced => AnsweredOnce
  BY DEF AnsweredOnce
<1> QED BY <1>1, AtMostOnce, AllAnswered, Announced, PTL

\* Only who could be let in acts, and nobody on a locked store.
THEOREM AllowedAct == SlashSpec => []OnlyTheAllowedAct
<1>1. EffectsAreGated /\ LockedMeansNobody => OnlyTheAllowedAct
  BY DEF OnlyTheAllowedAct
<1> QED BY <1>1, Gated, Locked, PTL
=============================================================================
