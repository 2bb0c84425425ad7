----------------------------- MODULE ViewProofs ------------------------------
(***************************************************************************)
(* Theorems of View: what the progress message shows when edits are        *)
(* throttled and refused, that a frame tells the end of what happened and  *)
(* fits, that a summary counts each call, and that the parts of an answer  *)
(* make the answer; for any number of events, lines and tools, and any     *)
(* text.                                                                   *)
(***************************************************************************)
EXTENDS View, FiniteSetTheorems, SequenceTheorems, TLAPS

\* Once an edit went through, the view is dirty or the message shows all of it.
EditInv ==
  turn \in {"running", "abandoned"} /\ sent => dirty \/ shown.seen = seen

\* An interval with an edit in it has not gone by.
JustEdited == sinceEdit = "just now"
PaceInv == edits \in 0 .. 1 /\ (edits # 0 => JustEdited)

Line  == [head : Tools \cup {Thinking}, detail : Details \cup {NoDetail}]
Entry == [line : Line, count : Nat]

WindowInv ==
  /\ lines \in Seq(Entry) /\ lastLine \in Line /\ lastCount \in Nat
  /\ lastCount > 0 =>
       lines # <<>> /\ lines[Len(lines)] = [line |-> lastLine, count |-> lastCount]

-----------------------------------------------------------------------------
\* What a flush leaves, forced or not.
LEMMA FlushShows ==
  ASSUME NEW force \in BOOLEAN, flush(force)
  PROVE  dirty' \/ shown'.seen = seen'
<1>1. ASSUME Edited(force) PROVE shown'.seen = seen'
  BY <1>1 DEF Edited, render
<1>2. ASSUME Keep(TRUE) PROVE dirty'
  BY <1>2 DEF Keep
<1> QED BY <1>1, <1>2 DEF flush, Refused

LEMMA FlushPaced ==
  ASSUME PaceInv, NEW force \in BOOLEAN, flush(force)
  PROVE  PaceInv'
<1>1. CASE Edited(force) /\ Due(force)
  <2>1. JustEdited' /\ (force \/ ~JustEdited)
    BY <1>1 DEF Edited, Due, EditedAt, JustEdited
  <2>2. edits' = IF force THEN edits ELSE edits + 1
    BY <1>1 DEF Edited
  <2> QED BY <2>1, <2>2 DEF PaceInv
<1>2. CASE Keep(TRUE)
  <2>1. edits' = edits /\ JustEdited' = JustEdited
    BY <1>2 DEF Keep, JustEdited
  <2> QED BY <2>1 DEF PaceInv
<1> QED BY <1>1, <1>2 DEF flush, Refused

\* A line is pushed at the end of a window with room for one.
LEMMA PushKeeps ==
  ASSUME WindowInv, NEW line \in Line, push(line)
  PROVE  WindowInv'
<1> DEFINE again == lastCount > 0 /\ line = lastLine
           count == IF again THEN lastCount + 1 ELSE 1
           older == IF again THEN Front(lines) ELSE lines
           entry == [line |-> line, count |-> count]
           all   == Append(older, entry)
           from  == IF Len(all) > maxLines THEN 2 ELSE 1
<1>1. count \in Nat /\ count > 0
  BY DEF WindowInv
<1>2. older \in Seq(Entry)
  BY DEF WindowInv, Front
<1>3. entry \in Entry
  BY <1>1 DEF Entry
<1>4. /\ lastLine' = line /\ lastCount' = count
      /\ lines' = SubSeq(all, from, Len(all))
  BY DEF push
<1> HIDE DEF count, older, entry
<1>5. /\ all \in Seq(Entry) /\ Len(all) = Len(older) + 1
      /\ Len(all) \in Nat /\ all[Len(all)] = entry
  BY <1>2, <1>3
<1>6. from \in 1 .. Len(all)
  BY <1>2, <1>5, ViewAssumption DEF ViewAssumption
<1> HIDE DEF all, from
<1>7. /\ lines' \in Seq(Entry) /\ Len(lines') = Len(all) - from + 1
      /\ lines'[Len(lines')] = entry
  BY <1>4, <1>5, <1>6
<1>8. lines' # <<>>
  BY <1>5, <1>6, <1>7
<1> QED BY <1>1, <1>4, <1>7, <1>8 DEF WindowInv, entry

-----------------------------------------------------------------------------
LEMMA InitHolds == ViewInit => EditInv /\ PaceInv /\ WindowInv
<1> SUFFICES ASSUME ViewInit PROVE EditInv /\ PaceInv /\ WindowInv
  OBVIOUS
<1>1. EditInv /\ PaceInv
  BY DEF ViewInit, EditInv, PaceInv
<1>2. WindowInv
  BY DEF ViewInit, WindowInv, Bare, Line
<1> QED BY <1>1, <1>2

\* What the message shows.
LEMMA EditStep ==
  ASSUME EditInv, [ViewNext]_viewVars
  PROVE  EditInv'
<1> USE DEF EditInv
<1>1. CASE Status
  BY <1>1, FlushShows DEF Status
<1>2. CASE Chunk
  BY <1>2, FlushShows DEF Chunk
<1>3. CASE Reset
  <2>1. CASE sent
    BY <1>3, <2>1, FlushShows DEF Reset
  <2>2. CASE ~sent
    BY <1>3, <2>2 DEF Reset, edit
  <2> QED BY <2>1, <2>2
<1>4. CASE TimePasses
  BY <1>4 DEF TimePasses
<1>5. CASE Abandon
  <2>1. CASE dirty
    BY <1>5, <2>1, FlushShows DEF Abandon
  <2>2. CASE ~dirty
    BY <1>5, <2>2 DEF Abandon, edit
  <2> QED BY <2>1, <2>2
<1>6. CASE Reply
  BY <1>6 DEF Reply
<1>7. CASE PostPart \/ Finish \/ TidyPing
  BY <1>7 DEF PostPart, Finish, TidyPing
<1>8. CASE UNCHANGED viewVars
  BY <1>8 DEF viewVars, edit
<1> QED BY <1>1, <1>2, <1>3, <1>4, <1>5, <1>6, <1>7, <1>8 DEF ViewNext

\* How often it is edited.
LEMMA PaceStep ==
  ASSUME PaceInv, [ViewNext]_viewVars
  PROVE  PaceInv'
<1>1. CASE Status \/ Chunk
  BY <1>1, FlushPaced DEF Status, Chunk
<1>2. CASE Reset \/ Abandon
  <2>1. (\E force \in BOOLEAN : flush(force)) \/ UNCHANGED edit
    BY <1>2 DEF Reset, Abandon
  <2>2. UNCHANGED edit => edits' = edits /\ JustEdited' = JustEdited
    BY DEF edit, JustEdited
  <2> QED BY <2>1, <2>2, FlushPaced DEF PaceInv
<1>3. CASE TimePasses
  <2>1. edits' = 0
    BY <1>3 DEF TimePasses
  <2> QED BY <2>1 DEF PaceInv
<1>4. CASE Reply \/ PostPart \/ Finish \/ TidyPing \/ UNCHANGED viewVars
  <2>1. edits' = edits /\ JustEdited' = JustEdited
    BY <1>4 DEF Reply, PostPart, Finish, TidyPing, viewVars, edit, JustEdited
  <2> QED BY <2>1 DEF PaceInv
<1> QED BY <1>1, <1>2, <1>3, <1>4 DEF ViewNext

\* What the window holds.
LEMMA WindowStep ==
  ASSUME WindowInv, [ViewNext]_viewVars
  PROVE  WindowInv'
<1>1. CASE Status
  <2>1. PICK tool \in Tools, detail \in Details \cup {NoDetail} :
          push([head |-> tool,
                detail |-> IF level = "quiet" THEN NoDetail ELSE detail])
    BY <1>1 DEF Status
  <2>2. [head |-> tool,
         detail |-> IF level = "quiet" THEN NoDetail ELSE detail] \in Line
    BY DEF Line
  <2> QED BY <2>1, <2>2, PushKeeps
<1>2. CASE Chunk
  <2>1. PICK detail \in Details : push([head |-> Thinking, detail |-> detail])
    BY <1>2 DEF Chunk
  <2>2. [head |-> Thinking, detail |-> detail] \in Line
    BY DEF Line
  <2> QED BY <2>1, <2>2, PushKeeps
<1>3. CASE Reset
  BY <1>3 DEF Reset, ForgetLast, WindowInv, Bare, Line
<1>4. CASE TimePasses \/ Abandon \/ Reply \/ PostPart \/ Finish \/ TidyPing
  BY <1>4 DEF TimePasses, Abandon, Reply, PostPart, Finish, TidyPing, window,
              WindowInv
<1>5. CASE UNCHANGED viewVars
  BY <1>5 DEF viewVars, window, WindowInv
<1> QED BY <1>1, <1>2, <1>3, <1>4, <1>5 DEF ViewNext

-----------------------------------------------------------------------------
\* Nothing is held back once an edit went through and none is due: what was
\* refused or throttled leaves the view dirty (flush of progress.go).
THEOREM NothingHeldBack == ViewSpec => []CleanIsShown
<1>1. EditInv => CleanIsShown
  BY DEF EditInv, CleanIsShown
<1> QED BY <1>1, InitHolds, EditStep, PTL DEF ViewSpec

\* Of the edits Discord takes there is one in an interval, however many events
\* there are (flush).
THEOREM Paced == ViewSpec => []EditsArePaced
<1>1. PaceInv => EditsArePaced
  BY DEF PaceInv, EditsArePaced
<1> QED BY <1>1, InitHolds, PaceStep, PTL DEF ViewSpec

\* push never writes before the first line, and counts up the line it repeats
\* (push of progress.go).
THEOREM PushIsSafe == ViewSpec => []PushHasALine
<1>1. WindowInv => PushHasALine
  BY DEF WindowInv, PushHasALine, Last
<1> QED BY <1>1, InitHolds, WindowStep, PTL DEF ViewSpec

\* What was held back or refused is made up for, and of the edits Discord takes
\* there is one in an interval (flush).
THEOREM Keeping == ViewSpec => []KeepsUp
<1>1. CleanIsShown /\ EditsArePaced => KeepsUp
  BY DEF KeepsUp
<1> QED BY <1>1, NothingHeldBack, Paced, PTL
-----------------------------------------------------------------------------
(* The summary.                                                            *)

\* A set of numbers has a least element, and Min is it.
LEMMA LeastElement ==
  ASSUME NEW T, T \subseteq Nat, T # {}
  PROVE  /\ Min(T) \in T
         /\ \A m \in T : Min(T) <= m
<1> DEFINE Upto == {0 .. n : n \in T}
<1>1. Upto \subseteq FiniteSubsetsOf(Nat)
  <2>1. \A n \in T : 0 .. n \subseteq Nat /\ IsFiniteSet(0 .. n)
    BY FS_Interval
  <2> QED BY <2>1 DEF FiniteSubsetsOf
<1>2. PICK x \in Upto : \A y \in Upto : ~ (<<y, x>> \in StrictSubsetOrdering(Nat))
  <2>1. Upto # {}
    OBVIOUS
  <2> HIDE DEF Upto
  <2> QED BY <1>1, <2>1, WFMin, FS_StrictSubsetOrderingWellFounded
<1>3. PICK n \in T : x = 0 .. n
  OBVIOUS
<1>4. ASSUME NEW m \in T, m < n PROVE FALSE
  <2>1. n \in Nat /\ m \in Nat
    OBVIOUS
  <2>2. /\ 0 .. m \subseteq 0 .. n /\ 0 .. m # 0 .. n
        /\ 0 .. m \in SUBSET Nat /\ 0 .. n \in SUBSET Nat
    BY <1>4, <2>1
  <2>3. << 0 .. m, 0 .. n >> \in StrictSubsetOrdering(Nat)
    BY <2>2 DEF StrictSubsetOrdering
  <2> QED BY <2>3, <1>2, <1>3
<1>5. \A m \in T : n <= m
  BY <1>4, <1>3
<1> QED BY <1>5 DEF Min

\* Where a sequence has an element, and what that says of how often and where
\* it has it first.
Places(all, x) == {i \in DOMAIN all : all[i] = x}

LEMMA NoPlaces == \A x : Places(<<>>, x) = {} /\ Cardinality(Places(<<>>, x)) = 0
<1>1. \A x : Places(<<>>, x) = {}
  BY DEF Places
<1> QED BY <1>1, FS_EmptySet

\* One more element.
LEMMA PlacesGrow ==
  ASSUME NEW S, NEW all \in Seq(S), NEW y \in S, NEW x
  PROVE  /\ Places(Append(all, y), x) =
              IF x = y THEN Places(all, x) \cup {Len(all) + 1} ELSE Places(all, x)
         /\ Places(all, x) \subseteq 1 .. Len(all)
         /\ IsFiniteSet(Places(all, x))
<1>1. Places(all, x) \subseteq 1 .. Len(all)
  BY DEF Places
<1>2. IsFiniteSet(Places(all, x))
  BY <1>1, FS_Interval, FS_Subset
<1>3. /\ DOMAIN Append(all, y) = 1 .. Len(all) + 1
      /\ \A i \in 1 .. Len(all) : Append(all, y)[i] = all[i]
      /\ Append(all, y)[Len(all) + 1] = y
      /\ DOMAIN all = 1 .. Len(all) /\ Len(all) \in Nat
  OBVIOUS
<1>4. 1 .. Len(all) + 1 = (1 .. Len(all)) \cup {Len(all) + 1}
  BY <1>3
<1> QED BY <1>1, <1>2, <1>3, <1>4 DEF Places

\* The tally is the one of the tools since the last reset.
TallyInv ==
  /\ used \in Seq(Tools) /\ order \in Seq(Tools)
  /\ actions = Len(used) /\ counts \in [Tools -> Nat]
  /\ \A x \in Tools : counts[x] = Cardinality(Places(used, x))
  /\ \A x \in Tools : Places(order, x) = {} <=> Places(used, x) = {}
  /\ \A i, j \in DOMAIN order :
       i < j => Min(Places(used, order[i])) < Min(Places(used, order[j]))

\* A summary is shown once nothing is added to the tally any more.
SummaryInv == ~Frames => shown = summary /\ turn \in {"answered", "over"}

LEMMA TallyInit == ViewInit => TallyInv /\ SummaryInv
<1> SUFFICES ASSUME ViewInit PROVE TallyInv /\ SummaryInv
  OBVIOUS
<1>1. TallyInv
  <2>1. used = <<>> /\ order = <<>> /\ actions = 0 /\ counts = [t \in Tools |-> 0]
    BY DEF ViewInit
  <2>2. actions = Len(used) /\ DOMAIN order = {}
    BY <2>1
  <2> QED BY <2>1, <2>2, NoPlaces DEF TallyInv
<1>2. Frames
  BY DEF ViewInit, Frames, Nowhere
<1> QED BY <1>1, <1>2 DEF SummaryInv

\* A tool is used once more.
LEMMA TallyGrows ==
  ASSUME TallyInv, NEW tool \in Tools,
         counts' = [counts EXCEPT ![tool] = @ + 1],
         order' = IF counts[tool] = 0 THEN Append(order, tool) ELSE order,
         used' = Append(used, tool), actions' = actions + 1
  PROVE  TallyInv'
<1> DEFINE n == Len(used)
<1>1. n \in Nat /\ used' \in Seq(Tools) /\ order' \in Seq(Tools)
  BY DEF TallyInv
<1>2. actions' = Len(used') /\ counts' \in [Tools -> Nat]
  BY <1>1 DEF TallyInv
<1>3. \A x \in Tools :
        /\ Places(used', x) = IF x = tool THEN Places(used, x) \cup {n + 1}
                                           ELSE Places(used, x)
        /\ Places(used, x) \subseteq 1 .. n /\ IsFiniteSet(Places(used, x))
  BY PlacesGrow DEF TallyInv
<1>4. \A x \in Tools : Cardinality(Places(used', x)) =
                         IF x = tool THEN Cardinality(Places(used, x)) + 1
                                     ELSE Cardinality(Places(used, x))
  <2> TAKE x \in Tools
  <2>1. n + 1 \notin Places(used, x)
    BY <1>1, <1>3
  <2> QED BY <1>3, <2>1, FS_AddElement
<1>5. \A x \in Tools : counts'[x] = Cardinality(Places(used', x))
  BY <1>4 DEF TallyInv
<1>6. counts[tool] = 0 <=> Places(used, tool) = {}
  BY <1>3, FS_EmptySet DEF TallyInv
<1>7. \A x \in Tools : Places(used, x) # {} =>
        /\ Places(used', x) # {} /\ Min(Places(used, x)) \in 1 .. n
        /\ Min(Places(used', x)) = Min(Places(used, x))
  <2> TAKE x \in Tools
  <2> HAVE Places(used, x) # {}
  <2>1. Places(used, x) \subseteq Nat /\ Places(used', x) \subseteq Nat
    <3>1. /\ Places(used, x) \subseteq 1 .. n
          /\ Places(used', x) \subseteq Places(used, x) \cup {n + 1}
      BY <1>3
    <3>2. 1 .. n \subseteq Nat /\ n + 1 \in Nat
      BY <1>1
    <3> QED BY <3>1, <3>2
  <2>2. /\ Min(Places(used, x)) \in Places(used, x)
        /\ \A m \in Places(used, x) : Min(Places(used, x)) <= m
    BY <2>1, LeastElement
  <2>3. /\ Min(Places(used', x)) \in Places(used', x)
        /\ \A m \in Places(used', x) : Min(Places(used', x)) <= m
    <3>1. Places(used', x) # {}
      BY <1>3
    <3> QED BY <2>1, <3>1, LeastElement
  <2> DEFINE a == Min(Places(used, x))
             b == Min(Places(used', x))
  <2>4. a \in 1 .. n /\ a \in Places(used', x)
    BY <1>3, <2>2
  <2>5. b <= a /\ b \in Nat /\ a \in Nat
    BY <2>1, <2>2, <2>3, <2>4
  <2>6. b \in Places(used, x)
    BY <1>1, <1>3, <2>3, <2>4, <2>5
  <2>7. a <= b
    BY <2>2, <2>6
  <2> HIDE DEF a, b
  <2>8. a = b
    BY <2>5, <2>7
  <2> QED BY <1>3, <2>4, <2>8 DEF a, b
<1>8. CASE counts[tool] = 0
  <2>1. order' = Append(order, tool) /\ Places(used, tool) = {}
    BY <1>6, <1>8
  <2>2. \A x \in Tools : Places(order', x) = IF x = tool
                           THEN Places(order, x) \cup {Len(order) + 1}
                           ELSE Places(order, x)
    <3>1. order \in Seq(Tools)
      BY DEF TallyInv
    <3>2. \A x \in Tools : Places(Append(order, tool), x) = IF x = tool
                           THEN Places(order, x) \cup {Len(order) + 1}
                           ELSE Places(order, x)
      BY <3>1, PlacesGrow
    <3> QED BY <2>1, <3>2
  <2>3. \A x \in Tools : Places(order', x) = {} <=> Places(used', x) = {}
    BY <1>3, <2>2 DEF TallyInv
  <2>4. Places(used', tool) = {n + 1}
    BY <1>3, <2>1
  <2>5. Min(Places(used', tool)) = n + 1
    <3>1. {n + 1} \subseteq Nat /\ {n + 1} # {}
      BY <1>1
    <3> QED BY <2>4, <3>1, LeastElement
  <2>6. /\ Len(order) \in Nat /\ DOMAIN order = 1 .. Len(order)
        /\ DOMAIN order' = 1 .. Len(order) + 1
        /\ order'[Len(order) + 1] = tool
        /\ \A i \in DOMAIN order : order'[i] = order[i] /\ order[i] \in Tools
    BY <2>1 DEF TallyInv
  <2>7. \A i \in DOMAIN order : Places(used, order[i]) # {}
    <3> TAKE i \in DOMAIN order
    <3>1. i \in Places(order, order[i])
      BY DEF Places
    <3> QED BY <2>6, <3>1 DEF TallyInv
  <2>8. ASSUME NEW i \in DOMAIN order', NEW j \in DOMAIN order', i < j
        PROVE  Min(Places(used', order'[i])) < Min(Places(used', order'[j]))
    <3>1. i \in DOMAIN order
      BY <2>6, <2>8
    <3>2. CASE j \in DOMAIN order
      BY <1>7, <2>6, <2>7, <2>8, <3>1, <3>2 DEF TallyInv
    <3>3. CASE j = Len(order) + 1
      <4>1. Min(Places(used', order'[i])) \in 1 .. n
        BY <1>7, <2>6, <2>7, <3>1
      <4> QED BY <1>1, <2>5, <2>6, <3>3, <4>1
    <3> QED BY <2>6, <3>2, <3>3
  <2> QED BY <1>1, <1>2, <1>5, <2>3, <2>8 DEF TallyInv
<1>9. CASE counts[tool] # 0
  <2>1. order' = order /\ Places(used, tool) # {}
    BY <1>6, <1>9
  <2>2. \A x \in Tools : Places(order', x) = {} <=> Places(used', x) = {}
    BY <1>3, <2>1 DEF TallyInv
  <2>3. \A i \in DOMAIN order : order[i] \in Tools /\ Places(used, order[i]) # {}
    <3> TAKE i \in DOMAIN order
    <3>1. i \in Places(order, order[i]) /\ order[i] \in Tools
      BY DEF Places, TallyInv
    <3> QED BY <3>1 DEF TallyInv
  <2>4. \A i, j \in DOMAIN order' :
          i < j => Min(Places(used', order'[i])) < Min(Places(used', order'[j]))
    BY <1>7, <2>1, <2>3 DEF TallyInv
  <2> QED BY <1>1, <1>2, <1>5, <2>2, <2>4 DEF TallyInv
<1> QED BY <1>8, <1>9

LEMMA TallyStep ==
  ASSUME TallyInv, [ViewNext]_viewVars
  PROVE  TallyInv'
<1>1. CASE Status
  BY <1>1, TallyGrows DEF Status
<1>2. CASE Reset
  <2>1. used' = <<>> /\ order' = <<>> /\ actions' = 0
        /\ counts' = [t \in Tools |-> 0]
    BY <1>2 DEF Reset, ForgetTally
  <2>2. actions' = Len(used') /\ DOMAIN order' = {}
    BY <2>1
  <2> QED BY <2>1, <2>2, NoPlaces DEF TallyInv
<1>3. CASE Chunk \/ TimePasses \/ Abandon \/ Reply \/ PostPart \/ Finish
           \/ TidyPing \/ UNCHANGED viewVars
  <2>1. UNCHANGED <<counts, order, actions, used>>
    BY <1>3 DEF Chunk, TimePasses, Abandon, Reply, PostPart, Finish, TidyPing,
         viewVars, tally
  <2> QED BY <2>1 DEF TallyInv
<1> QED BY <1>1, <1>2, <1>3 DEF ViewNext

\* A flush shows lines, or what was shown.
LEMMA FlushFrames ==
  ASSUME NEW force \in BOOLEAN, flush(force), Frames
  PROVE  Frames'
<1>1. ASSUME Edited(force) PROVE Frames'
  BY <1>1 DEF Edited, render, Frames
<1>2. ASSUME Keep(TRUE) PROVE Frames'
  BY <1>2 DEF Keep, Frames
<1> QED BY <1>1, <1>2 DEF flush, Refused

LEMMA SummaryStep ==
  ASSUME SummaryInv, [ViewNext]_viewVars
  PROVE  SummaryInv'
<1>1. CASE Status \/ Chunk
  <2>1. Frames
    BY <1>1 DEF Status, Chunk, Event, SummaryInv
  <2> QED BY <1>1, <2>1, FlushFrames DEF Status, Chunk, SummaryInv
<1>2. CASE Reset \/ Abandon
  <2>1. Frames
    BY <1>2 DEF Reset, Abandon, Event, SummaryInv
  <2>2. (\E force \in BOOLEAN : flush(force)) \/ shown' = shown
    BY <1>2 DEF Reset, Abandon, edit
  <2> QED BY <2>1, <2>2, FlushFrames DEF SummaryInv, Frames
<1>3. CASE TimePasses \/ Reply \/ PostPart
  <2>1. shown' = shown /\ turn \notin {"answered", "over"}
    BY <1>3 DEF TimePasses, Reply, PostPart, edit
  <2> QED BY <2>1 DEF SummaryInv, Frames
<1>4. CASE Finish
  <2>1. shown' \in {shown, summary} /\ turn' = "answered" /\ turn = "answering"
        /\ summary' = summary
    BY <1>4 DEF Finish, summary, tally
  <2> QED BY <2>1 DEF SummaryInv, Frames
<1>5. CASE TidyPing \/ UNCHANGED viewVars
  <2>1. shown' = shown /\ summary' = summary
        /\ (turn \in {"answered", "over"} => turn' \in {"answered", "over"})
    BY <1>5 DEF TidyPing, viewVars, edit, tally, summary
  <2> QED BY <2>1 DEF SummaryInv, Frames
<1> QED BY <1>1, <1>2, <1>3, <1>4, <1>5 DEF ViewNext

\* The summary names every tool used since the last reset once, in the order of
\* their first uses, with how often, whatever number of them (finish, onStatus,
\* onReset of sink.go and progress.go).
THEOREM SummaryIsTrue == ViewSpec => []SummaryCounts
<1>1. TallyInv /\ SummaryInv => SummaryCounts
  <2> SUFFICES ASSUME TallyInv, SummaryInv, ~Frames PROVE SummaryCounts
    BY DEF SummaryCounts
  <2>1. shown.order = order /\ shown.counts = counts /\ shown.actions = actions
    BY DEF SummaryInv, summary
  <2>2. /\ \A tool : Times(tool) = Cardinality(Places(used, tool))
        /\ \A tool : First(tool) = Min(Places(used, tool))
    BY DEF Times, First, Places
  <2>3. \A x \in Tools : x \in ToSet(order) <=> x \in ToSet(used)
    BY DEF ToSet, Places, TallyInv
  <2>4. ToSet(order) \subseteq Tools /\ ToSet(used) \subseteq Tools
    BY DEF ToSet, TallyInv
  <2>5. ToSet(order) = ToSet(used)
    BY <2>3, <2>4
  <2> QED BY <2>1, <2>2, <2>5 DEF SummaryCounts, TallyInv
<1> QED BY <1>1, TallyInit, TallyStep, SummaryStep, PTL DEF ViewSpec

-----------------------------------------------------------------------------
(* The frame.                                                              *)

\* Entries tell the end of what happened, all of it unless it is cut: the entry i
\* stands for the events from start[i] up to start[i + 1].
Tells(entries, all, cut, start) ==
  /\ start \in [1 .. Len(entries) + 1 -> Nat \ {0}]
  /\ start[Len(entries) + 1] = Len(all) + 1
  /\ \A i, j \in 1 .. Len(entries) + 1 : i <= j => start[i] <= start[j]
  /\ \A i \in 1 .. Len(entries) :
       /\ start[i + 1] = start[i] + entries[i].count
       /\ \A k \in start[i] .. start[i + 1] - 1 : all[k] = entries[i].line
  /\ cut \/ start[1] = 1

\* The window tells the end of what was pushed since the last reset.
HistoryInv ==
  /\ seen \in Seq(Line) /\ elided \in BOOLEAN
  /\ \E start : Tells(lines, seen, elided, start)

FrameInv == ShownIsTheEnd /\ ShownFits

LEMMA NothingTold ==
  /\ <<>> \in Seq(Entry) /\ <<>> \in Seq(Line)
  /\ \E start : Tells(<<>>, <<>>, FALSE, start)
<1> DEFINE start == [i \in 1 .. 1 |-> 1]
<1>1. Tells(<<>>, <<>>, FALSE, start)
  BY DEF Tells
<1>2. <<>> \in Seq(Entry) /\ <<>> \in Seq(Line)
  OBVIOUS
<1> HIDE DEF start
<1> QED BY <1>1, <1>2

\* Leaving entries out from the top.
LEMMA CutTells ==
  ASSUME NEW entries \in Seq(Entry), NEW all \in Seq(Line), NEW cut \in BOOLEAN,
         NEW start, Tells(entries, all, cut, start), NEW j \in 0 .. Len(entries)
  PROVE  /\ SubSeq(entries, j + 1, Len(entries)) \in Seq(Entry)
         /\ Tells(SubSeq(entries, j + 1, Len(entries)), all, cut \/ j > 0,
                  [i \in 1 .. Len(entries) - j + 1 |-> start[i + j]])
<1> DEFINE n == Len(entries)
           rest == SubSeq(entries, j + 1, n)
           from == [i \in 1 .. n - j + 1 |-> start[i + j]]
<1>1. n \in Nat /\ j \in Nat /\ j <= n
  OBVIOUS
<1>2. rest \in Seq(Entry) /\ Len(rest) = n - j
  BY <1>1
<1>3. \A i \in 1 .. n - j : rest[i] = entries[i + j]
  BY <1>1
<1>4. \A i \in 1 .. n - j + 1 : i + j \in 1 .. n + 1 /\ from[i] = start[i + j]
  BY <1>1
<1>5. \A i \in 1 .. n - j : /\ i + j \in 1 .. n /\ i + 1 \in 1 .. n - j + 1
                            /\ (i + 1) + j = (i + j) + 1
  BY <1>1
<1>6. /\ start \in [1 .. n + 1 -> Nat \ {0}] /\ start[n + 1] = Len(all) + 1
      /\ \A i, m \in 1 .. n + 1 : i <= m => start[i] <= start[m]
      /\ \A i \in 1 .. n :
           /\ start[i + 1] = start[i] + entries[i].count
           /\ \A k \in start[i] .. start[i + 1] - 1 : all[k] = entries[i].line
      /\ cut \/ start[1] = 1
  BY DEF Tells
<1> HIDE DEF rest
<1>7. from \in [1 .. Len(rest) + 1 -> Nat \ {0}]
  BY <1>2, <1>4, <1>6
<1>8. from[Len(rest) + 1] = Len(all) + 1
  <2>1. n - j + 1 \in 1 .. n - j + 1 /\ (n - j + 1) + j = n + 1
    BY <1>1
  <2> QED BY <1>2, <1>4, <1>6, <2>1
<1>9. \A i, m \in 1 .. Len(rest) + 1 : i <= m => from[i] <= from[m]
  <2> TAKE i, m \in 1 .. Len(rest) + 1
  <2> HAVE i <= m
  <2>1. i + j \in 1 .. n + 1 /\ m + j \in 1 .. n + 1 /\ i + j <= m + j
    BY <1>1, <1>2, <1>4
  <2> QED BY <1>2, <1>4, <1>6, <2>1
<1>10. ASSUME NEW i \in 1 .. Len(rest)
       PROVE  /\ from[i + 1] = from[i] + rest[i].count
              /\ \A k \in from[i] .. from[i + 1] - 1 : all[k] = rest[i].line
  <2>1. /\ from[i] = start[i + j] /\ from[i + 1] = start[(i + j) + 1]
        /\ rest[i] = entries[i + j] /\ i + j \in 1 .. n
    <3>1. i \in 1 .. n - j /\ i \in 1 .. n - j + 1
      BY <1>1, <1>2
    <3> QED BY <1>3, <1>4, <1>5, <3>1
  <2> HIDE DEF from
  <2> QED BY <2>1, <1>6
<1>11. cut \/ j > 0 \/ from[1] = 1
  BY <1>1, <1>4, <1>6
<1> HIDE DEF from
<1>12. Tells(rest, all, cut \/ j > 0, from)
  BY <1>7, <1>8, <1>9, <1>10, <1>11 DEF Tells
<1> QED BY <1>2, <1>12 DEF rest, from

\* Counting the last entry up, or one more entry.
LEMMA PushTells ==
  ASSUME NEW entries \in Seq(Entry), NEW all \in Seq(Line), NEW cut \in BOOLEAN,
         NEW start, Tells(entries, all, cut, start),
         NEW line \in Line, NEW longer \in Seq(Entry), longer # <<>>,
         Len(longer) - 1 <= Len(entries),
         \A i \in 1 .. Len(longer) - 1 : longer[i] = entries[i],
         longer[Len(longer)].line = line,
         \/ Len(longer) = Len(entries) + 1 /\ longer[Len(longer)].count = 1
         \/ /\ Len(longer) = Len(entries) /\ entries[Len(entries)].line = line
            /\ longer[Len(longer)].count = entries[Len(entries)].count + 1
  PROVE  Append(all, line) \in Seq(Line)
         /\ \E from : Tells(longer, Append(all, line), cut, from)
<1> DEFINE n == Len(entries)
           m == Len(longer)
           more == Append(all, line)
           from == [i \in 1 .. m + 1 |-> IF i <= m THEN start[i] ELSE Len(all) + 2]
<1>1. n \in Nat /\ m \in Nat /\ m > 0 /\ (m = n \/ m = n + 1)
  OBVIOUS
<1>2. /\ more \in Seq(Line) /\ Len(more) = Len(all) + 1 /\ Len(all) \in Nat
      /\ \A k \in 1 .. Len(all) : more[k] = all[k]
      /\ more[Len(all) + 1] = line
  OBVIOUS
<1>3. /\ start \in [1 .. n + 1 -> Nat \ {0}] /\ start[n + 1] = Len(all) + 1
      /\ \A i, j \in 1 .. n + 1 : i <= j => start[i] <= start[j]
      /\ \A i \in 1 .. n :
           /\ start[i + 1] = start[i] + entries[i].count
           /\ \A k \in start[i] .. start[i + 1] - 1 : all[k] = entries[i].line
      /\ cut \/ start[1] = 1
  BY DEF Tells
<1>4. \A i \in 1 .. m : i \in 1 .. n + 1 /\ start[i] \in Nat \ {0}
                        /\ start[i] <= Len(all) + 1 /\ from[i] = start[i]
  <2> TAKE i \in 1 .. m
  <2>1. i \in 1 .. n + 1 /\ n + 1 \in 1 .. n + 1 /\ i <= n + 1
    BY <1>1
  <2>2. start[i] <= start[n + 1]
    BY <1>3, <2>1
  <2>3. start[i] \in Nat \ {0}
    BY <1>3, <2>1
  <2>4. from[i] = start[i]
    BY <1>1
  <2> QED BY <1>3, <2>1, <2>2, <2>3, <2>4
<1>5. from[m + 1] = Len(all) + 2
  BY <1>1
<1>6. from \in [1 .. m + 1 -> Nat \ {0}]
  <2>1. Len(all) + 2 \in Nat \ {0}
    BY <1>2
  <2>2. \A i \in 1 .. m + 1 : from[i] \in Nat \ {0}
    <3> TAKE i \in 1 .. m + 1
    <3>1. i \in 1 .. m \/ i = m + 1
      BY <1>1
    <3> HIDE DEF from
    <3> QED BY <1>4, <1>5, <2>1, <3>1
  <2> QED BY <2>2
<1> HIDE DEF more
<1>7. \A i, j \in 1 .. m + 1 : i <= j => from[i] <= from[j]
  <2> TAKE i, j \in 1 .. m + 1
  <2> HAVE i <= j
  <2> HIDE DEF from
  <2>1. CASE j <= m
    <3>1. i \in 1 .. m /\ j \in 1 .. m
      BY <1>1, <2>1
    <3> QED BY <1>3, <1>4, <3>1
  <2>2. CASE j = m + 1 /\ i = m + 1
    BY <1>2, <1>5, <2>2
  <2>3. CASE j = m + 1 /\ i # m + 1
    <3>1. i \in 1 .. m
      BY <1>1, <2>3
    <3>2. from[i] \in Nat /\ from[i] <= Len(all) + 1
      BY <1>4, <3>1
    <3>3. from[j] = Len(all) + 2
      BY <1>5, <2>3
    <3> QED BY <1>2, <3>2, <3>3
  <2> QED BY <1>1, <2>1, <2>2, <2>3
<1>8. ASSUME NEW i \in 1 .. m - 1
      PROVE  /\ from[i + 1] = from[i] + longer[i].count
             /\ \A k \in from[i] .. from[i + 1] - 1 : more[k] = longer[i].line
  <2>1. /\ i \in 1 .. m /\ i + 1 \in 1 .. m /\ i \in 1 .. n
        /\ longer[i] = entries[i]
    BY <1>1
  <2>2. from[i] = start[i] /\ from[i + 1] = start[i + 1]
    BY <1>4, <2>1
  <2>3. start[i] \in Nat \ {0} /\ start[i + 1] \in Nat /\ start[i + 1] <= Len(all) + 1
    BY <1>4, <2>1
  <2> HIDE DEF from
  <2>4. \A k \in start[i] .. start[i + 1] - 1 : more[k] = all[k]
    <3> TAKE k \in start[i] .. start[i + 1] - 1
    <3>1. k \in 1 .. Len(all)
      BY <1>2, <2>3
    <3> QED BY <1>2, <3>1
  <2> QED BY <1>3, <2>1, <2>2, <2>4
<1>9. /\ from[m + 1] = from[m] + longer[m].count
      /\ \A k \in from[m] .. from[m + 1] - 1 : more[k] = longer[m].line
  <2>1. m \in 1 .. m /\ from[m] = start[m]
    BY <1>1, <1>4
  <2>2. CASE m = n + 1 /\ longer[m].count = 1
    <3>1. from[m] = Len(all) + 1
      BY <1>3, <2>1, <2>2
    <3>2. \A k \in from[m] .. from[m + 1] - 1 : k = Len(all) + 1
      BY <1>2, <1>5, <3>1
    <3> HIDE DEF from
    <3> QED BY <1>2, <1>5, <2>2, <3>1, <3>2
  <2>3. CASE m = n /\ entries[n].line = line /\ longer[m].count = entries[n].count + 1
    <3>1. /\ n \in 1 .. n /\ start[n + 1] = start[n] + entries[n].count
          /\ \A k \in start[n] .. start[n + 1] - 1 : all[k] = entries[n].line
      <4>1. n \in 1 .. n
        BY <1>1, <2>3
      <4> QED BY <1>3, <4>1
    <3>2. start[n] \in Nat \ {0} /\ entries[n].count \in Nat
      <4>1. entries[n] \in Entry
        BY <3>1
      <4> QED BY <1>4, <2>1, <2>3, <4>1 DEF Entry
    <3>3. \A k \in from[m] .. from[m + 1] - 1 : more[k] = line
      <4> TAKE k \in from[m] .. from[m + 1] - 1
      <4>1. k \in start[n] .. Len(all) + 1
        BY <1>2, <1>5, <2>1, <2>3, <3>2
      <4>2. CASE k = Len(all) + 1
        BY <1>2, <4>2
      <4>3. CASE k \in start[n] .. Len(all)
        <5>1. k \in start[n] .. start[n + 1] - 1 /\ k \in 1 .. Len(all)
          BY <1>2, <1>3, <3>2, <4>3
        <5> QED BY <1>2, <2>3, <3>1, <5>1
      <4> QED BY <1>2, <3>2, <4>1, <4>2, <4>3
    <3>4. from[m + 1] = from[m] + longer[m].count
      <4>1. Len(all) + 1 = start[n] + entries[n].count
        BY <1>3, <3>1
      <4>2. from[m] = start[n] /\ longer[m].count = entries[n].count + 1
        BY <2>1, <2>3
      <4> HIDE DEF from, m, n
      <4> QED BY <1>2, <1>5, <3>2, <4>1, <4>2
    <3> QED BY <3>3, <3>4
  <2> QED BY <2>2, <2>3
<1>10. cut \/ from[1] = 1
  BY <1>1, <1>3, <1>4
<1> HIDE DEF from
<1>11. \A i \in 1 .. m : i \in 1 .. m - 1 \/ i = m
  BY <1>1
<1>12. Tells(longer, more, cut, from)
  BY <1>2, <1>5, <1>6, <1>7, <1>8, <1>9, <1>10, <1>11 DEF Tells
<1> QED BY <1>2, <1>12 DEF more

\* The end of a sequence is a suffix of it.
LEMMA EndIsSuffix ==
  ASSUME NEW all \in Seq(Line), NEW a \in 1 .. Len(all) + 1
  PROVE  IsSuffix(SubSeq(all, a, Len(all)), all)
<1> DEFINE n == Len(all)
           end == SubSeq(all, a, n)
<1>1. n \in Nat /\ a \in Nat
  OBVIOUS
<1>2. end \in Seq(Line) /\ Len(end) = n - a + 1
  BY <1>1
<1>3. \A i \in 1 .. n - a + 1 : end[i] = all[i + a - 1]
  BY <1>1
<1> HIDE DEF end
<1>4. /\ Reverse(end) \in Seq(Line) /\ Len(Reverse(end)) = n - a + 1
      /\ \A i \in 1 .. n - a + 1 : Reverse(end)[i] = end[n - a + 1 - i + 1]
  BY <1>1, <1>2 DEF Reverse
<1>5. /\ Reverse(all) \in Seq(Line) /\ Len(Reverse(all)) = n
      /\ \A i \in 1 .. n : Reverse(all)[i] = all[n - i + 1]
  BY <1>1 DEF Reverse
<1>6. \A i \in 1 .. n - a + 1 : Reverse(end)[i] = Reverse(all)[i]
  <2> TAKE i \in 1 .. n - a + 1
  <2>1. /\ n - a + 1 - i + 1 \in 1 .. n - a + 1 /\ i \in 1 .. n
        /\ (n - a + 1 - i + 1) + a - 1 = n - i + 1
    BY <1>1
  <2> QED BY <1>3, <1>4, <1>5, <2>1
<1>7. n - a + 1 \in Nat /\ n - a + 1 <= n
  BY <1>1
<1>8. SubSeq(Reverse(end), 1, n - a + 1) = SubSeq(Reverse(all), 1, n - a + 1)
  BY <1>4, <1>5, <1>6, <1>7
<1> QED BY <1>4, <1>5, <1>7, <1>8 DEF IsSuffix, IsPrefix, end

\* What entries tell, written out, is that end.
LEMMA TellsTheEnd ==
  ASSUME NEW entries \in Seq(Entry), NEW all \in Seq(Line), NEW cut \in BOOLEAN,
         NEW start, Tells(entries, all, cut, start)
  PROVE  /\ IsSuffix(Expanded(entries), all)
         /\ ~cut => Expanded(entries) = all
<1> DEFINE n == Len(entries)
           runs == [i \in DOMAIN entries |->
                      [j \in 1 .. entries[i].count |-> entries[i].line]]
           sofar == [i \in 1 .. n |-> SubSeq(all, start[1], start[i + 1] - 1)]
<1>1. n \in Nat /\ DOMAIN entries = 1 .. n
  OBVIOUS
<1>2. \A i \in 1 .. n : entries[i].count \in Nat /\ entries[i].line \in Line
  <2>1. \A i \in 1 .. n : entries[i] \in Entry
    OBVIOUS
  <2> QED BY <2>1 DEF Entry
<1>3. \A i \in 1 .. n : runs[i] \in Seq(Line) /\ Len(runs[i]) = entries[i].count
  BY <1>1, <1>2
<1>4. runs \in Seq(Seq(Line)) /\ Len(runs) = n
  BY <1>1, <1>3
<1>5. /\ start \in [1 .. n + 1 -> Nat \ {0}] /\ start[n + 1] = Len(all) + 1
      /\ \A i, m \in 1 .. n + 1 : i <= m => start[i] <= start[m]
      /\ \A i \in 1 .. n :
           /\ start[i + 1] = start[i] + entries[i].count
           /\ \A k \in start[i] .. start[i + 1] - 1 : all[k] = entries[i].line
      /\ cut \/ start[1] = 1
  BY DEF Tells
<1>6. \A i \in 1 .. n + 1 : start[i] \in Nat \ {0} /\ start[1] <= start[i]
                            /\ start[i] <= Len(all) + 1
  <2> TAKE i \in 1 .. n + 1
  <2>1. 1 \in 1 .. n + 1 /\ n + 1 \in 1 .. n + 1 /\ 1 <= i /\ i <= n + 1
    BY <1>1
  <2> QED BY <1>5, <2>1
<1>7. \A i \in 1 .. n : runs[i] = SubSeq(all, start[i], start[i + 1] - 1)
  <2> TAKE i \in 1 .. n
  <2> DEFINE a == start[i]
             b == start[i + 1] - 1
  <2>1. i + 1 \in 1 .. n + 1 /\ i \in 1 .. n + 1
    BY <1>1
  <2>2. a \in Nat \ {0} /\ b \in Nat /\ b <= Len(all) /\ b - a + 1 = entries[i].count
    BY <1>2, <1>5, <1>6, <2>1
  <2>3. \A k \in a .. b : all[k] = entries[i].line
    BY <1>5
  <2> HIDE DEF a, b
  <2>4. /\ SubSeq(all, a, b) \in Seq(Line) /\ Len(SubSeq(all, a, b)) = b - a + 1
        /\ \A j \in 1 .. b - a + 1 : SubSeq(all, a, b)[j] = all[a + j - 1]
    <3>1. \A k \in a .. b : all[k] \in Line
      BY <2>3, <1>2
    <3>2. a <= b + 1
      BY <1>2, <2>2
    <3> QED BY <2>2, <3>1, <3>2
  <2>5. \A j \in 1 .. b - a + 1 : SubSeq(all, a, b)[j] = runs[i][j]
    <3> TAKE j \in 1 .. b - a + 1
    <3>1. a + j - 1 \in a .. b /\ j \in 1 .. entries[i].count
      BY <2>2
    <3> QED BY <1>1, <2>3, <2>4, <3>1
  <2>6. runs[i] = SubSeq(all, a, b)
    <3> HIDE DEF runs
    <3> QED BY <1>3, <2>2, <2>4, <2>5, SeqEqual
  <2> QED BY <2>6 DEF a, b
<1> HIDE DEF runs
<1>8. CASE n = 0
  <2>1. Expanded(entries) = runs
    BY <1>4, <1>8 DEF Expanded, FlattenSeq, runs
  <2>2. runs = <<>> /\ start[1] = Len(all) + 1
    BY <1>4, <1>5, <1>8
  <2>3. SubSeq(all, Len(all) + 1, Len(all)) = <<>>
    OBVIOUS
  <2>4. IsSuffix(Expanded(entries), all)
    <3>1. Len(all) + 1 \in 1 .. Len(all) + 1
      OBVIOUS
    <3>2. IsSuffix(SubSeq(all, Len(all) + 1, Len(all)), all)
      BY <3>1, EndIsSuffix
    <3> QED BY <2>1, <2>2, <2>3, <3>2
  <2>5. ~cut => all = <<>>
    BY <1>5, <2>2
  <2> QED BY <2>1, <2>2, <2>4, <2>5
<1>9. CASE n # 0
  <2> DEFINE Law(f) == f = [i \in 1 .. n |-> IF i = 1 THEN runs[i]
                                                      ELSE f[i - 1] \o runs[i]]
  <2>1. sofar[1] = runs[1]
    <3>1. 1 \in 1 .. n
      BY <1>1, <1>9
    <3>2. sofar[1] = SubSeq(all, start[1], start[1 + 1] - 1)
      BY <3>1
    <3> HIDE DEF sofar
    <3> QED BY <1>7, <3>1, <3>2
  <2>2. \A i \in 2 .. n : sofar[i] = sofar[i - 1] \o runs[i]
    <3> TAKE i \in 2 .. n
    <3>1. i \in 1 .. n /\ i - 1 \in 1 .. n /\ (i - 1) + 1 = i
          /\ i \in 1 .. n + 1 /\ i + 1 \in 1 .. n + 1 /\ i <= i + 1
      BY <1>1
    <3> DEFINE a == start[1]
               k == start[i] - 1
               b == start[i + 1] - 1
    <3>2. sofar[i - 1] = SubSeq(all, a, k) /\ sofar[i] = SubSeq(all, a, b)
      BY <3>1
    <3>3. runs[i] = SubSeq(all, k + 1, b)
      <4>1. start[i] = k + 1
        BY <1>6, <3>1
      <4> HIDE DEF k
      <4> QED BY <1>7, <3>1, <4>1
    <3>4. start[i] <= start[i + 1]
      BY <1>5, <3>1
    <3>5. a \in 1 .. Len(all) + 1 /\ k \in a - 1 .. Len(all) /\ b \in k .. Len(all)
      <4>1. 1 \in 1 .. n + 1 /\ Len(all) \in Nat
        BY <1>1
      <4>2. /\ start[1] \in Nat \ {0} /\ start[i] \in Nat \ {0}
            /\ start[i + 1] \in Nat \ {0}
            /\ start[1] <= start[i] /\ start[1] <= Len(all) + 1
            /\ start[i] <= Len(all) + 1 /\ start[i + 1] <= Len(all) + 1
        BY <1>6, <3>1, <4>1
      <4>3. a \in 1 .. Len(all) + 1
        BY <4>1, <4>2
      <4>4. k \in a - 1 .. Len(all)
        BY <4>1, <4>2
      <4>5. b \in k .. Len(all)
        BY <3>4, <4>1, <4>2
      <4> QED BY <4>3, <4>4, <4>5
    <3> HIDE DEF a, k, b, sofar
    <3> QED BY <3>2, <3>3, <3>5, ConcatAdjacentSubSeq
  <2>3. Law(sofar)
    <3>1. \A i \in 1 .. n : sofar[i] = IF i = 1 THEN runs[i]
                                                ELSE sofar[i - 1] \o runs[i]
      <4> TAKE i \in 1 .. n
      <4>1. i = 1 \/ i \in 2 .. n
        BY <1>1
      <4> HIDE DEF sofar
      <4> QED BY <2>1, <2>2, <4>1
    <3>2. sofar = [i \in 1 .. n |-> sofar[i]]
      OBVIOUS
    <3> HIDE DEF sofar
    <3> QED BY <3>1, <3>2
  <2> DEFINE flat == CHOOSE f : Law(f)
  <2>4. Law(flat)
    <3> HIDE DEF Law, sofar
    <3> QED BY <2>3
  <2>5. Expanded(entries) = flat[n]
    <3>1. Expanded(entries) = FlattenSeq(runs)
      BY DEF Expanded, runs
    <3> QED BY <1>4, <1>9, <3>1 DEF FlattenSeq
  <2> HIDE DEF flat
  <2>6. \A i \in 1 .. n : flat[i] = IF i = 1 THEN runs[i] ELSE flat[i - 1] \o runs[i]
    BY <2>4
  <2> HIDE DEF Law, sofar
  <2> DEFINE wrong == {i \in 1 .. n : flat[i] # sofar[i]}
  <2>7. wrong = {}
    <3> SUFFICES ASSUME wrong # {} PROVE FALSE
      OBVIOUS
    <3>1. PICK k \in wrong : \A m \in wrong : k <= m
      <4>1. wrong \subseteq Nat
        OBVIOUS
      <4> HIDE DEF wrong
      <4> QED BY <4>1, LeastElement
    <3>2. k \in 1 .. n /\ flat[k] # sofar[k]
      OBVIOUS
    <3>3. k \in 2 .. n
      BY <1>1, <2>1, <2>6, <3>2
    <3>4. k - 1 \in 1 .. n /\ ~(k <= k - 1)
      BY <1>1, <3>3
    <3>5. flat[k - 1] = sofar[k - 1]
      BY <3>1, <3>4
    <3>6. flat[k] = flat[k - 1] \o runs[k]
      <4>1. k \in 1 .. n /\ k # 1
        BY <1>1, <3>3
      <4> QED BY <2>6, <4>1
    <3> QED BY <2>2, <3>2, <3>3, <3>5, <3>6
  <2>8. Expanded(entries) = SubSeq(all, start[1], Len(all))
    <3>1. n \in 1 .. n
      BY <1>1, <1>9
    <3>2. flat[n] = sofar[n]
      BY <2>7, <3>1
    <3>3. start[n + 1] - 1 = Len(all)
      BY <1>5
    <3>4. sofar[n] = SubSeq(all, start[1], start[n + 1] - 1)
      BY <3>1 DEF sofar
    <3> QED BY <2>5, <3>2, <3>3, <3>4
  <2>9. start[1] \in 1 .. Len(all) + 1
    <3>1. 1 \in 1 .. n + 1
      BY <1>1
    <3> QED BY <1>6, <3>1
  <2>10. ~cut => Expanded(entries) = all
    BY <1>5, <2>8
  <2> QED BY <2>8, <2>9, <2>10, EndIsSuffix
<1> QED BY <1>1, <1>8, <1>9

\* A frame of one line fits, whatever the line, and so does one of none.
LEMMA ShortFits ==
  ASSUME NEW kept \in Seq(Entry), Len(kept) <= 1, NEW cut \in BOOLEAN
  PROVE  FrameLength(kept, cut) <= gatewayMaxLen
<1> DEFINE D == DOMAIN kept
           Law(f) == f = [s \in SUBSET D |->
                            IF s = {} THEN 0
                            ELSE f[s \ {Max(s)}] + Length(kept[Max(s)])]
           total == [s \in SUBSET D |-> IF s = {} THEN 0 ELSE Length(kept[1])]
           sum == CHOOSE f : Law(f)
<1>1. D = {} \/ D = {1}
  <2>1. D = 1 .. Len(kept)
    OBVIOUS
  <2>2. Len(kept) = 0 \/ Len(kept) = 1
    <3>1. Len(kept) \in Nat
      OBVIOUS
    <3> HIDE DEF D, Law, total, sum
    <3> QED BY <3>1
  <2>3. 1 .. 0 = {} /\ 1 .. 1 = {1}
    OBVIOUS
  <2> HIDE DEF D
  <2> QED BY <2>1, <2>2, <2>3
<1>2. \A s \in SUBSET D : s # {} => s = {1} /\ Max(s) = 1 /\ s \ {Max(s)} = {}
  <2>1. Max({1}) = 1
    BY DEF Max
  <2> HIDE DEF D
  <2>2. \A s \in SUBSET D : s # {} => s = {1}
    BY <1>1
  <2>3. {1} \ {1} = {}
    OBVIOUS
  <2> QED BY <2>1, <2>2, <2>3
<1>3. \A entry : Length(entry) \in 1 .. 3
  BY DEF Length
<1>4. Law(total)
  <2>1. total[{}] = 0
    OBVIOUS
  <2>2. \A s \in SUBSET D :
          total[s] = IF s = {} THEN 0
                     ELSE total[s \ {Max(s)}] + Length(kept[Max(s)])
    <3> TAKE s \in SUBSET D
    <3>1. CASE s # {}
      <4>1. total[s] = Length(kept[1]) /\ Length(kept[1]) \in 1 .. 3
        BY <1>3, <3>1
      <4>2. Max(s) = 1 /\ s \ {Max(s)} = {}
        BY <1>2, <3>1
      <4> HIDE DEF total, D
      <4>3. total[s \ {Max(s)}] + Length(kept[Max(s)]) = 0 + Length(kept[1])
        BY <2>1, <4>2
      <4> QED BY <3>1, <4>1, <4>3
    <3> QED BY <2>1, <3>1
  <2>3. total = [s \in SUBSET D |-> total[s]]
    OBVIOUS
  <2> HIDE DEF total, D
  <2> QED BY <2>2, <2>3
<1>5. Law(sum)
  <2> HIDE DEF Law, total
  <2> QED BY <1>4
<1>6. FoldLeft(LAMBDA n, entry : n + Length(entry), 0, kept) = sum[D]
  BY DEF FoldLeft, MapThenFoldSet
<1> HIDE DEF sum
<1>7. sum[D] \in 0 .. 3
  <2>1. \A s \in SUBSET D : sum[s] = IF s = {} THEN 0
                            ELSE sum[s \ {Max(s)}] + Length(kept[Max(s)])
    BY <1>5
  <2> HIDE DEF Law, D
  <2>2. sum[{}] = 0
    BY <2>1
  <2>3. CASE D = {}
    BY <2>2, <2>3
  <2>4. CASE D # {}
    <3>1. sum[D] = sum[D \ {Max(D)}] + Length(kept[Max(D)])
      BY <2>1, <2>4
    <3>2. sum[D] = 0 + Length(kept[1])
      BY <1>2, <2>2, <2>4, <3>1
    <3>3. Length(kept[1]) \in 1 .. 3
      BY <1>3
    <3> QED BY <3>2, <3>3
  <2> QED BY <2>3, <2>4
<1>8. FrameLength(kept, cut) = 1 + (IF cut THEN 1 ELSE 0) + sum[D]
  BY <1>6 DEF FrameLength
<1>9. gatewayMaxLen \in Nat /\ gatewayMaxLen > 4
  BY ViewAssumption DEF ViewAssumption
<1> QED BY <1>7, <1>8, <1>9

\* What render yields is the end of what happened, and fits.
LEMMA RenderIsTrue ==
  ASSUME NEW entries \in Seq(Entry), NEW all \in Seq(Line), NEW cut \in BOOLEAN,
         NEW start, Tells(entries, all, cut, start),
         lines' = entries, seen' = all, elided' = cut, shown' = render
  PROVE  FrameInv'
<1> DEFINE n == Len(entries)
           Rest(j) == SubSeq(entries, j + 1, n)
           K == {j \in 0 .. n : \/ n - j <= 1
                                \/ FrameLength(Rest(j), cut \/ j > 0) <= gatewayMaxLen}
           k == Min(K)
<1>1. n \in Nat
  OBVIOUS
<1>2. k \in K
  <2>1. n \in 0 .. n /\ n - n <= 1
    BY <1>1
  <2>2. n \in K
    BY <2>1
  <2>3. K \subseteq Nat
    BY <1>1
  <2> HIDE DEF K
  <2> QED BY <2>2, <2>3, LeastElement
<1>3. /\ shown'.lines = Rest(k) /\ shown'.elided = (cut \/ k > 0)
      /\ shown'.seen = all
  BY DEF render, From
<1> HIDE DEF k
<1>4. k \in 0 .. n /\ (n - k <= 1 \/ FrameLength(Rest(k), cut \/ k > 0) <= gatewayMaxLen)
  BY <1>2
<1> DEFINE from == [i \in 1 .. n - k + 1 |-> start[i + k]]
<1>5. Rest(k) \in Seq(Entry) /\ Tells(Rest(k), all, cut \/ k > 0, from)
  BY <1>4, CutTells
<1>6. Len(Rest(k)) = n - k
  BY <1>1, <1>4
<1> HIDE DEF Rest, from, n, K
<1>7. (cut \/ k > 0) \in BOOLEAN
  OBVIOUS
<1>8. /\ IsSuffix(Expanded(Rest(k)), all)
      /\ ~(cut \/ k > 0) => Expanded(Rest(k)) = all
  BY <1>5, <1>7, TellsTheEnd
<1>9. FrameLength(Rest(k), cut \/ k > 0) <= gatewayMaxLen
  BY <1>4, <1>5, <1>6, <1>7, ShortFits
<1> DEFINE frame == shown'
<1>10. /\ IsSuffix(Expanded(frame.lines), frame.seen)
       /\ ~frame.elided => Expanded(frame.lines) = frame.seen
       /\ FrameLength(frame.lines, frame.elided) <= gatewayMaxLen
  <2> HIDE DEF frame
  <2>1. frame.lines = Rest(k) /\ frame.elided = (cut \/ k > 0) /\ frame.seen = all
    BY <1>3 DEF frame
  <2> QED BY <1>8, <1>9, <2>1
<1> QED BY <1>10 DEF FrameInv, ShownIsTheEnd, ShownFits

\* A flush shows such a frame, or what was shown.
LEMMA FlushIsTrue ==
  ASSUME FrameInv, WindowInv', HistoryInv', NEW force \in BOOLEAN, flush(force)
  PROVE  FrameInv'
<1>1. CASE shown' = render
  <2>1. PICK entries, all, cut : entries = lines' /\ all = seen' /\ cut = elided'
    OBVIOUS
  <2>2. entries \in Seq(Entry) /\ all \in Seq(Line) /\ cut \in BOOLEAN
    BY <2>1 DEF WindowInv, HistoryInv
  <2>3. PICK start : Tells(entries, all, cut, start)
    BY <2>1 DEF HistoryInv
  <2> QED BY <1>1, <2>1, <2>2, <2>3, RenderIsTrue
<1>2. CASE shown' = shown
  BY <1>2 DEF FrameInv, ShownIsTheEnd, ShownFits, Frames
<1> QED BY <1>1, <1>2 DEF flush, Refused, Edited, Keep

LEMMA FrontProperties ==
  ASSUME NEW S, NEW s \in Seq(S), s # <<>>
  PROVE  /\ Front(s) \in Seq(S) /\ Len(Front(s)) = Len(s) - 1
         /\ \A i \in 1 .. Len(s) - 1 : Front(s)[i] = s[i]
<1>1. Len(s) \in Nat /\ Len(s) > 0
  OBVIOUS
<1> DEFINE n == Len(s) - 1
<1>2. n \in Nat /\ n <= Len(s) /\ Front(s) = SubSeq(s, 1, n)
  BY <1>1 DEF Front
<1>3. \A i \in 1 .. n : s[i] \in S
  BY <1>1
<1> HIDE DEF n
<1>4. /\ Front(s) \in Seq(S) /\ Len(Front(s)) = n
      /\ \A i \in 1 .. n : Front(s)[i] = s[i]
  BY <1>2, <1>3
<1> QED BY <1>4 DEF n

\* A line is pushed.
LEMMA PushIsTold ==
  ASSUME WindowInv, HistoryInv, NEW line \in Line, push(line)
  PROVE  HistoryInv'
<1> DEFINE again == lastCount > 0 /\ line = lastLine
           count == IF again THEN lastCount + 1 ELSE 1
           older == IF again THEN Front(lines) ELSE lines
           entry == [line |-> line, count |-> count]
           longer == Append(older, entry)
           m == Len(longer)
           j == IF m > maxLines THEN 1 ELSE 0
           more == Append(seen, line)
<1>1. /\ lines' = SubSeq(longer, IF m > maxLines THEN 2 ELSE 1, m)
      /\ elided' = (elided \/ m > maxLines) /\ seen' = more
  BY DEF push
<1>2. /\ lines \in Seq(Entry) /\ lastCount \in Nat /\ elided \in BOOLEAN
      /\ seen \in Seq(Line)
      /\ again => /\ lines # <<>>
                  /\ lines[Len(lines)].line = line
                  /\ lines[Len(lines)].count = lastCount
  BY DEF WindowInv, HistoryInv
<1>3. PICK start : Tells(lines, seen, elided, start)
  BY DEF HistoryInv
<1>4. count \in Nat /\ entry \in Entry
  <2>1. count \in Nat
    BY <1>2
  <2> HIDE DEF count
  <2> QED BY <2>1 DEF Entry
<1>5. /\ older \in Seq(Entry)
      /\ Len(older) = IF again THEN Len(lines) - 1 ELSE Len(lines)
      /\ \A i \in 1 .. Len(older) : older[i] = lines[i]
  <2>1. CASE again
    <3>1. lines # <<>> /\ older = SubSeq(lines, 1, Len(lines) - 1)
      BY <1>2, <2>1 DEF Front
    <3>2. Len(lines) \in Nat /\ Len(lines) > 0
      BY <1>2, <3>1
    <3> HIDE DEF older, again
    <3>3. /\ older \in Seq(Entry) /\ Len(older) = Len(lines) - 1
          /\ \A i \in 1 .. Len(lines) - 1 : older[i] = lines[i]
      <4>1. older = Front(lines)
        BY <3>1 DEF Front
      <4> QED BY <1>2, <3>1, <4>1, FrontProperties
    <3> QED BY <2>1, <3>3
  <2>2. CASE ~again
    BY <1>2, <2>2
  <2> QED BY <2>1, <2>2
<1> HIDE DEF older
<1>6. /\ longer \in Seq(Entry) /\ m = Len(older) + 1 /\ longer # <<>>
      /\ \A i \in 1 .. m - 1 : longer[i] = lines[i]
      /\ longer[m] = entry
  <2> HIDE DEF entry, again
  <2> QED BY <1>4, <1>5
<1>7. entry.line = line /\ entry.count = count
  OBVIOUS
<1>8. more \in Seq(Line) /\ \E from : Tells(longer, more, elided, from)
  <2>1. CASE again
    <3>1. /\ m = Len(lines) /\ lines[Len(lines)].line = line
          /\ longer[m].count = lines[Len(lines)].count + 1
      <4>1. m = Len(lines)
        BY <1>2, <1>5, <1>6, <2>1
      <4>2. longer[m].count = lastCount + 1
        BY <1>6, <1>7, <2>1
      <4> HIDE DEF longer, m
      <4> QED BY <1>2, <2>1, <4>1, <4>2
    <3>2. m - 1 <= Len(lines)
      BY <1>2, <3>1
    <3> HIDE DEF longer, again, entry
    <3> QED BY <1>2, <1>3, <1>6, <1>7, <3>1, <3>2, PushTells
  <2>2. CASE ~again
    <3>1. m = Len(lines) + 1 /\ longer[m].count = 1
      BY <1>2, <1>5, <1>6, <1>7, <2>2
    <3>2. m - 1 <= Len(lines)
      BY <1>2, <3>1
    <3> HIDE DEF longer, again, entry
    <3> QED BY <1>2, <1>3, <1>6, <1>7, <3>1, <3>2, PushTells
  <2> QED BY <2>1, <2>2
<1>9. PICK from : Tells(longer, more, elided, from)
  BY <1>8
<1>10. j \in 0 .. m /\ (j > 0 <=> m > maxLines)
       /\ lines' = SubSeq(longer, j + 1, m)
  <2>1. m \in Nat /\ m > 0
    BY <1>6
  <2> QED BY <1>1, <2>1
<1> HIDE DEF j, more, longer
<1>11. \E rest : Tells(SubSeq(longer, j + 1, m), more, elided \/ j > 0, rest)
  BY <1>2, <1>6, <1>8, <1>9, <1>10, CutTells
<1>12. elided' = (elided \/ j > 0) /\ elided' \in BOOLEAN
  BY <1>1, <1>2, <1>10
<1> QED BY <1>1, <1>8, <1>10, <1>11, <1>12 DEF HistoryInv

LEMMA FrameInit == ViewInit => HistoryInv /\ FrameInv
<1> SUFFICES ASSUME ViewInit PROVE HistoryInv /\ FrameInv
  OBVIOUS
<1>1. HistoryInv
  <2>1. seen = <<>> /\ lines = <<>> /\ elided = FALSE
    BY DEF ViewInit
  <2> QED BY <2>1, NothingTold DEF HistoryInv
<1>2. FrameInv
  <2>1. shown.lines = <<>> /\ shown.seen = <<>> /\ shown.elided = FALSE
    BY DEF ViewInit, Nowhere
  <2>2. IsSuffix(Expanded(<<>>), <<>>) /\ Expanded(<<>>) = <<>>
    <3>1. PICK start : Tells(<<>>, <<>>, FALSE, start)
      BY NothingTold
    <3> QED BY <3>1, NothingTold, TellsTheEnd
  <2>3. FrameLength(<<>>, FALSE) <= gatewayMaxLen
    <3>1. Len(<<>>) <= 1
      OBVIOUS
    <3> QED BY <3>1, NothingTold, ShortFits
  <2> QED BY <2>1, <2>2, <2>3 DEF FrameInv, ShownIsTheEnd, ShownFits
<1> QED BY <1>1, <1>2

LEMMA HistoryStep ==
  ASSUME WindowInv, HistoryInv, [ViewNext]_viewVars
  PROVE  HistoryInv'
<1>1. CASE Status
  <2>1. PICK tool \in Tools, detail \in Details \cup {NoDetail} :
          push([head |-> tool,
                detail |-> IF level = "quiet" THEN NoDetail ELSE detail])
    BY <1>1 DEF Status
  <2>2. [head |-> tool,
         detail |-> IF level = "quiet" THEN NoDetail ELSE detail] \in Line
    BY DEF Line
  <2> QED BY <2>1, <2>2, PushIsTold
<1>2. CASE Chunk
  <2>1. PICK detail \in Details : push([head |-> Thinking, detail |-> detail])
    BY <1>2 DEF Chunk
  <2>2. [head |-> Thinking, detail |-> detail] \in Line
    BY DEF Line
  <2> QED BY <2>1, <2>2, PushIsTold
<1>3. CASE Reset
  <2>1. seen' = <<>> /\ lines' = <<>> /\ elided' = FALSE
    BY <1>3 DEF Reset
  <2> QED BY <2>1, NothingTold DEF HistoryInv
<1>4. CASE TimePasses \/ Abandon \/ Reply \/ PostPart \/ Finish \/ TidyPing
           \/ UNCHANGED viewVars
  <2>1. UNCHANGED <<lines, elided, seen>>
    BY <1>4 DEF TimePasses, Abandon, Reply, PostPart, Finish, TidyPing, window,
                viewVars
  <2> QED BY <2>1 DEF HistoryInv
<1> QED BY <1>1, <1>2, <1>3, <1>4 DEF ViewNext

LEMMA FrameStep ==
  ASSUME WindowInv, HistoryInv, FrameInv, [ViewNext]_viewVars
  PROVE  FrameInv'
<1>1. WindowInv' /\ HistoryInv'
  BY WindowStep, HistoryStep
<1>2. CASE shown' = shown
  BY <1>2 DEF FrameInv, ShownIsTheEnd, ShownFits, Frames
<1>3. CASE Status \/ Chunk
  BY <1>1, <1>3, FlushIsTrue DEF Status, Chunk
<1>4. CASE Reset \/ Abandon
  <2>1. (\E force \in BOOLEAN : flush(force)) \/ shown' = shown
    BY <1>4 DEF Reset, Abandon, edit
  <2> QED BY <1>1, <1>2, <2>1, FlushIsTrue
<1>5. CASE Finish
  <2>1. shown' = shown \/ shown' = summary
    BY <1>5 DEF Finish
  <2>2. shown' = summary => ~Frames'
    BY DEF summary, Frames
  <2> QED BY <1>2, <2>1, <2>2 DEF FrameInv, ShownIsTheEnd, ShownFits
<1>6. CASE TimePasses \/ Reply \/ PostPart \/ TidyPing \/ UNCHANGED viewVars
  <2>1. shown' = shown
    BY <1>6 DEF TimePasses, Reply, PostPart, TidyPing, viewVars, edit
  <2> QED BY <1>2, <2>1
<1> QED BY <1>3, <1>4, <1>5, <1>6 DEF ViewNext

\* Every frame is the end of what happened, says so when it is not all of it, and
\* is no longer than a message may be, however many lines were pushed, counted up
\* and left out (push, render and frame of progress.go).
THEOREM FrameTells == ViewSpec => []FrameIsTrue
<1>1. WindowInv /\ FrameInv => FrameIsTrue
  BY DEF WindowInv, FrameInv, FrameIsTrue, PushHasALine, Last
<1> QED BY <1>1, InitHolds, FrameInit, WindowStep, HistoryStep, FrameStep, PTL
        DEF ViewSpec

-----------------------------------------------------------------------------
(* The answer.                                                             *)

Text == Seq({"a", "nl"})
Newlines(text) == {k \in DOMAIN text : text[k] = "nl"}
Part == [from : Nat, to : Nat]

\* The part that starts at from, and where the one after it starts.
Long(text, from) == Len(text) - from + 1 > gatewayMaxLen
PartAt(text, from) ==
  [from |-> from,
   to   |-> IF Long(text, from) THEN from + CutAt(text, from) - 1 ELSE Len(text)]
After(text, from) ==
  IF Long(text, from) THEN AfterNewline(text, from + CutAt(text, from))
                      ELSE Len(text) + 1

\* A text cut from there to its end.
Chain(text, from, all) ==
  /\ all \in Seq(Part)
  /\ all = <<>> <=> from = Len(text) + 1
  /\ all # <<>> => all[1].from = from
  /\ \A i \in 1 .. Len(all) :
       /\ all[i].from \in 1 .. Len(text)
       /\ all[i] = PartAt(text, all[i].from)
       /\ After(text, all[i].from) =
            IF i < Len(all) THEN all[i + 1].from ELSE Len(text) + 1

\* What holds of the end of a range, and of a number when of all above it, holds
\* of the range.
LEMMA Downwards ==
  ASSUME NEW n \in Nat, NEW T, n + 1 \in T,
         \A i \in 1 .. n : i + 1 .. n + 1 \subseteq T => i \in T
  PROVE  1 .. n + 1 \subseteq T
<1> DEFINE bad == {d \in 0 .. n : n + 1 - d \notin T}
<1> SUFFICES ASSUME bad # {} PROVE FALSE
  <2>1. \A i \in 1 .. n + 1 : n + 1 - i \in 0 .. n /\ n + 1 - (n + 1 - i) = i
    OBVIOUS
  <2> QED BY <2>1
<1>1. bad \subseteq Nat
  OBVIOUS
<1> DEFINE d == Min(bad)
<1>2. d \in bad /\ \A m \in bad : d <= m
  <2> HIDE DEF bad
  <2> QED BY <1>1, LeastElement
<1> HIDE DEF d
<1>3. d \in 0 .. n /\ n + 1 - d \notin T
  BY <1>2
<1>4. d # 0
  BY <1>3
<1>5. n + 1 - d \in 1 .. n
  BY <1>3, <1>4
<1>6. ASSUME NEW i \in (n + 1 - d) + 1 .. n + 1, i \notin T PROVE FALSE
  <2>1. n + 1 - i \in 0 .. n /\ n + 1 - (n + 1 - i) = i /\ ~(d <= n + 1 - i)
    BY <1>3
  <2>2. n + 1 - i \in bad
    BY <1>6, <2>1
  <2> QED BY <1>2, <2>1, <2>2
<1> QED BY <1>3, <1>5, <1>6

\* A set of numbers with a bound has a greatest element, and Max is it.
LEMMA GreatestElement ==
  ASSUME NEW n \in Nat, NEW T, T \subseteq 0 .. n, T # {}
  PROVE  Max(T) \in T
<1> DEFINE far == {n - i : i \in T}
           d == Min(far)
<1>1. far \subseteq Nat /\ far # {}
  <2>1. \A i \in 0 .. n : n - i \in Nat
    OBVIOUS
  <2> QED BY <2>1
<1>2. d \in far /\ \A m \in far : d <= m
  <2> HIDE DEF far
  <2> QED BY <1>1, LeastElement
<1> HIDE DEF d
<1>3. PICK top \in T : d = n - top
  BY <1>2
<1>4. \A i \in T : top >= i
  <2> TAKE i \in T
  <2>1. i \in 0 .. n /\ top \in 0 .. n /\ n - i \in far
    OBVIOUS
  <2> QED BY <1>2, <1>3, <2>1
<1> QED BY <1>4 DEF Max

\* Where a long text is cut: between lines, or else in a long one.
LEMMA CutIs ==
  ASSUME NEW text \in Text, NEW from \in 1 .. Len(text), Long(text, from)
  PROVE  /\ CutAt(text, from) \in gatewayMaxLen \div 2 + 1 .. gatewayMaxLen
         /\ from + CutAt(text, from) \in 1 .. Len(text)
         /\ from + CutAt(text, from) \notin Newlines(text) =>
              /\ CutAt(text, from) = gatewayMaxLen
              /\ \A e \in gatewayMaxLen \div 2 + 1 .. gatewayMaxLen - 1 :
                   from + e \notin Newlines(text)
<1> DEFINE M == gatewayMaxLen
           H == gatewayMaxLen \div 2
           ends == {e \in H + 1 .. M - 1 : from + e \in Newlines(text)}
           cut == CutAt(text, from)
<1>1. M \in Nat /\ H \in Nat /\ M > 4 /\ H + 1 <= M - 1
  BY ViewAssumption DEF ViewAssumption
<1>2. Len(text) \in Nat /\ Len(text) - from + 1 > M
  BY DEF Long, Text
<1>3. \A e \in H + 1 .. M - 1 : from + e \in DOMAIN text
  <2>1. DOMAIN text = 1 .. Len(text)
    BY DEF Text
  <2> HIDE DEF H
  <2> QED BY <1>1, <1>2, <2>1
<1>4. cut = IF ends = {} THEN M ELSE Max(ends)
  <2>1. ends = {e \in H + 1 .. M - 1 : text[from + e] = "nl"}
    <3> HIDE DEF H, M
    <3> QED BY <1>3 DEF Newlines
  <2> HIDE DEF ends
  <2> QED BY <2>1 DEF CutAt
<1>5. ends # {} => Max(ends) \in ends
  <2>1. ends \subseteq 0 .. M
    <3> HIDE DEF H
    <3> QED BY <1>1
  <2> HIDE DEF ends, M
  <2> QED BY <1>1, <2>1, GreatestElement
<1> HIDE DEF H, cut
<1>6. cut \in H + 1 .. M
  BY <1>1, <1>4, <1>5
<1>7. from + cut \in 1 .. Len(text)
  BY <1>1, <1>2, <1>6
<1>8. ASSUME from + cut \notin Newlines(text) PROVE ends = {}
  BY <1>4, <1>5, <1>8
<1>9. from + cut \notin Newlines(text) =>
        cut = M /\ \A e \in H + 1 .. M - 1 : from + e \notin Newlines(text)
  BY <1>4, <1>8
<1> QED BY <1>6, <1>7, <1>9 DEF H, cut

\* The newline at which a text is cut is left out.
LEMMA AfterIs ==
  ASSUME NEW text \in Text, NEW i \in 1 .. Len(text)
  PROVE  AfterNewline(text, i) = IF i \in Newlines(text) THEN i + 1 ELSE i
<1>1. i \in DOMAIN text
  BY DEF Text
<1> QED BY <1>1 DEF AfterNewline, Newlines

\* The next part starts behind this one, and this one is not empty.
LEMMA PartIs ==
  ASSUME NEW text \in Text, NEW from \in 1 .. Len(text)
  PROVE  /\ PartAt(text, from) \in Part
         /\ After(text, from) \in from + 1 .. Len(text) + 1
<1>1. Len(text) \in Nat
  BY DEF Text
<1>2. CASE Long(text, from)
  <2> DEFINE cut == CutAt(text, from)
             M == gatewayMaxLen
             H == gatewayMaxLen \div 2
  <2>1. M \in Nat /\ H \in Nat
    BY ViewAssumption DEF ViewAssumption
  <2>2. cut \in H + 1 .. M /\ from + cut \in 1 .. Len(text)
    BY <1>2, CutIs
  <2>3. AfterNewline(text, from + cut) \in {from + cut, from + cut + 1}
    BY <2>2, AfterIs
  <2> HIDE DEF cut, M, H
  <2>4. from + cut - 1 \in Nat /\ {from + cut, from + cut + 1} \subseteq from + 1 .. Len(text) + 1
    BY <1>1, <2>1, <2>2
  <2> QED BY <1>2, <2>3, <2>4 DEF PartAt, After, Part, cut
<1>3. CASE ~Long(text, from)
  <2>1. Len(text) + 1 \in from + 1 .. Len(text) + 1
    BY <1>1
  <2> QED BY <1>1, <1>3, <2>1 DEF PartAt, After, Part
<1> QED BY <1>2, <1>3

\* g has the parts of every end of the text, from i on.
Solves(text, i, g) ==
  /\ g \in [i .. Len(text) + 1 -> Seq(Part)]
  /\ g[Len(text) + 1] = <<>>
  /\ \A k \in i .. Len(text) : g[k] = <<PartAt(text, k)>> \o g[After(text, k)]

LEMMA SolutionExists ==
  ASSUME NEW text \in Text
  PROVE  \E g : Solves(text, 1, g)
<1> DEFINE n == Len(text)
           T == {i \in 1 .. n + 1 : \E g : Solves(text, i, g)}
<1>1. n \in Nat
  BY DEF Text
<1>2. n + 1 \in T
  <2> DEFINE g == [i \in n + 1 .. n + 1 |-> <<>>]
  <2>1. g \in [n + 1 .. n + 1 -> Seq(Part)] /\ g[n + 1] = <<>>
    BY <1>1
  <2>2. n + 1 .. n = {}
    BY <1>1
  <2> HIDE DEF g
  <2>3. Solves(text, n + 1, g)
    BY <2>1, <2>2 DEF Solves
  <2>4. n + 1 \in 1 .. n + 1
    BY <1>1
  <2> QED BY <2>3, <2>4
<1>3. ASSUME NEW i \in 1 .. n, i + 1 .. n + 1 \subseteq T PROVE i \in T
  <2>1. i + 1 \in T
    <3>1. i + 1 \in i + 1 .. n + 1
      BY <1>1
    <3> HIDE DEF T
    <3> QED BY <1>3, <3>1
  <2>2. PICK g : Solves(text, i + 1, g)
    BY <2>1
  <2> DEFINE v == <<PartAt(text, i)>> \o g[After(text, i)]
             h == [k \in i .. n + 1 |-> IF k = i THEN v ELSE g[k]]
  <2>3. \A k \in i + 1 .. n + 1 : g[k] \in Seq(Part) /\ h[k] = g[k]
    BY <1>1, <2>2 DEF Solves
  <2>4. PartAt(text, i) \in Part /\ After(text, i) \in i + 1 .. n + 1
    BY PartIs
  <2>5. v \in Seq(Part)
    <3>1. <<PartAt(text, i)>> \in Seq(Part)
      BY <2>4
    <3>2. g[After(text, i)] \in Seq(Part)
      <4> HIDE DEF h
      <4> QED BY <2>3, <2>4
    <3> QED BY <3>1, <3>2, ConcatProperties
  <2>6. h[i] = v /\ h[n + 1] = <<>>
    BY <1>1, <2>2 DEF Solves
  <2>7. h \in [i .. n + 1 -> Seq(Part)]
    <3>1. \A k \in i .. n + 1 : k = i \/ k \in i + 1 .. n + 1
      BY <1>1
    <3> HIDE DEF v
    <3> QED BY <2>3, <2>5, <3>1
  <2>8. ASSUME NEW k \in i .. n
        PROVE  h[k] = <<PartAt(text, k)>> \o h[After(text, k)]
    <3>1. After(text, k) \in i + 1 .. n + 1
      <4>1. k \in 1 .. n
        BY <1>1
      <4>2. After(text, k) \in k + 1 .. n + 1
        BY <4>1, PartIs
      <4> QED BY <1>1, <4>2
    <3>2. h[After(text, k)] = g[After(text, k)]
      BY <2>3, <3>1
    <3>3. CASE k = i
      <4> HIDE DEF h
      <4> QED BY <2>6, <3>2, <3>3
    <3>4. CASE k # i
      <4>1. k \in i + 1 .. n /\ k \in i + 1 .. n + 1
        BY <1>1, <3>4
      <4>2. h[k] = g[k] /\ g[k] = <<PartAt(text, k)>> \o g[After(text, k)]
        BY <2>2, <2>3, <4>1 DEF Solves
      <4> HIDE DEF h
      <4> QED BY <3>2, <4>2
    <3> QED BY <3>3, <3>4
  <2> HIDE DEF h
  <2>9. Solves(text, i, h)
    BY <2>6, <2>7, <2>8 DEF Solves
  <2>10. i \in 1 .. n + 1
    BY <1>1
  <2> QED BY <2>9, <2>10
<1> HIDE DEF T
<1>4. 1 .. n + 1 \subseteq T
  BY <1>1, <1>2, <1>3, Downwards
<1>5. 1 \in T
  BY <1>1, <1>4
<1> QED BY <1>5 DEF T

\* chunkText cuts the text from its first character to its end.
LEMMA SolutionChains ==
  ASSUME NEW text \in Text, NEW g, Solves(text, 1, g)
  PROVE  Chain(text, 1, g[1])
<1> DEFINE n == Len(text)
           T == {i \in 1 .. n + 1 : Chain(text, i, g[i])}
<1>1. n \in Nat
  BY DEF Text
<1>2. n + 1 \in T
  <2>1. g[n + 1] = <<>> /\ Len(<<>>) = 0 /\ 1 .. 0 = {} /\ <<>> \in Seq(Part)
    BY DEF Solves
  <2>2. Chain(text, n + 1, <<>>)
    BY <2>1 DEF Chain
  <2>3. n + 1 \in 1 .. n + 1
    BY <1>1
  <2> QED BY <2>1, <2>2, <2>3
<1>3. ASSUME NEW i \in 1 .. n, i + 1 .. n + 1 \subseteq T PROVE i \in T
  <2> DEFINE p == PartAt(text, i)
             j == After(text, i)
             rest == g[j]
             all == <<p>> \o rest
  <2>1. p \in Part /\ j \in i + 1 .. n + 1 /\ p.from = i
    BY PartIs DEF PartAt
  <2>2. Chain(text, j, rest)
    BY <1>3, <2>1
  <2>3. g[i] = all
    BY DEF Solves
  <2> HIDE DEF p, j, rest
  <2>4. rest \in Seq(Part) /\ Len(rest) \in Nat
    BY <2>2 DEF Chain
  <2>5. /\ all \in Seq(Part) /\ Len(all) = Len(rest) + 1 /\ all # <<>>
        /\ all[1] = p
        /\ \A k \in 1 .. Len(rest) : all[k + 1] = rest[k]
    BY <2>1, <2>4
  <2> HIDE DEF all
  <2>6. ASSUME NEW k \in 1 .. Len(all)
        PROVE  /\ all[k].from \in 1 .. n
               /\ all[k] = PartAt(text, all[k].from)
               /\ After(text, all[k].from) =
                    IF k < Len(all) THEN all[k + 1].from ELSE n + 1
    <3>1. CASE k = 1
      <4>1. all[k].from = i /\ all[k] = PartAt(text, i)
        BY <2>1, <2>5, <3>1 DEF p
      <4>2. CASE rest = <<>>
        <5>1. j = n + 1 /\ Len(all) = 1
          BY <2>2, <2>5, <4>2 DEF Chain
        <5> QED BY <3>1, <4>1, <5>1 DEF j
      <4>3. CASE rest # <<>>
        <5>1. rest[1].from = j /\ Len(rest) > 0
          BY <2>2, <2>4, <4>3 DEF Chain
        <5>2. all[1 + 1] = rest[1] /\ 1 < Len(all)
          BY <2>4, <2>5, <5>1
        <5> QED BY <3>1, <4>1, <5>1, <5>2 DEF j
      <4> QED BY <4>2, <4>3
    <3>2. CASE k # 1
      <4> DEFINE m == k - 1
      <4>1. m \in 1 .. Len(rest) /\ k = m + 1
        BY <2>4, <2>5, <3>2
      <4> HIDE DEF m
      <4>2. all[k] = rest[m]
        BY <2>5, <4>1
      <4>3. /\ rest[m].from \in 1 .. n
            /\ rest[m] = PartAt(text, rest[m].from)
            /\ After(text, rest[m].from) =
                 IF m < Len(rest) THEN rest[m + 1].from ELSE n + 1
        BY <2>2, <4>1 DEF Chain
      <4>4. k < Len(all) <=> m < Len(rest)
        BY <2>4, <2>5, <4>1
      <4>5. m < Len(rest) => all[k + 1] = rest[m + 1]
        <5> HAVE m < Len(rest)
        <5>1. m + 1 \in 1 .. Len(rest)
          BY <2>4, <4>1
        <5> QED BY <2>5, <4>1, <5>1
      <4> QED BY <4>2, <4>3, <4>4, <4>5
    <3> QED BY <3>1, <3>2
  <2>7. i # n + 1 /\ i \in 1 .. n + 1
    BY <1>1
  <2>8. Chain(text, i, all)
    BY <2>1, <2>5, <2>6, <2>7 DEF Chain
  <2> QED BY <2>3, <2>7, <2>8
<1> HIDE DEF T
<1>4. 1 .. n + 1 \subseteq T
  BY <1>1, <1>2, <1>3, Downwards
<1>5. 1 \in T
  BY <1>1, <1>4
<1> QED BY <1>5 DEF T

LEMMA ChunkChains ==
  ASSUME NEW text \in Text
  PROVE  Chain(text, 1, chunkText(text))
<1> DEFINE n == Len(text)
           Law(f) ==
             f = [from \in 1 .. n + 1 |->
                    CASE n - from + 1 > gatewayMaxLen ->
                           <<[from |-> from, to |-> from + CutAt(text, from) - 1]>>
                             \o f[AfterNewline(text, from + CutAt(text, from))]
                      [] from > n -> <<>>
                      [] OTHER -> <<[from |-> from, to |-> n]>>]
           rest == CHOOSE f : Law(f)
<1>1. n \in Nat /\ gatewayMaxLen \in Nat /\ gatewayMaxLen > 4
  BY ViewAssumption DEF Text, ViewAssumption
<1>2. chunkText(text) = rest[1]
  BY DEF chunkText
<1>3. ASSUME NEW f, NEW from \in 1 .. n + 1
      PROVE  /\ n - from + 1 > gatewayMaxLen => from \in 1 .. n /\ Long(text, from)
             /\ from > n <=> from = n + 1
             /\ from # n + 1 => from \in 1 .. n
             /\ from = n + 1 => ~(n - from + 1 > gatewayMaxLen)
  BY <1>1 DEF Long
<1>4. PICK g : Solves(text, 1, g)
  BY SolutionExists
<1>5. Law(g)
  <2>1. \A from \in 1 .. n + 1 :
          g[from] = CASE n - from + 1 > gatewayMaxLen ->
                           <<[from |-> from, to |-> from + CutAt(text, from) - 1]>>
                             \o g[AfterNewline(text, from + CutAt(text, from))]
                      [] from > n -> <<>>
                      [] OTHER -> <<[from |-> from, to |-> n]>>
    <3> TAKE from \in 1 .. n + 1
    <3>1. CASE from = n + 1
      BY <1>3, <1>4, <3>1 DEF Solves
    <3>2. CASE from # n + 1 /\ Long(text, from)
      BY <1>3, <1>4, <3>2 DEF Solves, PartAt, After, Long
    <3>3. CASE from # n + 1 /\ ~Long(text, from)
      <4>1. g[from] = <<PartAt(text, from)>> \o g[n + 1]
        BY <1>3, <1>4, <3>3 DEF Solves, After
      <4>2. g[n + 1] = <<>> /\ PartAt(text, from) \in Part
        BY <1>3, <1>4, <3>3, PartIs DEF Solves
      <4>3. g[from] = <<PartAt(text, from)>>
        BY <4>1, <4>2
      <4> QED BY <1>3, <3>3, <4>3 DEF PartAt, Long
    <3> QED BY <3>1, <3>2, <3>3
  <2>2. g = [from \in 1 .. n + 1 |-> g[from]]
    BY <1>4 DEF Solves
  <2> QED BY <2>1, <2>2
<1>6. Law(rest)
  <2> HIDE DEF Law
  <2> QED BY <1>5
<1> HIDE DEF rest
<1>7. Solves(text, 1, rest)
  <2>1. /\ DOMAIN rest = 1 .. n + 1
        /\ rest = [from \in 1 .. n + 1 |-> rest[from]]
    BY <1>6
  <2>2. rest[n + 1] = <<>>
    <3>1. n + 1 \in 1 .. n + 1
      BY <1>1
    <3> QED BY <1>3, <1>6, <3>1
  <2>3. ASSUME NEW k \in 1 .. n
        PROVE  rest[k] = <<PartAt(text, k)>> \o rest[After(text, k)]
    <3>1. k \in 1 .. n + 1 /\ k # n + 1
      BY <1>1
    <3>2. CASE Long(text, k)
      BY <1>3, <1>6, <3>1, <3>2 DEF PartAt, After, Long
    <3>3. CASE ~Long(text, k)
      <4>1. rest[k] = <<PartAt(text, k)>> /\ After(text, k) = n + 1
        BY <1>3, <1>6, <3>1, <3>3 DEF PartAt, After, Long
      <4>2. PartAt(text, k) \in Part
        BY PartIs
      <4> QED BY <2>2, <4>1, <4>2
    <3> QED BY <3>2, <3>3
  <2> DEFINE T == {i \in 1 .. n + 1 : rest[i] \in Seq(Part)}
  <2>4. n + 1 \in T
    <3>1. n + 1 \in 1 .. n + 1 /\ <<>> \in Seq(Part)
      BY <1>1
    <3> QED BY <2>2, <3>1
  <2>5. ASSUME NEW i \in 1 .. n, i + 1 .. n + 1 \subseteq T PROVE i \in T
    <3>1. PartAt(text, i) \in Part /\ After(text, i) \in i + 1 .. n + 1
      BY PartIs
    <3>2. rest[After(text, i)] \in Seq(Part)
      BY <2>5, <3>1
    <3>3. i \in 1 .. n + 1
      BY <1>1
    <3>4. <<PartAt(text, i)>> \in Seq(Part)
      BY <3>1
    <3>5. rest[i] \in Seq(Part)
      BY <2>3, <3>2, <3>4, ConcatProperties
    <3> QED BY <3>3, <3>5
  <2> HIDE DEF T
  <2>6. 1 .. n + 1 \subseteq T
    BY <1>1, <2>4, <2>5, Downwards
  <2>7. \A i \in 1 .. n + 1 : rest[i] \in Seq(Part)
    BY <2>6 DEF T
  <2> QED BY <2>1, <2>2, <2>3, <2>7 DEF Solves
<1> QED BY <1>2, <1>7, SolutionChains

\* Before the answer there are no parts, and from then on they are its parts.
AnswerInv ==
  IF turn \in {"running", "abandoned"}
  THEN parts = <<>>
  ELSE said \in Text /\ said # <<>> /\ Chain(said, 1, parts)

LEMMA AnswerStep ==
  ASSUME AnswerInv, [ViewNext]_viewVars
  PROVE  AnswerInv'
<1>1. CASE Reply
  <2>1. PICK text \in Answers \cup SilentAnswers :
          said' = text /\ parts' = chunkText(text) /\ turn' = "answering"
    BY <1>1 DEF Reply
  <2>2. text \in Text /\ text # <<>>
    BY ViewAssumption DEF ViewAssumption, Text
  <2>3. Chain(text, 1, chunkText(text))
    BY <2>2, ChunkChains
  <2>4. said' \in Text /\ said' # <<>> /\ Chain(said', 1, parts')
    BY <2>1, <2>2, <2>3
  <2> QED BY <2>1, <2>4 DEF AnswerInv
<1>2. CASE Status \/ Chunk \/ Reset \/ TimePasses \/ Abandon \/ PostPart
           \/ Finish \/ TidyPing \/ UNCHANGED viewVars
  <2>1. /\ UNCHANGED <<said, parts>>
        /\ turn \in {"running", "abandoned"} <=> turn' \in {"running", "abandoned"}
    BY <1>2 DEF Status, Chunk, Reset, TimePasses, Abandon, PostPart, Finish,
                TidyPing, viewVars, reply, Event
  <2> QED BY <2>1 DEF AnswerInv
<1> QED BY <1>1, <1>2 DEF ViewNext

\* What a chain of parts is, link by link.
LEMMA Links ==
  ASSUME said \in Text, Chain(said, 1, parts), NEW i \in DOMAIN parts
  PROVE  LET p == parts[i]
             cut == CutAt(said, p.from)
             later == IF i = Len(parts) THEN Len(said) + 1 ELSE parts[i + 1].from
         IN  /\ p.from \in 1 .. Len(said)
             /\ IF Long(said, p.from)
                THEN /\ p.to = p.from + cut - 1 /\ p.to + 1 \in 1 .. Len(said)
                     /\ cut \in gatewayMaxLen \div 2 + 1 .. gatewayMaxLen
                     /\ later = IF p.to + 1 \in Newlines(said) THEN p.to + 2
                                                              ELSE p.to + 1
                ELSE i = Len(parts) /\ p.to = Len(said)
<1> DEFINE p == parts[i]
           n == Len(parts)
           L == Len(said)
           cut == CutAt(said, p.from)
           later == IF i = n THEN L + 1 ELSE parts[i + 1].from
<1>1. n \in Nat /\ L \in Nat /\ i \in 1 .. n
  BY DEF Chain, Text
<1>2. /\ p.from \in 1 .. L /\ p = PartAt(said, p.from)
      /\ After(said, p.from) = IF i < n THEN parts[i + 1].from ELSE L + 1
  BY <1>1 DEF Chain
<1>3. After(said, p.from) = later
  BY <1>1, <1>2
<1>4. i < n => parts[i + 1].from \in 1 .. L
  <2> HAVE i < n
  <2>1. i + 1 \in 1 .. n
    BY <1>1
  <2> QED BY <2>1 DEF Chain
<1> DEFINE at == p.from
<1>5. p.to = IF Long(said, at) THEN at + cut - 1 ELSE L
  <2>1. p.to = PartAt(said, at).to
    BY <1>2
  <2> HIDE DEF p, at, cut
  <2> QED BY <2>1 DEF PartAt, cut, at
<1> HIDE DEF later
<1>6. CASE Long(said, at)
  <2>1. cut \in gatewayMaxLen \div 2 + 1 .. gatewayMaxLen /\ at + cut \in 1 .. L
    BY <1>2, <1>6, CutIs
  <2>2. gatewayMaxLen \in Nat /\ gatewayMaxLen \div 2 \in Nat
    BY ViewAssumption DEF ViewAssumption
  <2>3. later = IF at + cut \in Newlines(said) THEN at + cut + 1 ELSE at + cut
    BY <1>2, <1>3, <1>6, <2>1, AfterIs DEF After
  <2>4. p.to + 1 = at + cut /\ p.to + 2 = at + cut + 1
    BY <1>2, <1>5, <1>6, <2>1, <2>2
  <2> HIDE DEF cut, p, at
  <2>5. /\ p.to = at + cut - 1 /\ p.to + 1 \in 1 .. L
        /\ later = IF p.to + 1 \in Newlines(said) THEN p.to + 2 ELSE p.to + 1
    BY <1>5, <1>6, <2>1, <2>3, <2>4
  <2> QED BY <1>2, <1>6, <2>1, <2>5 DEF cut, p, at, later
<1>7. CASE ~Long(said, at)
  <2>1. later = L + 1
    BY <1>3, <1>7 DEF After
  <2>2. i = n
    BY <1>1, <1>4, <2>1 DEF later
  <2> QED BY <1>2, <1>5, <1>7, <2>2
<1> QED BY <1>6, <1>7

LEMMA ChainMakesTheText ==
  ASSUME said \in Text, said # <<>>, Chain(said, 1, parts)
  PROVE  PartsMakeTheText /\ PartsFit
<1> DEFINE n == Len(parts)
           L == Len(said)
           M == gatewayMaxLen
           H == gatewayMaxLen \div 2
<1>1. n \in Nat /\ L \in Nat /\ L > 0 /\ DOMAIN parts = 1 .. n
  BY DEF Chain, Text
<1>2. parts # <<>> /\ parts[1].from = 1
  BY <1>1 DEF Chain
<1>3. M \in Nat /\ H \in Nat
  BY ViewAssumption DEF ViewAssumption
<1>4. ASSUME NEW i \in DOMAIN parts
      PROVE  /\ i = n => Between(i) \in {{}, {L}}
             /\ Between(i) \subseteq {parts[i].to + 1}
             /\ \A k \in Between(i) : k \in Newlines(said)
             /\ i < n => parts[i + 1].from > parts[i].to
             /\ parts[i].to - parts[i].from + 1 \in 1 .. M
             /\ i < n => parts[i].to - parts[i].from + 1 > H
  <2> DEFINE a == parts[i].from
             b == parts[i].to
             cut == CutAt(said, a)
             later == IF i = n THEN L + 1 ELSE parts[i + 1].from
  <2>1. /\ a \in 1 .. L
        /\ IF Long(said, a)
           THEN /\ b = a + cut - 1 /\ b + 1 \in 1 .. L
                /\ cut \in H + 1 .. M
                /\ later = IF b + 1 \in Newlines(said) THEN b + 2 ELSE b + 1
           ELSE i = n /\ b = L
    BY Links
  <2>2. Between(i) = b + 1 .. later - 1
    BY <1>1 DEF Between
  <2>3. i < n => i # n /\ parts[i + 1].from = later
    BY <1>1
  <2> HIDE DEF a, b, cut, later, H, M, n, L
  <2>4. CASE Long(said, a)
    <3>1. /\ b \in Nat /\ b = a + cut - 1 /\ b - a + 1 = cut /\ cut \in 1 .. M
          /\ cut > H /\ b + 1 <= L
      BY <1>1, <1>3, <2>1, <2>4
    <3>2. CASE b + 1 \in Newlines(said)
      <4>1. later = b + 2
        BY <2>1, <2>4, <3>2
      <4>2. b + 1 .. later - 1 = {b + 1}
        BY <3>1, <4>1
      <4>3. i = n => b + 1 = L
        BY <1>1, <3>1, <4>1 DEF later
      <4>4. later > b
        BY <3>1, <4>1
      <4> QED BY <2>2, <2>3, <3>1, <3>2, <4>2, <4>3, <4>4 DEF a, b
    <3>3. CASE b + 1 \notin Newlines(said)
      <4>1. later = b + 1
        BY <2>1, <2>4, <3>3
      <4>2. b + 1 .. later - 1 = {} /\ later > b
        BY <3>1, <4>1
      <4> QED BY <2>2, <2>3, <3>1, <4>2 DEF a, b
    <3> QED BY <3>2, <3>3
  <2>5. CASE ~Long(said, a)
    <3>1. i = n /\ b = L /\ later = L + 1
      BY <2>1, <2>5 DEF later
    <3>2. b + 1 .. later - 1 = {}
      BY <1>1, <3>1
    <3>3. b - a + 1 \in 1 .. M
      <4>1. L - a + 1 <= M
        BY <1>1, <1>3, <2>1, <2>5 DEF Long, L, M
      <4> QED BY <1>1, <1>3, <2>1, <3>1, <4>1
    <3>4. ~(i < n)
      BY <1>1, <3>1
    <3> QED BY <2>2, <3>1, <3>2, <3>3, <3>4 DEF a, b
  <2> QED BY <2>4, <2>5
<1>5. PartsMakeTheText
  BY <1>2, <1>4 DEF PartsMakeTheText, Newlines
<1>6. PartsFit
  BY <1>4 DEF PartsFit
<1> QED BY <1>5, <1>6

\* No newline lies between two positions.
Joined(j, k) ==
  \A m \in DOMAIN said : (j <= m /\ m <= k) \/ (k <= m /\ m <= j) =>
    m \notin Newlines(said)

\* A line that runs past the place where a long part had to be cut is as long as
\* the half of a part in which there was no newline.
LEMMA CutLineIsLong ==
  ASSUME said \in Text, NEW from \in 1 .. Len(said), Long(said, from),
         from + CutAt(said, from) \notin Newlines(said),
         NEW k \in DOMAIN said, NEW j \in DOMAIN said, Joined(j, k), k >= from,
         \/ k < from + CutAt(said, from) /\ j >= from + CutAt(said, from)
         \/ k >= from + CutAt(said, from) /\ j < from + CutAt(said, from)
  PROVE  Cardinality(LineOf(k)) >= gatewayMaxLen - gatewayMaxLen \div 2
<1> DEFINE L == Len(said)
           M == gatewayMaxLen
           H == gatewayMaxLen \div 2
           half == from + H + 1 .. from + M
<1>1. M \in Nat /\ H \in Nat /\ H < M /\ L \in Nat
  BY ViewAssumption DEF ViewAssumption, Text
<1>2. DOMAIN said = 1 .. L /\ from \in Nat /\ k \in Nat /\ j \in Nat
  BY DEF Text
<1>3. /\ CutAt(said, from) = M /\ from + M \in 1 .. L
      /\ from + M \notin Newlines(said)
      /\ \A e \in H + 1 .. M - 1 : from + e \notin Newlines(said)
  BY CutIs
<1>4. \/ k < from + M /\ j >= from + M
      \/ k >= from + M /\ j < from + M
  BY <1>3
<1> HIDE DEF H, M, L
<1>5. \A m \in half : m \in 1 .. L /\ m \notin Newlines(said)
  <2> TAKE m \in half
  <2>1. m \in 1 .. L
    BY <1>1, <1>3
  <2>2. CASE m = from + M
    BY <1>3, <2>1, <2>2
  <2>3. CASE m # from + M
    <3> DEFINE e == m - from
    <3>1. e \in H + 1 .. M - 1 /\ m = from + e
      BY <1>1, <2>3
    <3> HIDE DEF e
    <3> QED BY <1>3, <2>1, <3>1
  <2> QED BY <2>2, <2>3
<1>6. ASSUME NEW m \in half, NEW x \in DOMAIN said,
             (m <= x /\ x <= k) \/ (k <= x /\ x <= m)
      PROVE  x \notin Newlines(said)
  <2>1. m \in Nat /\ x \in Nat /\ from + H + 1 <= m /\ m <= from + M
    BY <1>1, <1>2
  <2>2. x \in half \/ (j <= x /\ x <= k) \/ (k <= x /\ x <= j)
    BY <1>1, <1>2, <1>4, <1>6, <2>1
  <2> QED BY <1>5, <2>2 DEF Joined
<1>7. half \subseteq LineOf(k)
  <2> SUFFICES ASSUME NEW m \in half PROVE m \in LineOf(k)
    OBVIOUS
  <2>1. m \in DOMAIN said
    BY <1>2, <1>5
  <2>2. \A x \in DOMAIN said : (m <= x /\ x <= k) \/ (k <= x /\ x <= m) =>
          said[x] # "nl"
    BY <1>6 DEF Newlines
  <2> QED BY <2>1, <2>2 DEF LineOf
<1>8. IsFiniteSet(LineOf(k))
  <2>1. LineOf(k) \subseteq 1 .. L
    BY <1>2 DEF LineOf
  <2>2. IsFiniteSet(1 .. L)
    BY <1>1, FS_Interval
  <2> QED BY <2>1, <2>2, FS_Subset
<1>9. Cardinality(half) = M - H
  <2>1. from + H + 1 \in Int /\ from + M \in Int
    BY <1>1
  <2>2. Cardinality(half) = (from + M) - (from + H + 1) + 1
    BY <1>1, <2>1, FS_Interval
  <2> QED BY <1>1, <2>2
<1> HIDE DEF half
<1>10. Cardinality(half) <= Cardinality(LineOf(k))
  BY <1>7, <1>8, FS_Subset
<1>11. Cardinality(LineOf(k)) \in Nat
  BY <1>8, FS_CardinalityType
<1> QED BY <1>1, <1>9, <1>10, <1>11 DEF M, H

\* A line that is short is all in one part.
LEMMA ShortLineStays ==
  ASSUME said \in Text, Chain(said, 1, parts), NEW i \in DOMAIN parts,
         NEW k \in parts[i].from .. parts[i].to,
         Cardinality(LineOf(k)) < gatewayMaxLen - gatewayMaxLen \div 2
  PROVE  LineOf(k) \subseteq parts[i].from .. parts[i].to
<1> DEFINE L == Len(said)
           M == gatewayMaxLen
           H == gatewayMaxLen \div 2
           a == parts[i].from
           b == parts[i].to
           cut == CutAt(said, a)
<1>1. M \in Nat /\ H \in Nat /\ L \in Nat /\ DOMAIN said = 1 .. L
  BY ViewAssumption DEF ViewAssumption, Text
<1>2. /\ a \in 1 .. L
      /\ IF Long(said, a)
         THEN /\ b = a + cut - 1 /\ b + 1 \in 1 .. L /\ cut \in H + 1 .. M
         ELSE b = L
  BY Links
<1>3. b \in Nat /\ b <= L
  <2> HIDE DEF a, b, cut, H, M, L
  <2> QED BY <1>1, <1>2
<1>4. k \in DOMAIN said /\ k \in Nat /\ a <= k /\ k <= b
  <2>1. k \in a .. b
    OBVIOUS
  <2> HIDE DEF a, b, cut, H, M, L
  <2> QED BY <1>1, <1>2, <1>3, <2>1
<1>5. Cardinality(LineOf(k)) \in Nat
  <2>1. LineOf(k) \subseteq 1 .. L
    BY <1>1 DEF LineOf
  <2>2. IsFiniteSet(1 .. L)
    BY <1>1, FS_Interval
  <2>3. IsFiniteSet(LineOf(k))
    BY <2>1, <2>2, FS_Subset
  <2> QED BY <2>3, FS_CardinalityType
<1> SUFFICES ASSUME NEW j \in LineOf(k), j \notin a .. b PROVE FALSE
  OBVIOUS
<1>6. j \in DOMAIN said /\ Joined(j, k)
  BY DEF LineOf, Joined, Newlines
<1>7. CASE j > b
  <2>1. Long(said, a)
    BY <1>1, <1>2, <1>6, <1>7
  <2>2. a + cut = b + 1
    <3> HIDE DEF a, b, cut, H, M, L
    <3> QED BY <1>1, <1>2, <1>3, <2>1
  <2>3. b + 1 \in DOMAIN said /\ k <= b + 1 /\ b + 1 <= j
    <3> HIDE DEF a, b, cut, H, M, L
    <3> QED BY <1>1, <1>2, <1>3, <1>4, <1>6, <1>7, <2>1
  <2>4. b + 1 \notin Newlines(said)
    BY <1>6, <2>3 DEF Joined
  <2>5. k < a + cut /\ j >= a + cut /\ k >= a
    <3> HIDE DEF a, b, cut, H, M, L
    <3> QED BY <1>3, <1>4, <2>2, <2>3
  <2> HIDE DEF b
  <2>6. Cardinality(LineOf(k)) >= M - H
    BY <1>2, <1>4, <1>6, <2>1, <2>2, <2>4, <2>5, CutLineIsLong
  <2> HIDE DEF a, cut
  <2> QED BY <1>1, <1>5, <2>6
<1>8. CASE j < a
  <2>1. i # 1 /\ i - 1 \in DOMAIN parts /\ (i - 1) + 1 = i /\ i - 1 # Len(parts)
    <3>1. DOMAIN parts = 1 .. Len(parts) /\ Len(parts) \in Nat
      BY DEF Chain
    <3>2. parts[1].from = 1
      BY <3>1 DEF Chain
    <3>3. i # 1
      BY <1>1, <1>6, <1>8, <3>2
    <3> QED BY <3>1, <3>3
  <2> DEFINE h == i - 1
             c == parts[h].from
             d == parts[h].to
             cut2 == CutAt(said, c)
  <2>2. /\ c \in 1 .. L /\ Long(said, c)
        /\ d = c + cut2 - 1 /\ d + 1 \in 1 .. L /\ cut2 \in H + 1 .. M
        /\ parts[h + 1].from = IF d + 1 \in Newlines(said) THEN d + 2 ELSE d + 1
    <3> HIDE DEF h
    <3>1. h \in DOMAIN parts /\ h # Len(parts)
      BY <2>1 DEF h
    <3> QED BY <3>1, Links
  <2>3. a = IF d + 1 \in Newlines(said) THEN d + 2 ELSE d + 1
    BY <2>1, <2>2
  <2> HIDE DEF a, b, cut, d, c, cut2, H, M, L
  <2>4. d \in Nat /\ j \in Nat /\ c \in Nat /\ cut2 \in Nat /\ a \in Nat
    BY <1>1, <1>2, <1>6, <2>2
  <2>5. d + 1 \notin Newlines(said)
    <3> SUFFICES ASSUME d + 1 \in Newlines(said) PROVE FALSE
      OBVIOUS
    <3>1. a = d + 2
      BY <2>3
    <3>2. j <= d + 1 /\ d + 1 <= k /\ d + 1 \in DOMAIN said
      BY <1>1, <1>4, <1>8, <2>2, <2>4, <3>1
    <3> QED BY <1>6, <3>2 DEF Joined
  <2>6. c + cut2 = d + 1 /\ a = d + 1
    BY <2>2, <2>3, <2>4, <2>5
  <2>7. k >= c /\ k >= c + cut2 /\ j < c + cut2
    BY <1>4, <1>8, <2>2, <2>4, <2>6
  <2>8. Cardinality(LineOf(k)) >= M - H
    <3>1. c \in 1 .. Len(said) /\ Long(said, c) /\ c + CutAt(said, c) \notin Newlines(said)
      BY <2>2, <2>5, <2>6 DEF cut2, L
    <3> QED BY <1>4, <1>6, <2>7, <3>1, CutLineIsLong DEF cut2, M, H
  <2>9. Cardinality(LineOf(k)) < M - H
    BY DEF M, H
  <2> QED BY <1>1, <1>5, <2>8, <2>9
<1>9. j > b \/ j < a
  <2> HIDE DEF a, b, cut, H, M, L
  <2> QED BY <1>1, <1>2, <1>3, <1>6
<1> QED BY <1>7, <1>8, <1>9

\* The parts of an answer make the answer, but for the newlines at which it is
\* cut, each can be posted, and no short line is torn, however long the answer is
\* and wherever its newlines are (chunkText, onReply of sink.go).
THEOREM AnswerKept == ViewSpec => []AnswerIsWhole
<1>1. ViewInit => AnswerInv
  BY DEF ViewInit, AnswerInv
<1>2. AnswerInv => AnswerIsWhole
  <2>1. CASE turn \in {"running", "abandoned"}
    <3>1. DOMAIN parts = {} \/ ~AnswerInv
      BY <2>1 DEF AnswerInv
    <3> QED BY <2>1, <3>1
            DEF AnswerIsWhole, PartsMakeTheText, PartsFit, ShortLinesStayWhole
  <2>2. CASE turn \notin {"running", "abandoned"}
    <3> SUFFICES ASSUME AnswerInv PROVE AnswerIsWhole
      OBVIOUS
    <3>1. said \in Text /\ said # <<>> /\ Chain(said, 1, parts)
      BY <2>2 DEF AnswerInv
    <3>2. ShortLinesStayWhole
      BY <3>1, ShortLineStays DEF ShortLinesStayWhole
    <3> QED BY <3>1, <3>2, ChainMakesTheText DEF AnswerIsWhole
  <2> QED BY <2>1, <2>2
<1> QED BY <1>1, <1>2, AnswerStep, PTL DEF ViewSpec

=============================================================================
