-------------------------------- MODULE View --------------------------------
(***************************************************************************)
(* One turn as a channel sees it: the progress message (src/progress.go)   *)
(* and the answer cut into messages (onReply, chunkText of src/sink.go).   *)
(*                                                                         *)
(* SinkRender says when there is a view at all, and whose ping is tidied;  *)
(* here is what the view holds, what of it the message shows when edits    *)
(* are throttled and Discord refuses some, and what becomes of the answer. *)
(* A line is its tool, or the thinking, and a detail; of its wording only  *)
(* its length counts.  The clock is the time since the last edit.          *)
(***************************************************************************)
EXTENDS Naturals, Sequences, FiniteSets, SequencesExt, FiniteSetsExt

CONSTANTS
  Tools, Details,
  Thinking,        \* the head of a text event
  NoDetail,
  maxLines,
  gatewayMaxLen,
  Answers,         \* the answers of a turn that shows progress: sequences of
                   \* "a", any character but the newline, and "nl"
  SilentAnswers,   \* those of a turn that shows none
  MaxEvents        \* bound: events of a turn

ASSUME ViewAssumption ==
  /\ Thinking \notin Tools /\ NoDetail \notin Details
  /\ maxLines \in Nat \ {0}
  /\ gatewayMaxLen \in Nat /\ gatewayMaxLen > 4    \* a header and one line fit
  /\ Answers \cup SilentAnswers \subseteq Seq({"a", "nl"}) \ {<<>>}

Levels == {"silent", "quiet", "actions", "full"}
Bare(head) == [head |-> head, detail |-> NoDetail]
Nowhere == [lines |-> <<>>, elided |-> FALSE, seen |-> <<>>]

VARIABLES
  turn,        \* how far the turn is
  level,
  lines,       \* p.lines, each a line and how often it was pushed
  elided, lastLine, lastCount,
  counts, order, actions,
  sent,        \* p.msgID is set
  sinceEdit,   \* p.lastEdit: "never", or an edit that was "just now" or "past"
  dirty,
  parts, next, \* the answer cut, and the part to be posted next
  said,        \* history: the answer
  seen,        \* history: the lines pushed since the last reset
  used,        \* history: the tools since the last reset
  shown,       \* history: what the progress message shows, and seen then
  edits,       \* history: unforced edits Discord took in one progressInterval
  events,      \* history: events of the turn
  lost,        \* history: a part of the answer was refused
  tidied       \* history: the ping is deleted

window == <<lines, elided, lastLine, lastCount>>
tally  == <<counts, order, actions>>
edit   == <<sent, sinceEdit, dirty, shown, edits>>
reply  == <<parts, next, said, lost, tidied>>
viewVars == <<turn, level, window, tally, edit, reply, seen, used, events>>

\* onHuman: a view, unless the level is silent.
ViewInit ==
  /\ turn = "running" /\ level \in Levels
  /\ lines = <<>> /\ elided = FALSE
  /\ lastLine = Bare(Thinking) /\ lastCount = 0
  /\ counts = [t \in Tools |-> 0] /\ order = <<>> /\ actions = 0
  /\ sent = FALSE /\ sinceEdit = "never" /\ dirty = FALSE
  /\ parts = <<>> /\ next = 1 /\ said = <<>>
  /\ seen = <<>> /\ used = <<>> /\ shown = Nowhere /\ edits = 0 /\ events = 0
  /\ lost = FALSE /\ tidied = FALSE

rendersProgress == level # "silent"

-----------------------------------------------------------------------------
(* render and frame.                                                       *)

\* The name of a tool is taken to be short: it is all of a line add does not clip.
Length(entry) ==
  1 + (IF entry.line.detail # NoDetail THEN 1 ELSE 0)
    + (IF entry.count > 1 THEN 1 ELSE 0)

\* A header, the mark of what is left out, and the lines.
FrameLength(kept, cut) ==
  1 + (IF cut THEN 1 ELSE 0) + FoldLeft(LAMBDA sum, entry : sum + Length(entry), 0, kept)

From(k) == SubSeq(lines', k + 1, Len(lines'))

WholeWindow == [lines |-> lines', elided |-> elided', seen |-> seen']
SilentCut ==
  LET k == Min({j \in 0 .. Len(lines') :
                  \/ Len(lines') - j <= 1
                  \/ FrameLength(From(j), elided') <= gatewayMaxLen})
  IN  [lines |-> From(k), elided |-> elided', seen |-> seen']

\* Lines are left out from the top until the rest fits.
render ==
  LET k == Min({j \in 0 .. Len(lines') :
                  \/ Len(lines') - j <= 1
                  \/ FrameLength(From(j), elided' \/ j > 0) <= gatewayMaxLen})
  IN  [lines |-> From(k), elided |-> elided' \/ k > 0, seen |-> seen']

-----------------------------------------------------------------------------
(* flush.  It comes last in a step, with something to show.                *)

Due(force) == force \/ sinceEdit # "just now"

FirstEditOnly == IF sinceEdit = "never" THEN "just now" ELSE sinceEdit
EditedAt == "just now"

Edited(force) ==
  /\ shown' = render
  /\ sent' = TRUE /\ sinceEdit' = EditedAt /\ dirty' = FALSE
  /\ edits' = IF force THEN edits ELSE edits + 1

Keep(stillDirty) ==
  dirty' = stillDirty /\ UNCHANGED <<shown, sent, sinceEdit, edits>>

RefusalIsForgotten == Keep(FALSE)
Refused == Keep(TRUE)

flush(force) == IF Due(force) THEN Edited(force) \/ Refused ELSE Keep(TRUE)

-----------------------------------------------------------------------------
(* add, push and reset.                                                    *)

push(line) ==
  LET again == lastCount > 0 /\ line = lastLine
      count == IF again THEN lastCount + 1 ELSE 1
      older == IF again THEN Front(lines) ELSE lines
      all   == Append(older, [line |-> line, count |-> count])
  IN  /\ lastLine' = line /\ lastCount' = count
      /\ lines' = SubSeq(all, IF Len(all) > maxLines THEN 2 ELSE 1, Len(all))
      /\ elided' = (elided \/ Len(all) > maxLines)
      /\ seen' = Append(seen, line)

Event == turn = "running" /\ events < MaxEvents /\ events' = events + 1

\* onStatus: a tool is used.
Status ==
  /\ Event /\ rendersProgress
  /\ \E tool \in Tools, detail \in Details \cup {NoDetail} :
       /\ counts' = [counts EXCEPT ![tool] = @ + 1]
       /\ order' = IF counts[tool] = 0 THEN Append(order, tool) ELSE order
       /\ used' = Append(used, tool)
       /\ push([head |-> tool,
                detail |-> IF level = "quiet" THEN NoDetail ELSE detail])
  /\ actions' = actions + 1
  /\ flush(FALSE)
  /\ UNCHANGED <<turn, level, reply>>

\* onChunk: the agent thinks aloud.
Chunk ==
  /\ Event /\ level = "full"
  /\ \E detail \in Details : push([head |-> Thinking, detail |-> detail])
  /\ flush(FALSE)
  /\ UNCHANGED <<turn, level, tally, used, reply>>

TallyStays == UNCHANGED tally
ForgetTally ==
  /\ counts' = [t \in Tools |-> 0] /\ order' = <<>> /\ actions' = 0

LastStays == UNCHANGED <<lastLine, lastCount>>
ForgetLast == lastLine' = Bare(Thinking) /\ lastCount' = 0

\* onReset: the turn starts over.
Reset ==
  /\ Event /\ rendersProgress
  /\ lines' = <<>> /\ elided' = FALSE /\ ForgetLast /\ ForgetTally
  /\ seen' = <<>> /\ used' = <<>>
  /\ IF sent THEN flush(TRUE) ELSE UNCHANGED edit
  /\ UNCHANGED <<turn, level, reply>>

\* progressInterval has gone by since the last edit.
TimePasses ==
  /\ turn = "running"
  /\ sinceEdit = "just now" \/ edits > 0
  /\ sinceEdit' = "past" /\ edits' = 0
  /\ UNCHANGED <<turn, level, window, tally, sent, dirty, shown, reply, seen,
                 used, events>>

\* onAbandoned: the last lines are shown, and the view stays as it is.
Abandon ==
  /\ turn = "running" /\ turn' = "abandoned"
  /\ UNCHANGED window /\ UNCHANGED seen
  /\ IF dirty THEN flush(TRUE) ELSE UNCHANGED edit
  /\ UNCHANGED <<level, tally, used, reply, events>>

-----------------------------------------------------------------------------
(* onReply: the answer, then the summary, then the ping.                   *)

CutsAnywhere(text, from) == gatewayMaxLen
CutsAtAnyLine(text, from) ==
  LET ends == {i \in 1 .. gatewayMaxLen - 1 : text[from + i] = "nl"}
  IN  IF ends = {} THEN gatewayMaxLen ELSE Max(ends)

\* How much of the text goes into one part: up to its last newline, if that is
\* in its second half.
CutAt(text, from) ==
  LET ends == {i \in gatewayMaxLen \div 2 + 1 .. gatewayMaxLen - 1 :
                 text[from + i] = "nl"}
  IN  IF ends = {} THEN gatewayMaxLen ELSE Max(ends)

SkipsOne(text, i) == i + 1
\* The newline a part was cut at, if any, is in neither part.
AfterNewline(text, i) == IF text[i] = "nl" THEN i + 1 ELSE i

\* A part is a range of the text.
chunkText(text) ==
  LET Rest[from \in 1 .. Len(text) + 1] ==
        LET cut == CutAt(text, from)
        IN  CASE Len(text) - from + 1 > gatewayMaxLen ->
                   <<[from |-> from, to |-> from + cut - 1]>>
                     \o Rest[AfterNewline(text, from + cut)]
              [] from > Len(text) -> <<>>
              [] OTHER -> <<[from |-> from, to |-> Len(text)]>>
  IN  Rest[1]

Reply ==
  /\ turn = "running" /\ turn' = "answering"
  /\ said' \in (IF rendersProgress THEN Answers ELSE SilentAnswers)
  /\ parts' = chunkText(said')
  /\ UNCHANGED <<level, window, tally, edit, next, lost, tidied, seen, used,
                 events>>

\* postParts: a part that is refused is left out, and the next one posted.
PostPart ==
  /\ turn = "answering" /\ next <= Len(parts)
  /\ next' = next + 1 /\ lost' \in {lost, TRUE}
  /\ UNCHANGED <<turn, level, window, tally, edit, parts, said, tidied, seen,
                 used, events>>

summary == [order |-> order, counts |-> counts, actions |-> actions]

\* finish: the summary, or nothing where nothing was shown or to be shown.
Finish ==
  /\ turn = "answering" /\ next > Len(parts) /\ turn' = "answered"
  /\ IF rendersProgress /\ (sent \/ lines # <<>>)
     THEN shown' \in {shown, summary}
     ELSE UNCHANGED shown
  /\ UNCHANGED <<level, window, tally, sent, sinceEdit, dirty, edits, reply,
                 seen, used, events>>

\* tidyPing, where it may, and Discord lets it.
TidyPing ==
  /\ turn = "answered" /\ turn' = "over"
  /\ tidied' \in BOOLEAN
  /\ UNCHANGED <<level, window, tally, edit, parts, next, said, lost, seen,
                 used, events>>

ViewNext ==
  \/ Status \/ Chunk \/ Reset \/ TimePasses \/ Abandon
  \/ Reply \/ PostPart \/ Finish \/ TidyPing

ViewSpec == ViewInit /\ [][ViewNext]_viewVars

-----------------------------------------------------------------------------
(* The progress message.                                                   *)

\* A repeated line finds the line it repeats at the end of the window, however
\* the window was cut and reset: push writes to lines[len(lines)-1].
PushHasALine ==
  lastCount > 0 =>
    /\ lines # <<>>
    /\ Last(lines) = [line |-> lastLine, count |-> lastCount]

Frames == "lines" \in DOMAIN shown

Expanded(entries) ==
  FlattenSeq([i \in DOMAIN entries |->
                [j \in 1 .. entries[i].count |-> entries[i].line]])

\* What the message shows is the end of what had happened by then, and all of
\* it unless it says that something is left out.
ShownIsTheEnd ==
  Frames =>
    LET all == Expanded(shown.lines)
    IN  /\ IsSuffix(all, shown.seen)
        /\ ~shown.elided => all = shown.seen

\* Discord takes every frame: it is never longer than a message may be.
ShownFits == Frames => FrameLength(shown.lines, shown.elided) <= gatewayMaxLen

\* Once an edit went through nothing is held back, and what could not be shown
\* stays dirty: a refused edit is made up for by the next one, and an abandoned
\* turn shows its last lines.
CleanIsShown ==
  turn \in {"running", "abandoned"} /\ sent /\ ~dirty => shown.seen = seen

\* Of the edits Discord takes there is one in an interval, apart from a reset and
\* an abandoned turn.  An edit it refuses does not count: the next event tries
\* again at once, so what is tried has no pace while Discord refuses.
EditsArePaced == edits <= 1

\* The message keeps up with the turn, with one accepted edit in an interval: what
\* was held back or refused is made up for by the next edit Discord takes.
KeepsUp == CleanIsShown /\ EditsArePaced

\* A frame says what happened last, fits, and owns up to what it leaves out,
\* however the window was cut, counted up and reset.
FrameIsTrue == PushHasALine /\ ShownIsTheEnd /\ ShownFits

Times(tool) == Cardinality({i \in DOMAIN used : used[i] = tool})
First(tool) == Min({i \in DOMAIN used : used[i] = tool})

\* The summary speaks of what was done since the last reset, and of all of it:
\* every tool once, in the order of its first use, with how often it was used.
SummaryCounts ==
  ~Frames =>
    /\ shown.actions = Len(used)
    /\ ToSet(shown.order) = ToSet(used)
    /\ \A i, j \in DOMAIN shown.order :
         i < j => First(shown.order[i]) < First(shown.order[j])
    /\ \A tool \in Tools : shown.counts[tool] = Times(tool)

-----------------------------------------------------------------------------
(* The answer.                                                             *)

Between(i) ==
  parts[i].to + 1 .. (IF i = Len(parts) THEN Len(said)
                                        ELSE parts[i + 1].from - 1)

\* The parts make the text: nothing is lost, said twice or out of order, but for
\* one newline where two parts meet.
PartsMakeTheText ==
  turn \notin {"running", "abandoned"} =>
    /\ parts # <<>> /\ parts[1].from = 1
    /\ \A i \in DOMAIN parts :
         /\ i = Len(parts) => Between(i) \in {{}, {Len(said)}}
         /\ Between(i) \subseteq {parts[i].to + 1}
         /\ \A k \in Between(i) : said[k] = "nl"
         /\ i < Len(parts) => parts[i + 1].from > parts[i].to

\* Every part can be posted, and all but the last are more than half full.
PartsFit ==
  \A i \in DOMAIN parts :
    LET size == parts[i].to - parts[i].from + 1
    IN  /\ size \in 1 .. gatewayMaxLen
        /\ i < Len(parts) => size > gatewayMaxLen \div 2

\* The line of the answer a position is in.
LineOf(k) ==
  {j \in DOMAIN said :
     \A m \in DOMAIN said : (j <= m /\ m <= k) \/ (k <= m /\ m <= j) =>
       said[m] # "nl"}

\* A short line is never split: two parts meet at its ends.
ShortLinesStayWhole ==
  \A i \in DOMAIN parts : \A k \in parts[i].from .. parts[i].to :
    Cardinality(LineOf(k)) < gatewayMaxLen - gatewayMaxLen \div 2 =>
      LineOf(k) \subseteq parts[i].from .. parts[i].to

\* An answer of any length can be read as it was written: nothing is lost, every
\* part can be posted, and it is cut between short lines.
AnswerIsWhole == PartsMakeTheText /\ PartsFit /\ ShortLinesStayWhole

\* The README: "delete the ping once its answer is posted".
TidiedOnlyOnceAnswered == tidied => ~lost
=============================================================================
