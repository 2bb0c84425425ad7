-------------------------------- MODULE Topic --------------------------------
(***************************************************************************)
(* What a ping is about: the repository it names, the thread its text      *)
(* gives a name to, and the files that come with the message it points at  *)
(* (src/topic.go, src/reference.go).  Pure functions; Intake calls them.   *)
(*                                                                         *)
(* A repository is its owner and base name, a token of a text likewise:    *)
(* owner/base, or a bare word.  A text is a sequence of characters, of     *)
(* which only "<", ">" and " " matter.  Of a URL it matters whether it is  *)
(* one of Discord's own.                                                   *)
(***************************************************************************)
EXTENDS Naturals, Sequences, SequencesExt

CONSTANTS
  LongNames,      \* base names of at least minRepoToken characters
  NameMax,        \* threadNameMax
  Mirrored,       \* the URLs on an attachment host that have a file name
  Nothing,        \* no owner, no repository, no URL
  TooMany         \* more than one repository

ASSUME TopicAssumption == NameMax \in Nat \ {0} /\ Nothing # TooMany

-----------------------------------------------------------------------------
(* matchRepo.                                                              *)

names(toks, repo) ==
  \/ repo.owner # Nothing /\ [owner |-> repo.owner, base |-> repo.base] \in toks
  \/ repo.base \in LongNames /\ [owner |-> Nothing, base |-> repo.base] \in toks

LastWins(hit, repo) == repo
SameRepo(hit, repo) == IF repo.local THEN repo ELSE hit

\* What is known once one more repository has been looked at: none yet, one, or
\* too many, which no later one can change.
Weighed(toks, hit, repo) ==
  IF hit = TooMany \/ ~names(toks, repo) THEN hit
  ELSE IF hit = Nothing THEN repo
  ELSE IF hit.base = repo.base THEN SameRepo(hit, repo) ELSE TooMany

matchRepo(toks, repos) ==
  FoldLeft(LAMBDA hit, repo : Weighed(toks, hit, repo), Nothing, repos)

-----------------------------------------------------------------------------
(* threadName.                                                             *)

NeverCloses(open, char) == open
Deeper(open, char) ==
  CASE char = "<" -> open + 1
    [] char = ">" /\ open > 0 -> open - 1
    [] OTHER -> open

outsideAngles(text) ==
  FoldLeft(LAMBDA seen, char :
             [open |-> Deeper(seen.open, char),
              kept |-> IF seen.open = 0 /\ char # "<"
                       THEN Append(seen.kept, char) ELSE seen.kept],
           [open |-> 0, kept |-> <<>>], text).kept

TrimRight(text) ==
  SubSeq(text, 1, Len(text) - IF text # <<>> /\ Last(text) = " " THEN 1 ELSE 0)

\* strings.Fields joined with single spaces.
OneLine(text) ==
  TrimRight(FoldLeft(LAMBDA line, char :
                       IF char = " " /\ (line = <<>> \/ Last(line) = " ")
                       THEN line ELSE Append(line, char), <<>>, text))

ClippedLate(name) == SubSeq(name, 1, NameMax)
Clipped(name) == TrimRight(SubSeq(name, 1, NameMax - 1))

threadName(text) ==
  LET name == OneLine(outsideAngles(text))
  IN  IF name = <<>> THEN <<"session">>
      ELSE IF Len(name) > NameMax THEN Append(Clipped(name), "...") ELSE name

-----------------------------------------------------------------------------
(* The message a ping points at, and its files: reference, attachmentsOf.  *)

carries(ref) == ref.text \/ ref.uploads # <<>> \/ ref.embeds # <<>>

\* What the event has of it will do; else it is fetched, which may fail.
reference(ref, fetched) ==
  IF ref = Nothing \/ carries(ref) THEN ref
  ELSE IF ref.hasId /\ fetched # Nothing /\ carries(fetched) THEN fetched
  ELSE Nothing

mediaURL(media) == IF media.proxy # Nothing THEN media.proxy ELSE media.url

Image(embed) ==
  IF mediaURL(embed.image) # Nothing THEN mediaURL(embed.image)
                                     ELSE mediaURL(embed.thumbnail)

SeenAgain(out, url) == url \notin Mirrored
Skipped(out, url) == url \notin Mirrored \/ Contains(out, url)

embedImages(embeds) ==
  FoldLeft(LAMBDA out, embed :
             IF Skipped(out, Image(embed)) THEN out
                                           ELSE Append(out, Image(embed)),
           <<>>, embeds)

QuotedFirst(uploads, ref) ==
  IF ref = Nothing THEN uploads
  ELSE ref.uploads \o embedImages(ref.embeds) \o uploads
attachmentsOf(uploads, ref) ==
  IF ref = Nothing THEN uploads
  ELSE uploads \o ref.uploads \o embedImages(ref.embeds)
=============================================================================
