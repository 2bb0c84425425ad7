----------------------------- MODULE StateFile -----------------------------
(***************************************************************************)
(* A state file: what the router remembers (src/routerstore.go) and who    *)
(* may use the slash commands (src/allow.go).  Both stores have the same   *)
(* persist: under writeMu, and for the memory's part under mu, a call      *)
(* changes the memory, encodes all of it, and replaces the file by it with *)
(* a temporary file and a rename.                                          *)
(*                                                                         *)
(* What a change does to the content is left out: the content is the       *)
(* sequence of the changes made to it, each named by the call of persist   *)
(* that makes it.  The process may die at any point and start again, and a *)
(* write may fail.                                                         *)
(***************************************************************************)
EXTENDS Naturals, Sequences, SequencesExt

CONSTANTS
  Calls,       \* the calls of persist, each with its change
  NoCall,
  Unreadable   \* a file that cannot be read or does not decode

ASSUME FileAssumption ==
  /\ NoCall \notin Calls
  /\ Unreadable \notin Seq(Calls)

VARIABLES
  memory,    \* the fields of the store
  locked,    \* s.locked: the file could not be loaded
  file,      \* the file under s.path
  writer,    \* the call that holds s.writeMu
  pc,        \* where each call is
  data       \* the content each call encoded

vars == <<memory, locked, file, writer, pc, data>>

InFlight == {"waiting", "entered", "writing", "renaming"}
Over     == {"saved", "failed", "refused", "killed"}

TypeOK ==
  /\ memory \in Seq(Calls)
  /\ locked \in BOOLEAN
  /\ file \in Seq(Calls) \cup {Unreadable}
  /\ writer \in Calls \cup {NoCall}
  /\ pc \in [Calls -> {"idle"} \cup InFlight \cup Over]
  /\ data \in [Calls -> Seq(Calls)]

\* newBindStore, newAllowStore: an absent file is an empty one, and a file
\* that cannot be loaded locks the store with nothing in it.
Load ==
  /\ memory' = IF file = Unreadable THEN <<>> ELSE file
  /\ locked' = (file = Unreadable)

Init ==
  /\ file \in {<<>>, Unreadable}
  /\ memory = <<>>
  /\ locked = (file = Unreadable)
  /\ writer = NoCall
  /\ pc = [c \in Calls |-> "idle"]
  /\ data = [c \in Calls |-> <<>>]

-----------------------------------------------------------------------------
(* Helpers.                                                                *)

Holds(f, c) == f # Unreadable /\ \E i \in 1 .. Len(f) : f[i] = c

KeepsWriteMu(c, outcome) ==
  /\ writer' = writer
  /\ pc' = [pc EXCEPT ![c] = outcome]
LetGo(c, outcome) ==
  /\ writer' = NoCall
  /\ pc' = [pc EXCEPT ![c] = outcome]

ReleasedEarly == TRUE
\* s.writeMu is held from before the change to after the rename.
WriteMuFree == writer = NoCall

IgnoresLock == TRUE
MayChange == ~locked

-----------------------------------------------------------------------------
(* persist.                                                                *)

Call(c) ==
  /\ pc[c] = "idle"
  /\ pc' = [pc EXCEPT ![c] = "waiting"]
  /\ UNCHANGED <<memory, locked, file, writer, data>>

Enter(c) ==
  /\ pc[c] = "waiting" /\ WriteMuFree
  /\ writer' = c
  /\ pc' = [pc EXCEPT ![c] = "entered"]
  /\ UNCHANGED <<memory, locked, file, data>>

Refuse(c) ==
  /\ pc[c] = "entered" /\ ~MayChange
  /\ LetGo(c, "refused")
  /\ UNCHANGED <<memory, locked, file, data>>

\* The change and the encoding are one critical section of s.mu.
Mutate(c) ==
  /\ pc[c] = "entered" /\ MayChange
  /\ memory' = Append(memory, c)
  /\ data' = [data EXCEPT ![c] = memory']
  /\ pc' = [pc EXCEPT ![c] = "writing"]
  /\ UNCHANGED <<locked, file, writer>>

-----------------------------------------------------------------------------
(* writeAtomic.                                                            *)

WriteTemp(c) ==
  /\ pc[c] = "writing"
  /\ pc' = [pc EXCEPT ![c] = "renaming"]
  /\ UNCHANGED <<memory, locked, file, writer, data>>

\* The temporary file cannot be created or written, or not be renamed.  The
\* caller is told; the change stays in memory.
WriteFails(c) ==
  /\ pc[c] \in {"writing", "renaming"}
  /\ LetGo(c, "failed")
  /\ UNCHANGED <<memory, locked, file, data>>

Rename(c) ==
  /\ pc[c] = "renaming"
  /\ file' = data[c]
  /\ LetGo(c, "saved")
  /\ UNCHANGED <<memory, locked, data>>

-----------------------------------------------------------------------------
(* The world around the store.                                             *)

\* The process dies and starts again: the calls it was in are gone.
Restart ==
  /\ Load
  /\ writer' = NoCall
  /\ pc' = [c \in Calls |-> IF pc[c] \in InFlight THEN "killed" ELSE pc[c]]
  /\ UNCHANGED <<file, data>>

\* Somebody repairs the file; the store reads it when it starts again.
Repair ==
  /\ file = Unreadable
  /\ file' = <<>>
  /\ UNCHANGED <<memory, locked, writer, pc, data>>

-----------------------------------------------------------------------------
Persist(c) ==
  \/ Enter(c) \/ Refuse(c) \/ Mutate(c)
  \/ WriteTemp(c) \/ WriteFails(c) \/ Rename(c)

Next ==
  \/ \E c \in Calls : Call(c) \/ Persist(c)
  \/ Restart
  \/ Repair

Spec == Init /\ [][Next]_vars

\* A goroutine in persist goes on, its file operations end, and a sync.Mutex
\* does not starve a goroutine that waits for it.
FairSpec == Spec /\ \A c \in Calls : WF_vars(Persist(c))

-----------------------------------------------------------------------------
(* Properties.                                                             *)

\* A call that was answered nil is in the file, and stays there: through the
\* failures of other writes, through writes that raced it, through a restart.
SavedIsDurable == \A c \in Calls : pc[c] = "saved" => Holds(file, c)

\* The file never goes back: a write only adds to what the one before it
\* wrote, in the order in which the memory changed.  No slow writer puts an
\* old encoding over a newer one.
FileOnlyGrows ==
  [][file # Unreadable => file' # Unreadable /\ IsPrefix(file, file')]_vars

\* The memory is what the file says and the changes whose write failed or is
\* under way, whatever crashed before; a locked store has nothing.
MemoryIsAhead ==
  IF locked THEN memory = <<>>
  ELSE file # Unreadable /\ IsPrefix(file, memory)

\* What errStoreLocked promises: a file that cannot be read is kept untouched
\* by the store that found it so, even once somebody has repaired it and until
\* a restart has read it.
LockedIsUntouched ==
  [][locked /\ file' # file => file = Unreadable /\ pc' = pc]_vars

\* What is in the file is safe there: from an older write, and from a store that
\* could not read it.
FileIsSafe == FileOnlyGrows /\ LockedIsUntouched

\* Every call of persist returns, unless the process dies under it.
EveryCallReturns == \A c \in Calls : pc[c] = "waiting" ~> pc[c] \in Over
=============================================================================
