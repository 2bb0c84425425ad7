-------------------------- MODULE StateFileProofs --------------------------
(***************************************************************************)
(* Proofs about StateFile, for any number of racing calls of persist and   *)
(* any sequence of failed writes and restarts.                             *)
(***************************************************************************)
EXTENDS StateFile, SequenceTheorems, TLAPS

\* One call at a time is past the lock, and what it encoded is the memory as
\* it is: nobody else changes the memory before the call lets go.
WriterInv ==
  /\ \A c \in Calls : pc[c] \in InFlight \ {"waiting"} => writer = c
  /\ \A c \in Calls : pc[c] \in {"writing", "renaming"} =>
       ~locked /\ data[c] = memory /\ Holds(memory, c)

\* The inductive invariant.
IInv == TypeOK /\ WriterInv /\ MemoryIsAhead /\ SavedIsDurable

-----------------------------------------------------------------------------
\* A sequence is a prefix of itself.
LEMMA PrefixOfItself ==
  ASSUME NEW S, NEW s \in Seq(S)
  PROVE  IsPrefix(s, s)
  BY SubSeqFull DEF IsPrefix

\* An element appended leaves what was a prefix a prefix.
LEMMA PrefixOfAppend ==
  ASSUME NEW S, NEW s \in Seq(S), NEW t \in Seq(S), NEW e \in S,
         IsPrefix(s, t)
  PROVE  IsPrefix(s, Append(t, e))
<1>1. Len(s) \in Nat /\ Len(t) \in Nat /\ Len(s) <= Len(t)
  BY DEF IsPrefix
<1>2. Append(t, e) \in Seq(S) /\ Len(Append(t, e)) = Len(t) + 1
      /\ \A i \in 1 .. Len(t) : Append(t, e)[i] = t[i]
  BY AppendProperties
<1>3. SubSeq(Append(t, e), 1, Len(s)) = SubSeq(t, 1, Len(s))
  BY <1>1, <1>2
<1> QED BY <1>1, <1>2, <1>3 DEF IsPrefix

\* What a prefix holds, the whole holds.
LEMMA HoldsInWhole ==
  ASSUME NEW s \in Seq(Calls), NEW t \in Seq(Calls), IsPrefix(s, t),
         NEW c \in Calls, Holds(s, c)
  PROVE  Holds(t, c)
<1>1. Len(s) \in Nat /\ Len(t) \in Nat /\ Len(s) <= Len(t)
      /\ SubSeq(s, 1, Len(s)) = SubSeq(t, 1, Len(s))
  BY DEF IsPrefix
<1>2. PICK i \in 1 .. Len(s) : s[i] = c
  BY DEF Holds
<1>3. SubSeq(s, 1, Len(s))[i] = s[i] /\ SubSeq(t, 1, Len(s))[i] = t[i]
  BY <1>1
<1>4. t # Unreadable
  BY FileAssumption DEF FileAssumption
<1> QED BY <1>1, <1>2, <1>3, <1>4 DEF Holds

\* What is held stays held when something is appended, and what is appended
\* is held.
LEMMA HoldsAppended ==
  ASSUME NEW s \in Seq(Calls), NEW c \in Calls
  PROVE  Append(s, c) \in Seq(Calls) /\ Holds(Append(s, c), c)
<1>1. /\ Append(s, c) \in Seq(Calls)
      /\ Len(Append(s, c)) = Len(s) + 1 /\ Len(s) \in Nat
      /\ Append(s, c)[Len(s) + 1] = c
  BY AppendProperties
<1>2. Append(s, c) # Unreadable
  BY <1>1, FileAssumption DEF FileAssumption
<1> QED BY <1>1, <1>2 DEF Holds

-----------------------------------------------------------------------------
\* The store starts with the memory it read.
LEMMA InitIInv == Init => IInv
<1> SUFFICES ASSUME Init PROVE IInv
  OBVIOUS
<1>1. <<>> \in Seq(Calls)
  OBVIOUS
<1>2. <<>> # Unreadable
  BY <1>1, FileAssumption DEF FileAssumption
<1>3. IsPrefix(<<>>, <<>>)
  BY <1>1, PrefixOfItself
<1> QED
  BY <1>1, <1>2, <1>3 DEF Init, IInv, TypeOK, WriterInv, MemoryIsAhead, SavedIsDurable,
              InFlight, Over

\* The rename that ends a save replaces the file by something it is a prefix
\* of, and that holds everything saved before.
LEMMA RenameGrows ==
  ASSUME IInv, NEW c \in Calls, Rename(c)
  PROVE  /\ file' = memory /\ file # Unreadable /\ ~locked
         /\ IsPrefix(file, file') /\ IsPrefix(file', memory)
         /\ \A d \in Calls : Holds(file, d) \/ d = c => Holds(file', d)
<1>1. /\ file' = memory /\ ~locked /\ Holds(memory, c)
      /\ memory \in Seq(Calls)
  BY DEF Rename, IInv, WriterInv, TypeOK
<1>2. file \in Seq(Calls) /\ file # Unreadable /\ IsPrefix(file, memory)
  BY <1>1 DEF IInv, TypeOK, MemoryIsAhead
<1>3. IsPrefix(memory, memory)
  BY <1>1, PrefixOfItself
<1> QED BY <1>1, <1>2, <1>3, HoldsInWhole

\* Every step keeps the invariant.
LEMMA Preserved ==
  ASSUME IInv, [Next]_vars
  PROVE  IInv'
<1> USE DEF IInv
<1>1. ASSUME NEW c \in Calls, Call(c) \/ Enter(c) \/ Refuse(c) \/ WriteTemp(c)
                              \/ WriteFails(c)
      PROVE  IInv'
  <2>1. /\ memory' = memory /\ locked' = locked /\ file' = file
        /\ data' = data
    BY <1>1 DEF Call, Enter, Refuse, WriteTemp, WriteFails
  <2>2. /\ pc' \in [Calls -> {"idle"} \cup InFlight \cup Over]
        /\ pc'[c] # "saved"
        /\ \A d \in Calls \ {c} : pc'[d] = pc[d]
        /\ writer' \in Calls \cup {NoCall}
    BY <1>1 DEF TypeOK, Call, Enter, Refuse, WriteTemp, WriteFails, LetGo,
                InFlight, Over
  <2>3. WriterInv'
    <3>1. CASE Call(c)
      BY <2>1, <3>1 DEF WriterInv, Call, TypeOK, InFlight, Holds
    <3>2. CASE Enter(c)
      <4>1. \A d \in Calls : pc[d] \in InFlight => pc[d] = "waiting"
        BY <3>2, FileAssumption
           DEF Enter, WriteMuFree, WriterInv, InFlight, FileAssumption
      <4>2. writer' = c /\ pc' = [pc EXCEPT ![c] = "entered"]
        BY <3>2 DEF Enter
      <4>3. \A d \in Calls : pc'[d] \in InFlight \ {"waiting"} => d = c
        BY <4>1, <4>2 DEF TypeOK
      <4>4. \A d \in Calls : pc'[d] \notin {"writing", "renaming"}
        BY <4>1, <4>2 DEF TypeOK, InFlight
      <4> QED BY <4>2, <4>3, <4>4 DEF WriterInv
    <3>3. CASE Refuse(c) \/ WriteFails(c)
      BY <2>1, <3>3, FileAssumption
         DEF WriterInv, Refuse, WriteFails, LetGo, TypeOK, InFlight, Holds,
             FileAssumption
    <3>4. CASE WriteTemp(c)
      BY <2>1, <3>4 DEF WriterInv, WriteTemp, TypeOK, InFlight, Holds
    <3> QED BY <1>1, <3>1, <3>2, <3>3, <3>4
  <2> QED
    BY <2>1, <2>2, <2>3 DEF TypeOK, MemoryIsAhead, SavedIsDurable, Holds
<1>2. ASSUME NEW c \in Calls, Mutate(c) PROVE IInv'
  <2>1. /\ memory \in Seq(Calls) /\ ~locked
        /\ memory' = Append(memory, c) /\ memory' \in Seq(Calls)
        /\ Holds(memory', c)
        /\ data' = [data EXCEPT ![c] = memory']
        /\ pc' = [pc EXCEPT ![c] = "writing"]
        /\ UNCHANGED <<locked, file, writer>>
    BY <1>2, HoldsAppended DEF Mutate, MayChange, TypeOK
  <2>2. file # Unreadable /\ file \in Seq(Calls) /\ IsPrefix(file, memory)
    BY <2>1 DEF MemoryIsAhead, TypeOK
  <2>3. IsPrefix(file, memory')
    BY <2>1, <2>2, PrefixOfAppend
  <2>4. writer = c /\ \A d \in Calls \ {c} : pc[d] \notin InFlight \ {"waiting"}
    BY <1>2 DEF Mutate, WriterInv, InFlight
  <2>5. WriterInv'
    BY <2>1, <2>4 DEF WriterInv, InFlight, TypeOK, Holds
  <2>6. TypeOK'
    BY <2>1 DEF TypeOK, InFlight
  <2> QED
    BY <2>1, <2>2, <2>3, <2>5, <2>6
       DEF MemoryIsAhead, SavedIsDurable, TypeOK, Holds
<1>3. ASSUME NEW c \in Calls, Rename(c) PROVE IInv'
  <2>1. /\ pc' = [pc EXCEPT ![c] = "saved"] /\ writer' = NoCall
        /\ UNCHANGED <<memory, locked, data>>
    BY <1>3 DEF Rename, LetGo
  <2>2. TypeOK'
    BY <1>3, <2>1, RenameGrows DEF TypeOK, Over
  <2>3. writer = c
    BY <1>3 DEF Rename, WriterInv, InFlight
  <2>4. WriterInv'
    BY <2>1, <2>3, FileAssumption
       DEF WriterInv, TypeOK, InFlight, Holds, FileAssumption
  <2>5. MemoryIsAhead'
    <3>1. file' # Unreadable
      BY <1>3, RenameGrows, FileAssumption DEF TypeOK, FileAssumption
    <3> QED BY <1>3, <2>1, <3>1, RenameGrows DEF MemoryIsAhead
  <2>6. SavedIsDurable'
    BY <1>3, <2>1, RenameGrows DEF SavedIsDurable, TypeOK
  <2> QED BY <2>2, <2>4, <2>5, <2>6
<1>4. CASE Restart
  <2>1. /\ \A c \in Calls : pc'[c] \notin InFlight
        /\ \A c \in Calls : pc'[c] = "saved" => pc[c] = "saved"
        /\ pc' \in [Calls -> {"idle"} \cup InFlight \cup Over]
        /\ writer' = NoCall /\ file' = file /\ data' = data
    BY <1>4 DEF Restart, TypeOK, InFlight, Over
  <2>2. /\ memory' = IF file = Unreadable THEN <<>> ELSE file
        /\ locked' = (file = Unreadable)
    BY <1>4 DEF Restart, Load
  <2>3. TypeOK'
    BY <2>1, <2>2 DEF TypeOK
  <2>4. MemoryIsAhead'
    <3>1. CASE file = Unreadable
      BY <2>2, <3>1 DEF MemoryIsAhead
    <3>2. CASE file # Unreadable
      <4>1. file \in Seq(Calls) /\ IsPrefix(file, file)
        BY <3>2, PrefixOfItself DEF TypeOK
      <4> QED BY <2>1, <2>2, <3>2, <4>1 DEF MemoryIsAhead
    <3> QED BY <3>1, <3>2
  <2> QED
    BY <2>1, <2>3, <2>4 DEF WriterInv, SavedIsDurable, InFlight, Holds
<1>5. CASE Repair
  <2>1. file = Unreadable /\ file' = <<>>
        /\ UNCHANGED <<memory, locked, writer, pc, data>>
    BY <1>5 DEF Repair
  <2>2. locked /\ \A c \in Calls : pc[c] # "saved"
    BY <2>1 DEF MemoryIsAhead, SavedIsDurable, Holds
  <2> QED
    BY <2>1, <2>2 DEF TypeOK, WriterInv, MemoryIsAhead, SavedIsDurable, Holds
<1>6. CASE UNCHANGED vars
  BY <1>6 DEF vars, TypeOK, WriterInv, MemoryIsAhead, SavedIsDurable, Holds
<1> QED BY <1>1, <1>2, <1>3, <1>4, <1>5, <1>6 DEF Next, Persist

-----------------------------------------------------------------------------
\* The invariant holds in every reachable state.
THEOREM Invariance == Spec => []IInv
<1>1. IInv /\ [Next]_vars => IInv'
  BY Preserved
<1> QED BY InitIInv, <1>1, PTL DEF Spec

\* The state of persist and of the file keeps its types.
THEOREM TypeCorrect == Spec => []TypeOK
<1>1. IInv => TypeOK
  BY DEF IInv
<1> QED BY Invariance, <1>1, PTL

\* A change persist answered nil for is in the file from then on, whatever
\* other calls, failed writes and restarts come in between.
THEOREM Durable == Spec => []SavedIsDurable
<1>1. IInv => SavedIsDurable
  BY DEF IInv
<1> QED BY Invariance, <1>1, PTL

\* The memory of the store is the file and the changes not saved yet.
THEOREM Ahead == Spec => []MemoryIsAhead
<1>1. IInv => MemoryIsAhead
  BY DEF IInv
<1> QED BY Invariance, <1>1, PTL

\* No write of writeAtomic takes the file back.
THEOREM Grows == Spec => FileOnlyGrows
<1> DEFINE Step == file # Unreadable =>
                     file' # Unreadable /\ IsPrefix(file, file')
<1>1. ASSUME IInv, Next, file # Unreadable
      PROVE  file' # Unreadable /\ IsPrefix(file, file')
  <2>1. CASE \E c \in Calls : Rename(c)
    <3>1. /\ file' = memory /\ memory \in Seq(Calls)
          /\ IsPrefix(file, file')
      BY <1>1, <2>1, RenameGrows DEF IInv, TypeOK
    <3> QED BY <3>1, FileAssumption DEF FileAssumption
  <2>2. CASE ~\E c \in Calls : Rename(c)
    <3>1. file' = file
      BY <1>1, <2>2 DEF Next, Persist, Call, Enter, Refuse, Mutate, WriteTemp,
                        WriteFails, Restart, Repair
    <3>2. IsPrefix(file, file)
      BY <1>1, PrefixOfItself DEF IInv, TypeOK
    <3> QED BY <1>1, <3>1, <3>2
  <2> QED BY <2>1, <2>2
<1>2. IInv /\ [Next]_vars => [Step]_vars
  BY <1>1
<1>3. Spec => [][Step]_vars
  BY Invariance, <1>2, PTL DEF Spec
<1> QED BY <1>3 DEF FileOnlyGrows

\* A locked store never writes: only a repair from outside changes the file.
THEOREM Untouched == Spec => LockedIsUntouched
<1> DEFINE Step == locked /\ file' # file => file = Unreadable /\ pc' = pc
<1>1. ASSUME IInv, Next, locked, file' # file
      PROVE  file = Unreadable /\ pc' = pc
  <2>1. Repair
    BY <1>1, RenameGrows DEF Next, Persist, Call, Enter, Refuse, Mutate,
                             WriteTemp, WriteFails, Restart
  <2> QED BY <2>1 DEF Repair
<1>2. IInv /\ [Next]_vars => [Step]_vars
  BY <1>1
<1>3. Spec => [][Step]_vars
  BY Invariance, <1>2, PTL DEF Spec
<1> QED BY <1>3 DEF LockedIsUntouched

\* The file loses nothing, to a slower writer or to a store that could not read it.
THEOREM FileKept == Spec => FileIsSafe
  BY Grows, Untouched DEF FileIsSafe
=============================================================================
