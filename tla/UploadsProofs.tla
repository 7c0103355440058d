---------------------------- MODULE UploadsProofs ----------------------------
(***************************************************************************)
(* What clients are told of an upload stays true, for any callers, any     *)
(* content and any number of deaths.                                       *)
(***************************************************************************)
EXTENDS Uploads, FiniteSetTheorems, SequenceTheorems, TLAPS

Publishing == {"finish", "replace", "artifact"}
Locked     == {"load", "write", "verify", "publish", "remove"}

\* The result of the call is on its way to the client.
Done(c) == pc[c] = "return" /\ reply[c] = "ok"
Wrote(c) == Done(c) /\ op[c] = "chunk"

Gone == begun /\ entries = {}

\* What a call is doing, and that it holds the lock while it relies on what it
\* found under it.
StepInv(c) ==
    /\ pc[c] # "idle" => op[c] \in AllOps
    /\ pc[c] \in Locked \/ Wrote(c) => lock = c
    /\ pc[c] \in {"flock", "load"} => op[c] # "delete"
    /\ pc[c] = "write" => op[c] = "chunk"
    /\ pc[c] \in {"verify", "publish"} => op[c] \in Publishing
    /\ pc[c] = "remove" => op[c] \in Publishing \cup {"abort"}
    /\ pc[c] = "lookup" => op[c] = "artifact" /\ reply[c] # "ok"
    /\ pc[c] = "unlink" => art[c] \in Artifacts /\ op[c] = "delete"
    /\ pc[c] # "idle" /\ op[c] = "chunk" => block[c] \in Offsets \X Values
    /\ pc[c] \in {"write", "verify", "publish"} \/ Wrote(c) => "metadata" \in entries
    /\ op[c] = "artifact" /\ (pc[c] = "remove" \/ Done(c)) => art[c] \in ours
    /\ ~begun => /\ pc[c] \in {"idle", "unlink", "return"}
                 /\ pc[c] # "idle" => op[c] = "delete"

\* Before the upload is begun there is nothing of it.
BegunInv == ~begun => entries = {} /\ ours = {} /\ completed = {} /\ ~aborted

ControlInv == BegunInv /\ \A c \in Calls : StepInv(c)

\* Completed or about to be: the upload is gone, so that nobody can write.
PublishInv(c) == pc[c] = "publish" /\ checked => content = Wanted

ResultInv(c) == op[c] \in {"finish", "replace"} /\ (pc[c] = "remove" \/ Done(c)) =>
                  /\ checked => DestContent = Wanted
                  /\ Done(c) => Gone

PayloadInv == \A a \in ours : checked => payload[a] = Wanted

GoneInv == \A r \in completed : r.op # "artifact" => Gone

VerifiedInv == /\ \A c \in Calls : PublishInv(c) /\ ResultInv(c)
               /\ PayloadInv /\ GoneInv /\ CompletedStaysVerified

\* The upload is being replaced by the artifact that the call has made of it.
Replaces(c) == pc[c] = "remove" /\ op[c] = "artifact"

\* An artifact was made by the call that is removing the upload now, or was the
\* last one, or a failure left the upload behind.
CountInv ==
    /\ IsFiniteSet(ours) /\ Cardinality(ours) <= 1 + failures
    /\ "metadata" \in entries /\ (\A c \in Calls : ~Replaces(c)) =>
         Cardinality(ours) <= failures

Completes(c) == op[c] \in Publishing /\ (pc[c] = "remove" \/ Done(c))
Aborts(c)    == op[c] = "abort" /\ (pc[c] = "remove" \/ Done(c))

\* While nothing fails, the one call that began to remove the upload is the
\* last to have changed anything, and finishes.
EndInv == /\ aborted => Gone
          /\ completed # {} => Gone \/ ours # {}
          /\ ours # {} => Gone \/ \E c \in Calls : Replaces(c)

DoneInv(c) == Done(c) /\ op[c] \in {"finish", "replace", "abort"} => Gone

AbortInv == (aborted \/ \E c \in Calls : Aborts(c)) =>
              completed = {} /\ ours = {} /\ \A c \in Calls : ~Completes(c)

ClaimInv == EndInv /\ AbortInv /\ \A c \in Calls : DoneInv(c)

\* What is published is the content, and that does not change any more.
SameInv == /\ \A a \in ours : payload[a] = content
           /\ \A r \in completed : r.content = content

CallInv(c) == /\ Completes(c) /\ op[c] # "artifact" => DestContent = content
              /\ Wrote(c) => /\ block[c][1] < Len(content)
                             /\ content[block[c][1] + 1] = block[c][2]

\* A chunk may be overwritten between its write and its answer only by one that
\* is answered later, since the answer leaves before the lock does.
AckedInv == \A i \in Offsets : acked[i] # 0 =>
              /\ i < Len(content)
              /\ \/ content[i + 1] = acked[i]
                 \/ \E c \in Calls : Wrote(c) /\ block[c][1] = i

ContentInv == SameInv /\ AckedInv /\ \A c \in Calls : CallInv(c)

UndisturbedInv == Undisturbed => ClaimInv /\ ContentInv

AllInv == TypeOK /\ ControlInv /\ VerifiedInv /\ CountInv /\ UndisturbedInv

-----------------------------------------------------------------------------
(* Contents.                                                               *)

\* A content is a sequence of at most as many blocks as are wanted.
LEMMA ContentsAreSequences ==
  ASSUME NEW s \in Contents
  PROVE  /\ s \in Seq(Values) /\ Len(s) \in 0..Len(Wanted)
         /\ s \in [1..Len(s) -> Values]
<1>1. Len(Wanted) \in Nat
  BY UploadsAssumption, LenProperties
<1>2. PICK n \in 0..Len(Wanted) : s \in [1..n -> Values]
  BY DEF Contents
<1>3. n \in Nat
  BY <1>1, <1>2
<1>4. s \in Seq(Values)
  BY <1>2, <1>3, SeqDef
<1>5. Len(s) = n
  BY <1>2, <1>3, <1>4, LenProperties
<1> QED BY <1>2, <1>4, <1>5

\* The empty content is one.
LEMMA WantedType == Len(Wanted) \in Nat /\ <<>> \in Contents /\ Len(<<>>) = 0
<1>1. Len(Wanted) \in Nat
  BY UploadsAssumption, LenProperties
<1>2. <<>> \in [1..0 -> Values] /\ Len(<<>>) = 0
  BY EmptySeq, LenProperties
<1> QED BY <1>1, <1>2 DEF Contents

\* A chunk at an offset within the data or at its end
LEMMA WriteAtType ==
  ASSUME NEW s \in Contents, NEW i \in Offsets, i <= Len(s), NEW v \in Values
  PROVE  /\ WriteAt(s, i, v) \in Contents
         /\ Len(s) <= Len(WriteAt(s, i, v)) /\ i < Len(WriteAt(s, i, v))
         /\ WriteAt(s, i, v)[i + 1] = v
         /\ \A k \in Offsets : k # i /\ k < Len(s) => WriteAt(s, i, v)[k + 1] = s[k + 1]
<1> DEFINE m == IF i < Len(s) THEN Len(s) ELSE i + 1
           w == WriteAt(s, i, v)
<1>1. /\ s \in [1..Len(s) -> Values] /\ Len(s) \in 0..Len(Wanted)
      /\ Len(Wanted) \in Nat /\ i \in 0..Len(Wanted) - 1
  BY ContentsAreSequences, WantedType DEF Offsets
<1>2. m \in 0..Len(Wanted) /\ i < m /\ Len(s) <= m
  BY <1>1
<1>3. w = [n \in 1..m |-> IF n = i + 1 THEN v ELSE s[n]]
  BY DEF WriteAt
<1>4. \A n \in 1..m : n # i + 1 => n \in 1..Len(s)
  BY <1>1
<1>5. w \in [1..m -> Values]
  BY <1>1, <1>3, <1>4
<1>6. w \in Contents
  BY <1>2, <1>5 DEF Contents
<1>7. Len(w) = m
  <2>1. w \in Seq(Values) /\ m \in Nat
    BY <1>1, <1>2, <1>6, ContentsAreSequences
  <2> HIDE DEF w, m
  <2>2. DOMAIN w = 1..m
    BY <1>5
  <2> QED BY <2>1, <2>2, LenProperties
<1>8. w[i + 1] = v
  BY <1>1, <1>2, <1>3
<1>9. ASSUME NEW k \in Offsets, k # i, k < Len(s) PROVE w[k + 1] = s[k + 1]
  <2>1. k + 1 \in 1..m /\ k + 1 # i + 1
    BY <1>1, <1>2, <1>9 DEF Offsets
  <2> QED BY <1>3, <2>1
<1> QED BY <1>2, <1>6, <1>7, <1>8, <1>9

-----------------------------------------------------------------------------
(* Control.                                                                *)

\* An upload that is not begun is of the right type and has no calls.
LEMMA TypeInit == Init => TypeOK
<1> SUFFICES ASSUME Init PROVE TypeOK
  OBVIOUS
<1> USE DEF Init
<1>1. {content, copy} \subseteq Contents /\ payload \in [Artifacts -> Contents]
  BY WantedType
<1>2. {artDirs, ours} \subseteq SUBSET Artifacts
  BY UploadsAssumption
<1>3. artEntries \in [Artifacts -> SUBSET {"metadata", "payload"}]
  OBVIOUS
<1>4. {begun, checked, aborted} \subseteq BOOLEAN
  OBVIOUS
<1>5. /\ pc = [c \in Calls |-> "idle"] /\ lock \in Calls \cup {Free}
      /\ block \in [Calls -> (Offsets \X Values) \cup {NoBlock}]
  OBVIOUS
<1>6. completed \in SUBSET [op : AllOps, artifact : Artifacts \cup {0},
                           content : Contents]
  OBVIOUS
<1> QED BY <1>1, <1>2, <1>3, <1>4, <1>5, <1>6 DEF TypeOK

\* At first no call runs and no upload exists.
LEMMA ControlInit == Init => ControlInv
BY DEF Init, ControlInv, BegunInv, StepInv, Wrote, Done, Locked

\* Nothing of an upload exists before it is begun, since a call needs it or its
\* metadata.
LEMMA BegunNext == TypeOK /\ ControlInv /\ [Next]_vars => BegunInv'
<1> SUFFICES ASSUME TypeOK, ControlInv, [Next]_vars PROVE BegunInv'
  OBVIOUS
<1> USE UploadsAssumption DEF TypeOK, ControlInv, BegunInv, StepInv, Wrote,
        Done, Locked, Publishing, AllOps, Free
<1> USE DEF uploadVars, destVars, artifactVars, bounds, history, Goto, Answer,
            Return, Forget, Failure
<1>1. CASE Begin
  BY <1>1 DEF Begin
<1>2. ASSUME NEW c \in Calls, NEW o \in AllOps, Open(c, o) PROVE BegunInv'
  BY <1>2 DEF Open
<1>3. ASSUME NEW c \in Calls, Flock(c) PROVE BegunInv'
  BY <1>3 DEF Flock
<1>4. ASSUME NEW c \in Calls, Load(c) PROVE BegunInv'
  BY <1>4 DEF Load, Task
<1>5. ASSUME NEW c \in Calls, LookupNext(c) PROVE BegunInv'
  BY <1>5 DEF LookupNext
<1>6. ASSUME NEW c \in Calls, LookupEnds(c) PROVE BegunInv'
  BY <1>6 DEF LookupEnds
<1>7. ASSUME NEW c \in Calls, WriteChunk(c) PROVE BegunInv'
  BY <1>7 DEF WriteChunk
<1>8. ASSUME NEW c \in Calls, WriteChunkFails(c) PROVE BegunInv'
  BY <1>8 DEF WriteChunkFails
<1>9. ASSUME NEW c \in Calls, Verify(c) PROVE BegunInv'
  BY <1>9 DEF Verify
<1>10. ASSUME NEW c \in Calls, Move(c) PROVE BegunInv'
  BY <1>10 DEF Move
<1>11. ASSUME NEW c \in Calls, MoveFails(c) PROVE BegunInv'
  BY <1>11 DEF MoveFails
<1>12. ASSUME NEW c \in Calls, MakeArtifact(c) PROVE BegunInv'
  BY <1>12 DEF MakeArtifact
<1>13. ASSUME NEW c \in Calls, MakeArtifactFails(c) PROVE BegunInv'
  BY <1>13 DEF MakeArtifactFails
<1>14. ASSUME NEW c \in Calls, RemoveEntry(c) PROVE BegunInv'
  BY <1>14 DEF RemoveEntry
<1>15. ASSUME NEW c \in Calls, Removed(c) PROVE BegunInv'
  BY <1>15 DEF Removed
<1>16. ASSUME NEW c \in Calls, RemoveFails(c) PROVE BegunInv'
  BY <1>16 DEF RemoveFails
<1>17. ASSUME NEW c \in Calls, Finish(c) PROVE BegunInv'
  BY <1>17 DEF Finish
<1>18. ASSUME NEW c \in Calls, UnlinkEntry(c) PROVE BegunInv'
  BY <1>18 DEF UnlinkEntry
<1>19. ASSUME NEW c \in Calls, UnlinkDirectory(c) PROVE BegunInv'
  BY <1>19 DEF UnlinkDirectory
<1>20. ASSUME NEW c \in Calls, Crash(c) PROVE BegunInv'
  BY <1>20 DEF Crash
<1>21. ASSUME NEW c \in Calls, NEW a \in Artifacts, DeleteArtifact(c, a)
      PROVE BegunInv'
  BY <1>21 DEF DeleteArtifact
<1>22. CASE UNCHANGED vars
  BY <1>22 DEF vars
<1> QED
  BY <1>1, <1>2, <1>3, <1>4, <1>5, <1>6, <1>7, <1>8, <1>9, <1>10, <1>11, <1>12,
       <1>13, <1>14, <1>15, <1>16, <1>17, <1>18, <1>19, <1>20, <1>21, <1>22
     DEF Next, Step, StepFails

\* Each call knows what it does, and keeps the lock until it has answered.
LEMMA StepNext ==
  ASSUME TypeOK, ControlInv, [Next]_vars, NEW d \in Calls
  PROVE  StepInv(d)'
<1> USE UploadsAssumption DEF TypeOK, ControlInv, BegunInv, StepInv, Wrote,
        Done, Locked, Publishing, AllOps, Free
<1> USE DEF uploadVars, destVars, artifactVars, bounds, history, Goto, Answer,
            Return, Forget, Failure
<1>1. CASE Begin
  BY <1>1 DEF Begin
<1>2. ASSUME NEW c \in Calls, NEW o \in AllOps, Open(c, o) PROVE StepInv(d)'
  BY <1>2 DEF Open
<1>3. ASSUME NEW c \in Calls, Flock(c) PROVE StepInv(d)'
  BY <1>3 DEF Flock
<1>4. ASSUME NEW c \in Calls, Load(c) PROVE StepInv(d)'
  BY <1>4 DEF Load, Task
<1>5. ASSUME NEW c \in Calls, LookupNext(c) PROVE StepInv(d)'
  <2> DEFINE x == CHOOSE x \in todo[c] : \A y \in todo[c] : x <= y
  <2>1. CASE "metadata" \notin artEntries[x]
    BY <1>5, <2>1 DEF LookupNext
  <2>2. CASE "metadata" \in artEntries[x] /\ x \in ours
    <3>1. /\ pc[c] = "lookup" /\ Return(c, "ok") /\ art' = [art EXCEPT ![c] = x]
          /\ UNCHANGED <<begun, entries, ours, lock, op, block>>
      BY <1>5, <2>2 DEF LookupNext
    <3> HIDE DEF x
    <3> QED BY <3>1, <2>2
  <2>3. CASE "metadata" \in artEntries[x] /\ x \notin ours
    BY <1>5, <2>3 DEF LookupNext
  <2> QED BY <2>1, <2>2, <2>3
<1>6. ASSUME NEW c \in Calls, LookupEnds(c) PROVE StepInv(d)'
  BY <1>6 DEF LookupEnds
<1>7. ASSUME NEW c \in Calls, WriteChunk(c) PROVE StepInv(d)'
  BY <1>7 DEF WriteChunk
<1>8. ASSUME NEW c \in Calls, WriteChunkFails(c) PROVE StepInv(d)'
  BY <1>8 DEF WriteChunkFails
<1>9. ASSUME NEW c \in Calls, Verify(c) PROVE StepInv(d)'
  BY <1>9 DEF Verify
<1>10. ASSUME NEW c \in Calls, Move(c) PROVE StepInv(d)'
  BY <1>10 DEF Move
<1>11. ASSUME NEW c \in Calls, MoveFails(c) PROVE StepInv(d)'
  BY <1>11 DEF MoveFails
<1>12. ASSUME NEW c \in Calls, MakeArtifact(c) PROVE StepInv(d)'
  BY <1>12 DEF MakeArtifact
<1>13. ASSUME NEW c \in Calls, MakeArtifactFails(c) PROVE StepInv(d)'
  BY <1>13 DEF MakeArtifactFails
<1>14. ASSUME NEW c \in Calls, RemoveEntry(c) PROVE StepInv(d)'
  BY <1>14 DEF RemoveEntry
<1>15. ASSUME NEW c \in Calls, Removed(c) PROVE StepInv(d)'
  BY <1>15 DEF Removed
<1>16. ASSUME NEW c \in Calls, RemoveFails(c) PROVE StepInv(d)'
  BY <1>16 DEF RemoveFails
<1>17. ASSUME NEW c \in Calls, Finish(c) PROVE StepInv(d)'
  BY <1>17 DEF Finish
<1>18. ASSUME NEW c \in Calls, UnlinkEntry(c) PROVE StepInv(d)'
  BY <1>18 DEF UnlinkEntry
<1>19. ASSUME NEW c \in Calls, UnlinkDirectory(c) PROVE StepInv(d)'
  BY <1>19 DEF UnlinkDirectory
<1>20. ASSUME NEW c \in Calls, Crash(c) PROVE StepInv(d)'
  BY <1>20 DEF Crash
<1>21. ASSUME NEW c \in Calls, NEW a \in Artifacts, DeleteArtifact(c, a)
      PROVE StepInv(d)'
  BY <1>21 DEF DeleteArtifact
<1>22. CASE UNCHANGED vars
  BY <1>22 DEF vars
<1> QED
  BY <1>1, <1>2, <1>3, <1>4, <1>5, <1>6, <1>7, <1>8, <1>9, <1>10, <1>11, <1>12,
       <1>13, <1>14, <1>15, <1>16, <1>17, <1>18, <1>19, <1>20, <1>21, <1>22
     DEF Next, Step, StepFails

\* The control invariant is inductive.
LEMMA ControlNext == TypeOK /\ ControlInv /\ [Next]_vars => ControlInv'
BY BegunNext, StepNext DEF ControlInv

\* Type correctness needs the control invariant: which artifact is unlinked, and
\* which block was sent.
LEMMA TypeNext == TypeOK /\ ControlInv /\ [Next]_vars => TypeOK'
<1> SUFFICES ASSUME TypeOK, ControlInv, [Next]_vars PROVE TypeOK'
  OBVIOUS
<1> USE UploadsAssumption DEF TypeOK, ControlInv, StepInv, Locked, Free
<1> USE DEF uploadVars, destVars, artifactVars, bounds, history, Goto, Answer,
            Return, Forget, Failure
<1>1. CASE Begin
  BY <1>1 DEF Begin
<1>2. ASSUME NEW c \in Calls, NEW o \in AllOps, Open(c, o) PROVE TypeOK'
  <2>1. CASE "data" \in entries /\ o = "chunk"
    <3>1. PICK x \in Offsets \X Values : block' = [block EXCEPT ![c] = x]
      BY <1>2, <2>1 DEF Open
    <3>2. block' \in [Calls -> (Offsets \X Values) \cup {NoBlock}]
      BY <3>1
    <3>3. /\ pc' = [pc EXCEPT ![c] = "flock"] /\ reply' = [reply EXCEPT ![c] = "none"]
          /\ op' = [op EXCEPT ![c] = o] /\ calls' = calls + 1
          /\ UNCHANGED <<uploadVars, destVars, artifactVars, art, todo, failures,
                         history>>
      BY <1>2, <2>1 DEF Open
    <3> HIDE DEF ControlInv
    <3> QED BY <3>2, <3>3
  <2>2. CASE "data" \in entries /\ o # "chunk"
    BY <1>2, <2>2 DEF Open
  <2>3. CASE "data" \notin entries
    <3>1. todo' \in [Calls -> SUBSET Artifacts]
      BY <1>2, <2>3 DEF Open
    <3>2. /\ pc' \in {pc, [pc EXCEPT ![c] = "lookup"]}
          /\ reply' = [reply EXCEPT ![c] = "not_found"]
          /\ op' = [op EXCEPT ![c] = o] /\ calls' = calls + 1
          /\ UNCHANGED <<uploadVars, destVars, artifactVars, art, block,
                         failures, history>>
      BY <1>2, <2>3 DEF Open
    <3> HIDE DEF ControlInv
    <3> QED BY <3>1, <3>2
  <2> QED BY <2>1, <2>2, <2>3
<1>3. ASSUME NEW c \in Calls, Flock(c) PROVE TypeOK'
  BY <1>3 DEF Flock
<1>4. ASSUME NEW c \in Calls, Load(c) PROVE TypeOK'
  <2>1. Task(c) \in {"write", "remove", "verify"}
    BY DEF Task
  <2>2. todo' \in [Calls -> SUBSET Artifacts] /\ reply' \in [Calls -> {"none", "ok",
           "not_found", "invalid_offset", "upload_failed", "verification_failed",
           "destination_exists", "artifact_failed"}]
    BY <1>4 DEF Load
  <2>3. pc' \in [Calls -> {"idle", "flock", "load", "write", "verify", "publish",
                          "lookup", "remove", "unlink", "return"}]
    BY <1>4, <2>1 DEF Load
  <2> QED BY <1>4, <2>2, <2>3 DEF Load
<1>5. ASSUME NEW c \in Calls, LookupNext(c) PROVE TypeOK'
  <2> DEFINE x == CHOOSE x \in todo[c] : \A y \in todo[c] : x <= y
  <2>1. CASE "metadata" \notin artEntries[x]
    <3>1. /\ Return(c, "artifact_failed") /\ UNCHANGED <<todo, art>>
          /\ UNCHANGED <<uploadVars, destVars, artifactVars, op, block, bounds,
                         history>>
      BY <1>5, <2>1 DEF LookupNext
    <3> HIDE DEF x, ControlInv
    <3> QED BY <3>1
  <2>2. CASE "metadata" \in artEntries[x] /\ x \in ours
    <3>1. /\ Return(c, "ok") /\ art' = [art EXCEPT ![c] = x] /\ UNCHANGED todo
          /\ UNCHANGED <<uploadVars, destVars, artifactVars, op, block, bounds,
                         history>>
      BY <1>5, <2>2 DEF LookupNext
    <3> HIDE DEF x
    <3> QED BY <3>1, <2>2
  <2>3. CASE "metadata" \in artEntries[x] /\ x \notin ours
    <3>1. /\ todo' = [todo EXCEPT ![c] = @ \ {x}] /\ UNCHANGED <<pc, reply, art>>
          /\ UNCHANGED <<uploadVars, destVars, artifactVars, op, block, bounds,
                         history>>
      BY <1>5, <2>3 DEF LookupNext
    <3> HIDE DEF x
    <3>2. todo' \in [Calls -> SUBSET Artifacts]
      BY <3>1
    <3> QED BY <3>1, <3>2
  <2> QED BY <2>1, <2>2, <2>3
<1>6. ASSUME NEW c \in Calls, LookupEnds(c) PROVE TypeOK'
  BY <1>6 DEF LookupEnds
<1>7. ASSUME NEW c \in Calls, WriteChunk(c) PROVE TypeOK'
  <2>1. /\ block[c] \in Offsets \X Values /\ pc' = [pc EXCEPT ![c] = "return"]
        /\ UNCHANGED <<begun, checked, entries, lock, destVars, artifactVars, op, block,
                       art, todo, bounds, history>>
    BY <1>7 DEF WriteChunk
  <2>2. reply' \in {[reply EXCEPT ![c] = "ok"], [reply EXCEPT ![c] = "invalid_offset"]}
    BY <1>7 DEF WriteChunk
  <2>3. content' \in Contents
    <3>1. CASE block[c][1] > Len(content)
      BY <1>7, <3>1 DEF WriteChunk
    <3>2. CASE ~(block[c][1] > Len(content))
      <4>1. block[c][1] <= Len(content)
        BY <2>1, <3>2, ContentsAreSequences, WantedType DEF Offsets
      <4>2. content' = WriteAt(content, block[c][1], block[c][2])
        BY <1>7, <3>2 DEF WriteChunk
      <4> QED BY <2>1, <4>1, <4>2, WriteAtType
    <3> QED BY <3>1, <3>2
  <2> HIDE DEF ControlInv
  <2> QED BY <2>1, <2>2, <2>3
<1>8. ASSUME NEW c \in Calls, WriteChunkFails(c) PROVE TypeOK'
  <2>1. /\ block[c] \in Offsets \X Values /\ pc' = [pc EXCEPT ![c] = "return"]
        /\ reply' = [reply EXCEPT ![c] = "upload_failed"] /\ failures' = failures + 1
        /\ UNCHANGED <<begun, checked, entries, lock, destVars, artifactVars, op, block,
                       art, todo, calls, history>>
    BY <1>8 DEF WriteChunkFails
  <2>2. content' \in Contents
    <3>1. block[c][1] <= Len(content)
             /\ content' \in {content, WriteAt(content, block[c][1], block[c][2])}
      BY <1>8 DEF WriteChunkFails
    <3>2. block[c][1] \in Offsets /\ block[c][2] \in Values
      BY <2>1
    <3>3. WriteAt(content, block[c][1], block[c][2]) \in Contents
      BY <3>1, <3>2, WriteAtType
    <3> QED BY <3>1, <3>3
  <2> QED BY <2>1, <2>2
<1>9. ASSUME NEW c \in Calls, Verify(c) PROVE TypeOK'
  BY <1>9 DEF Verify
<1>10. ASSUME NEW c \in Calls, Move(c) PROVE TypeOK'
  <2>1. UNCHANGED <<begun, checked, content, lock, artifactVars, op, block, art, todo,
                   bounds, history>>
    BY <1>10 DEF Move
  <2>2. CASE "data" \notin entries
    <3>1. Return(c, "upload_failed") /\ UNCHANGED <<entries, destVars>>
      BY <1>10, <2>2 DEF Move
    <3> HIDE DEF ControlInv
    <3> QED BY <2>1, <3>1
  <2>3. CASE "data" \in entries /\ op[c] = "finish" /\ dest # "absent"
    <3>1. Return(c, "destination_exists") /\ UNCHANGED <<entries, destVars>>
      BY <1>10, <2>3 DEF Move
    <3> HIDE DEF ControlInv
    <3> QED BY <2>1, <3>1
  <2>4. CASE "data" \in entries /\ ~(op[c] = "finish" /\ dest # "absent")
    <3>1. /\ \/ dest' = "moved" /\ entries' = entries \ {"data"} /\ UNCHANGED copy
             \/ dest' = "copy" /\ copy' = content /\ UNCHANGED entries
          /\ pc' = [pc EXCEPT ![c] = "remove"] /\ UNCHANGED reply
      BY <1>10, <2>4 DEF Move
    <3> HIDE DEF ControlInv
    <3>2. /\ entries' \in SUBSET {"data", "metadata"} /\ copy' \in Contents
          /\ dest' \in {"absent", "other", "moved", "copy"}
      BY <3>1
    <3> QED BY <2>1, <3>1, <3>2
  <2> QED BY <2>2, <2>3, <2>4
<1>11. ASSUME NEW c \in Calls, MoveFails(c) PROVE TypeOK'
  BY <1>11 DEF MoveFails
<1>12. ASSUME NEW c \in Calls, MakeArtifact(c) PROVE TypeOK'
  <2>1. CASE "data" \notin entries
    <3>1. /\ Return(c, "artifact_failed")
          /\ UNCHANGED <<artifactVars, art, uploadVars, destVars, op, block, todo, bounds,
                         history>>
      BY <1>12, <2>1 DEF MakeArtifact
    <3> HIDE DEF ControlInv
    <3> QED BY <3>1
  <2>2. CASE "data" \in entries
    <3>1. PICK x \in Artifacts \ (artDirs \cup ours) :
                 /\ artDirs' = artDirs \cup {x} /\ ours' = ours \cup {x}
                 /\ artEntries' = [artEntries EXCEPT ![x] = {"metadata", "payload"}]
                 /\ payload' = [payload EXCEPT ![x] = content]
                 /\ art' = [art EXCEPT ![c] = x]
      BY <1>12, <2>2 DEF MakeArtifact
    <3>2. /\ pc' = [pc EXCEPT ![c] = "remove"] /\ UNCHANGED reply
          /\ UNCHANGED <<uploadVars, destVars, op, block, todo, bounds, history>>
      BY <1>12, <2>2 DEF MakeArtifact
    <3>3. /\ artEntries' \in [Artifacts -> SUBSET {"metadata", "payload"}]
          /\ payload' \in [Artifacts -> Contents]
      BY <3>1
    <3>4. /\ {artDirs', ours'} \subseteq SUBSET Artifacts
          /\ art' \in [Calls -> Artifacts \cup {0}]
      BY <3>1
    <3> QED BY <3>2, <3>3, <3>4
  <2> QED BY <2>1, <2>2
<1>13. ASSUME NEW c \in Calls, MakeArtifactFails(c) PROVE TypeOK'
  BY <1>13 DEF MakeArtifactFails
<1>14. ASSUME NEW c \in Calls, RemoveEntry(c) PROVE TypeOK'
  BY <1>14 DEF RemoveEntry
<1>15. ASSUME NEW c \in Calls, Removed(c) PROVE TypeOK'
  BY <1>15 DEF Removed
<1>16. ASSUME NEW c \in Calls, RemoveFails(c) PROVE TypeOK'
  BY <1>16 DEF RemoveFails
<1>17. ASSUME NEW c \in Calls, Finish(c) PROVE TypeOK'
  <2>1. /\ pc' = [pc EXCEPT ![c] = "idle"] /\ block' = [block EXCEPT ![c] = NoBlock]
        /\ art' = [art EXCEPT ![c] = 0] /\ todo' = [todo EXCEPT ![c] = {}]
        /\ UNCHANGED <<begun, checked, entries, content, destVars, artifactVars, op,
                       reply, bounds>>
    BY <1>17 DEF Finish
  <2>2. lock' \in Calls \cup {Free} /\ aborted' \in BOOLEAN
    BY <1>17 DEF Finish
  <2>3. acked' \in [Offsets -> Values \cup {0}]
    <3>1. CASE op[c] = "chunk" /\ reply[c] = "ok"
      <4>1. block[c] \in Offsets \X Values
        BY <1>17, <3>1 DEF Finish
      <4>2. acked' = [acked EXCEPT ![block[c][1]] = block[c][2]]
        BY <1>17, <3>1 DEF Finish
      <4> QED BY <4>1, <4>2
    <3>2. CASE ~(op[c] = "chunk" /\ reply[c] = "ok")
      BY <1>17, <3>2 DEF Finish
    <3> QED BY <3>1, <3>2
  <2>4. completed' \in SUBSET [op : AllOps, artifact : Artifacts \cup {0},
                              content : Contents]
    <3>1. CASE op[c] \in {"finish", "replace", "artifact"} /\ reply[c] = "ok"
      <4>1. completed' = completed \cup {Completion(op[c], art[c], Published(c))}
        BY <1>17, <3>1 DEF Finish
      <4>2. op[c] = "artifact" => art[c] \in ours
        BY <1>17, <3>1 DEF Finish, Done
      <4>3. Published(c) \in Contents
        BY <4>2 DEF Published, DestContent
      <4>4. op[c] \in AllOps
        BY <3>1 DEF AllOps
      <4> QED BY <4>1, <4>3, <4>4 DEF Completion
    <3>2. CASE ~(op[c] \in {"finish", "replace", "artifact"} /\ reply[c] = "ok")
      BY <1>17, <3>2 DEF Finish
    <3> QED BY <3>1, <3>2
  <2> QED BY <2>1, <2>2, <2>3, <2>4
<1>18. ASSUME NEW c \in Calls, UnlinkEntry(c) PROVE TypeOK'
  <2>1. art[c] \in Artifacts
    BY <1>18 DEF UnlinkEntry
  <2>2. PICK e \in artEntries[art[c]] :
           artEntries' = [artEntries EXCEPT ![art[c]] = artEntries[art[c]] \ {e}]
    BY <1>18 DEF UnlinkEntry
  <2>3. artEntries' \in [Artifacts -> SUBSET {"metadata", "payload"}]
    BY <2>1, <2>2
  <2> QED BY <1>18, <2>3 DEF UnlinkEntry
<1>19. ASSUME NEW c \in Calls, UnlinkDirectory(c) PROVE TypeOK'
  BY <1>19 DEF UnlinkDirectory
<1>20. ASSUME NEW c \in Calls, Crash(c) PROVE TypeOK'
  BY <1>20 DEF Crash
<1>21. ASSUME NEW c \in Calls, NEW a \in Artifacts, DeleteArtifact(c, a)
      PROVE TypeOK'
  BY <1>21 DEF DeleteArtifact
<1>22. CASE UNCHANGED vars
  BY <1>22 DEF vars
<1> QED
  BY <1>1, <1>2, <1>3, <1>4, <1>5, <1>6, <1>7, <1>8, <1>9, <1>10, <1>11, <1>12,
       <1>13, <1>14, <1>15, <1>16, <1>17, <1>18, <1>19, <1>20, <1>21, <1>22
     DEF Next, Step, StepFails


-----------------------------------------------------------------------------
(* Completed uploads.                                                      *)

\* At first nothing is published.
LEMMA VerifiedInit == Init => VerifiedInv
BY DEF Init, VerifiedInv, PublishInv, ResultInv, Done, PayloadInv, GoneInv,
       CompletedStaysVerified

\* What was verified under the lock is still so when it is published.
LEMMA PublishNext ==
  ASSUME TypeOK, ControlInv, VerifiedInv, [Next]_vars, NEW d \in Calls
  PROVE  PublishInv(d)'
<1> USE DEF TypeOK, ControlInv, BegunInv, StepInv, Locked, Done, Wrote,
            VerifiedInv, Publishing, AllOps, Gone, PublishInv
<1> USE DEF uploadVars, destVars, artifactVars, bounds, history, Goto, Answer,
            Return, Forget, Failure
<1>1. CASE Begin
  BY <1>1 DEF Begin
<1>2. ASSUME NEW c \in Calls, NEW o \in AllOps, Open(c, o) PROVE PublishInv(d)'
  BY <1>2 DEF Open
<1>3. ASSUME NEW c \in Calls, Flock(c) PROVE PublishInv(d)'
  BY <1>3 DEF Flock
<1>4. ASSUME NEW c \in Calls, Load(c) PROVE PublishInv(d)'
  BY <1>4 DEF Load, Task
<1>5. ASSUME NEW c \in Calls, LookupNext(c) PROVE PublishInv(d)'
  BY <1>5 DEF LookupNext
<1>6. ASSUME NEW c \in Calls, LookupEnds(c) PROVE PublishInv(d)'
  BY <1>6 DEF LookupEnds
<1>7. ASSUME NEW c \in Calls, WriteChunk(c) PROVE PublishInv(d)'
  BY <1>7 DEF WriteChunk
<1>8. ASSUME NEW c \in Calls, WriteChunkFails(c) PROVE PublishInv(d)'
  BY <1>8 DEF WriteChunkFails
<1>9. ASSUME NEW c \in Calls, Verify(c) PROVE PublishInv(d)'
  BY <1>9 DEF Verify
<1>10. ASSUME NEW c \in Calls, Move(c) PROVE PublishInv(d)'
  BY <1>10 DEF Move
<1>11. ASSUME NEW c \in Calls, MoveFails(c) PROVE PublishInv(d)'
  BY <1>11 DEF MoveFails
<1>12. ASSUME NEW c \in Calls, MakeArtifact(c) PROVE PublishInv(d)'
  BY <1>12 DEF MakeArtifact
<1>13. ASSUME NEW c \in Calls, MakeArtifactFails(c) PROVE PublishInv(d)'
  BY <1>13 DEF MakeArtifactFails
<1>14. ASSUME NEW c \in Calls, RemoveEntry(c) PROVE PublishInv(d)'
  BY <1>14 DEF RemoveEntry
<1>15. ASSUME NEW c \in Calls, Removed(c) PROVE PublishInv(d)'
  BY <1>15 DEF Removed
<1>16. ASSUME NEW c \in Calls, RemoveFails(c) PROVE PublishInv(d)'
  BY <1>16 DEF RemoveFails
<1>17. ASSUME NEW c \in Calls, Finish(c) PROVE PublishInv(d)'
  BY <1>17 DEF Finish
<1>18. ASSUME NEW c \in Calls, UnlinkEntry(c) PROVE PublishInv(d)'
  BY <1>18 DEF UnlinkEntry
<1>19. ASSUME NEW c \in Calls, UnlinkDirectory(c) PROVE PublishInv(d)'
  BY <1>19 DEF UnlinkDirectory
<1>20. ASSUME NEW c \in Calls, Crash(c) PROVE PublishInv(d)'
  BY <1>20 DEF Crash
<1>21. ASSUME NEW c \in Calls, NEW a \in Artifacts, DeleteArtifact(c, a)
      PROVE PublishInv(d)'
  BY <1>21 DEF DeleteArtifact
<1>22. CASE UNCHANGED vars
  BY <1>22 DEF vars
<1> QED
  BY <1>1, <1>2, <1>3, <1>4, <1>5, <1>6, <1>7, <1>8, <1>9, <1>10, <1>11, <1>12,
       <1>13, <1>14, <1>15, <1>16, <1>17, <1>18, <1>19, <1>20, <1>21, <1>22
     DEF Next, Step, StepFails

\* Nobody writes to the destination of a completion.
LEMMA ResultNext ==
  ASSUME TypeOK, ControlInv, VerifiedInv, [Next]_vars, NEW d \in Calls
  PROVE  ResultInv(d)'
<1> USE DEF TypeOK, ControlInv, BegunInv, StepInv, Locked, Done, Wrote,
            VerifiedInv, Publishing, AllOps, Gone, PublishInv, ResultInv,
            DestContent
<1> USE DEF uploadVars, destVars, artifactVars, bounds, history, Goto, Answer,
            Return, Forget, Failure
<1>1. CASE Begin
  BY <1>1 DEF Begin
<1>2. ASSUME NEW c \in Calls, NEW o \in AllOps, Open(c, o) PROVE ResultInv(d)'
  BY <1>2 DEF Open
<1>3. ASSUME NEW c \in Calls, Flock(c) PROVE ResultInv(d)'
  BY <1>3 DEF Flock
<1>4. ASSUME NEW c \in Calls, Load(c) PROVE ResultInv(d)'
  BY <1>4 DEF Load, Task
<1>5. ASSUME NEW c \in Calls, LookupNext(c) PROVE ResultInv(d)'
  BY <1>5 DEF LookupNext
<1>6. ASSUME NEW c \in Calls, LookupEnds(c) PROVE ResultInv(d)'
  BY <1>6 DEF LookupEnds
<1>7. ASSUME NEW c \in Calls, WriteChunk(c) PROVE ResultInv(d)'
  BY <1>7 DEF WriteChunk
<1>8. ASSUME NEW c \in Calls, WriteChunkFails(c) PROVE ResultInv(d)'
  BY <1>8 DEF WriteChunkFails
<1>9. ASSUME NEW c \in Calls, Verify(c) PROVE ResultInv(d)'
  BY <1>9 DEF Verify
<1>10. ASSUME NEW c \in Calls, Move(c) PROVE ResultInv(d)'
  BY <1>10 DEF Move
<1>11. ASSUME NEW c \in Calls, MoveFails(c) PROVE ResultInv(d)'
  BY <1>11 DEF MoveFails
<1>12. ASSUME NEW c \in Calls, MakeArtifact(c) PROVE ResultInv(d)'
  BY <1>12 DEF MakeArtifact
<1>13. ASSUME NEW c \in Calls, MakeArtifactFails(c) PROVE ResultInv(d)'
  BY <1>13 DEF MakeArtifactFails
<1>14. ASSUME NEW c \in Calls, RemoveEntry(c) PROVE ResultInv(d)'
  BY <1>14 DEF RemoveEntry
<1>15. ASSUME NEW c \in Calls, Removed(c) PROVE ResultInv(d)'
  BY <1>15 DEF Removed
<1>16. ASSUME NEW c \in Calls, RemoveFails(c) PROVE ResultInv(d)'
  BY <1>16 DEF RemoveFails
<1>17. ASSUME NEW c \in Calls, Finish(c) PROVE ResultInv(d)'
  BY <1>17 DEF Finish
<1>18. ASSUME NEW c \in Calls, UnlinkEntry(c) PROVE ResultInv(d)'
  BY <1>18 DEF UnlinkEntry
<1>19. ASSUME NEW c \in Calls, UnlinkDirectory(c) PROVE ResultInv(d)'
  BY <1>19 DEF UnlinkDirectory
<1>20. ASSUME NEW c \in Calls, Crash(c) PROVE ResultInv(d)'
  BY <1>20 DEF Crash
<1>21. ASSUME NEW c \in Calls, NEW a \in Artifacts, DeleteArtifact(c, a)
      PROVE ResultInv(d)'
  BY <1>21 DEF DeleteArtifact
<1>22. CASE UNCHANGED vars
  BY <1>22 DEF vars
<1> QED
  BY <1>1, <1>2, <1>3, <1>4, <1>5, <1>6, <1>7, <1>8, <1>9, <1>10, <1>11, <1>12,
       <1>13, <1>14, <1>15, <1>16, <1>17, <1>18, <1>19, <1>20, <1>21, <1>22
     DEF Next, Step, StepFails

\* An artifact is made of what was verified, and is never written again.
LEMMA PayloadNext ==
  ASSUME TypeOK, ControlInv, VerifiedInv, [Next]_vars
  PROVE  PayloadInv'
<1> USE DEF TypeOK, ControlInv, BegunInv, StepInv, Locked, Done, Wrote,
            VerifiedInv, Publishing, AllOps, Gone, PublishInv, PayloadInv
<1> USE DEF uploadVars, destVars, artifactVars, bounds, history, Goto, Answer,
            Return, Forget, Failure
<1>1. CASE Begin
  BY <1>1 DEF Begin
<1>2. ASSUME NEW c \in Calls, NEW o \in AllOps, Open(c, o) PROVE PayloadInv'
  BY <1>2 DEF Open
<1>3. ASSUME NEW c \in Calls, Flock(c) PROVE PayloadInv'
  BY <1>3 DEF Flock
<1>4. ASSUME NEW c \in Calls, Load(c) PROVE PayloadInv'
  BY <1>4 DEF Load, Task
<1>5. ASSUME NEW c \in Calls, LookupNext(c) PROVE PayloadInv'
  BY <1>5 DEF LookupNext
<1>6. ASSUME NEW c \in Calls, LookupEnds(c) PROVE PayloadInv'
  BY <1>6 DEF LookupEnds
<1>7. ASSUME NEW c \in Calls, WriteChunk(c) PROVE PayloadInv'
  BY <1>7 DEF WriteChunk
<1>8. ASSUME NEW c \in Calls, WriteChunkFails(c) PROVE PayloadInv'
  BY <1>8 DEF WriteChunkFails
<1>9. ASSUME NEW c \in Calls, Verify(c) PROVE PayloadInv'
  BY <1>9 DEF Verify
<1>10. ASSUME NEW c \in Calls, Move(c) PROVE PayloadInv'
  BY <1>10 DEF Move
<1>11. ASSUME NEW c \in Calls, MoveFails(c) PROVE PayloadInv'
  BY <1>11 DEF MoveFails
<1>12. ASSUME NEW c \in Calls, MakeArtifact(c) PROVE PayloadInv'
  BY <1>12 DEF MakeArtifact
<1>13. ASSUME NEW c \in Calls, MakeArtifactFails(c) PROVE PayloadInv'
  BY <1>13 DEF MakeArtifactFails
<1>14. ASSUME NEW c \in Calls, RemoveEntry(c) PROVE PayloadInv'
  BY <1>14 DEF RemoveEntry
<1>15. ASSUME NEW c \in Calls, Removed(c) PROVE PayloadInv'
  BY <1>15 DEF Removed
<1>16. ASSUME NEW c \in Calls, RemoveFails(c) PROVE PayloadInv'
  BY <1>16 DEF RemoveFails
<1>17. ASSUME NEW c \in Calls, Finish(c) PROVE PayloadInv'
  BY <1>17 DEF Finish
<1>18. ASSUME NEW c \in Calls, UnlinkEntry(c) PROVE PayloadInv'
  BY <1>18 DEF UnlinkEntry
<1>19. ASSUME NEW c \in Calls, UnlinkDirectory(c) PROVE PayloadInv'
  BY <1>19 DEF UnlinkDirectory
<1>20. ASSUME NEW c \in Calls, Crash(c) PROVE PayloadInv'
  BY <1>20 DEF Crash
<1>21. ASSUME NEW c \in Calls, NEW a \in Artifacts, DeleteArtifact(c, a)
      PROVE PayloadInv'
  BY <1>21 DEF DeleteArtifact
<1>22. CASE UNCHANGED vars
  BY <1>22 DEF vars
<1> QED
  BY <1>1, <1>2, <1>3, <1>4, <1>5, <1>6, <1>7, <1>8, <1>9, <1>10, <1>11, <1>12,
       <1>13, <1>14, <1>15, <1>16, <1>17, <1>18, <1>19, <1>20, <1>21, <1>22
     DEF Next, Step, StepFails

\* Once a completion at a destination was reported, the upload is gone for good.
LEMMA GoneNext ==
  ASSUME TypeOK, ControlInv, VerifiedInv, [Next]_vars
  PROVE  GoneInv'
<1> USE DEF TypeOK, ControlInv, BegunInv, StepInv, Locked, Done, Wrote,
            VerifiedInv, Publishing, AllOps, Gone, ResultInv, GoneInv,
            Completion
<1> USE DEF uploadVars, destVars, artifactVars, bounds, history, Goto, Answer,
            Return, Forget, Failure
<1>1. CASE Begin
  BY <1>1 DEF Begin
<1>2. ASSUME NEW c \in Calls, NEW o \in AllOps, Open(c, o) PROVE GoneInv'
  BY <1>2 DEF Open
<1>3. ASSUME NEW c \in Calls, Flock(c) PROVE GoneInv'
  BY <1>3 DEF Flock
<1>4. ASSUME NEW c \in Calls, Load(c) PROVE GoneInv'
  BY <1>4 DEF Load, Task
<1>5. ASSUME NEW c \in Calls, LookupNext(c) PROVE GoneInv'
  BY <1>5 DEF LookupNext
<1>6. ASSUME NEW c \in Calls, LookupEnds(c) PROVE GoneInv'
  BY <1>6 DEF LookupEnds
<1>7. ASSUME NEW c \in Calls, WriteChunk(c) PROVE GoneInv'
  BY <1>7 DEF WriteChunk
<1>8. ASSUME NEW c \in Calls, WriteChunkFails(c) PROVE GoneInv'
  BY <1>8 DEF WriteChunkFails
<1>9. ASSUME NEW c \in Calls, Verify(c) PROVE GoneInv'
  BY <1>9 DEF Verify
<1>10. ASSUME NEW c \in Calls, Move(c) PROVE GoneInv'
  BY <1>10 DEF Move
<1>11. ASSUME NEW c \in Calls, MoveFails(c) PROVE GoneInv'
  BY <1>11 DEF MoveFails
<1>12. ASSUME NEW c \in Calls, MakeArtifact(c) PROVE GoneInv'
  BY <1>12 DEF MakeArtifact
<1>13. ASSUME NEW c \in Calls, MakeArtifactFails(c) PROVE GoneInv'
  BY <1>13 DEF MakeArtifactFails
<1>14. ASSUME NEW c \in Calls, RemoveEntry(c) PROVE GoneInv'
  BY <1>14 DEF RemoveEntry
<1>15. ASSUME NEW c \in Calls, Removed(c) PROVE GoneInv'
  BY <1>15 DEF Removed
<1>16. ASSUME NEW c \in Calls, RemoveFails(c) PROVE GoneInv'
  BY <1>16 DEF RemoveFails
<1>17. ASSUME NEW c \in Calls, Finish(c) PROVE GoneInv'
  BY <1>17 DEF Finish
<1>18. ASSUME NEW c \in Calls, UnlinkEntry(c) PROVE GoneInv'
  BY <1>18 DEF UnlinkEntry
<1>19. ASSUME NEW c \in Calls, UnlinkDirectory(c) PROVE GoneInv'
  BY <1>19 DEF UnlinkDirectory
<1>20. ASSUME NEW c \in Calls, Crash(c) PROVE GoneInv'
  BY <1>20 DEF Crash
<1>21. ASSUME NEW c \in Calls, NEW a \in Artifacts, DeleteArtifact(c, a)
      PROVE GoneInv'
  BY <1>21 DEF DeleteArtifact
<1>22. CASE UNCHANGED vars
  BY <1>22 DEF vars
<1> QED
  BY <1>1, <1>2, <1>3, <1>4, <1>5, <1>6, <1>7, <1>8, <1>9, <1>10, <1>11, <1>12,
       <1>13, <1>14, <1>15, <1>16, <1>17, <1>18, <1>19, <1>20, <1>21, <1>22
     DEF Next, Step, StepFails

\* What was reported stays as it was reported.
LEMMA CompletedNext ==
  ASSUME TypeOK, ControlInv, VerifiedInv, [Next]_vars
  PROVE  CompletedStaysVerified'
<1> USE DEF TypeOK, ControlInv, BegunInv, StepInv, Locked, Done, Wrote,
            VerifiedInv, Publishing, AllOps, Gone, ResultInv, PayloadInv,
            GoneInv, Completion, Published, DestContent, CompletedStaysVerified
<1> USE DEF uploadVars, destVars, artifactVars, bounds, history, Goto, Answer,
            Return, Forget, Failure
<1>1. CASE Begin
  BY <1>1 DEF Begin
<1>2. ASSUME NEW c \in Calls, NEW o \in AllOps, Open(c, o)
      PROVE CompletedStaysVerified'
  BY <1>2 DEF Open
<1>3. ASSUME NEW c \in Calls, Flock(c) PROVE CompletedStaysVerified'
  BY <1>3 DEF Flock
<1>4. ASSUME NEW c \in Calls, Load(c) PROVE CompletedStaysVerified'
  BY <1>4 DEF Load, Task
<1>5. ASSUME NEW c \in Calls, LookupNext(c) PROVE CompletedStaysVerified'
  BY <1>5 DEF LookupNext
<1>6. ASSUME NEW c \in Calls, LookupEnds(c) PROVE CompletedStaysVerified'
  BY <1>6 DEF LookupEnds
<1>7. ASSUME NEW c \in Calls, WriteChunk(c) PROVE CompletedStaysVerified'
  BY <1>7 DEF WriteChunk
<1>8. ASSUME NEW c \in Calls, WriteChunkFails(c) PROVE CompletedStaysVerified'
  BY <1>8 DEF WriteChunkFails
<1>9. ASSUME NEW c \in Calls, Verify(c) PROVE CompletedStaysVerified'
  BY <1>9 DEF Verify
<1>10. ASSUME NEW c \in Calls, Move(c) PROVE CompletedStaysVerified'
  BY <1>10 DEF Move
<1>11. ASSUME NEW c \in Calls, MoveFails(c) PROVE CompletedStaysVerified'
  BY <1>11 DEF MoveFails
<1>12. ASSUME NEW c \in Calls, MakeArtifact(c) PROVE CompletedStaysVerified'
  BY <1>12 DEF MakeArtifact
<1>13. ASSUME NEW c \in Calls, MakeArtifactFails(c) PROVE CompletedStaysVerified'
  BY <1>13 DEF MakeArtifactFails
<1>14. ASSUME NEW c \in Calls, RemoveEntry(c) PROVE CompletedStaysVerified'
  BY <1>14 DEF RemoveEntry
<1>15. ASSUME NEW c \in Calls, Removed(c) PROVE CompletedStaysVerified'
  BY <1>15 DEF Removed
<1>16. ASSUME NEW c \in Calls, RemoveFails(c) PROVE CompletedStaysVerified'
  BY <1>16 DEF RemoveFails
<1>17. ASSUME NEW c \in Calls, Finish(c) PROVE CompletedStaysVerified'
  BY <1>17 DEF Finish
<1>18. ASSUME NEW c \in Calls, UnlinkEntry(c) PROVE CompletedStaysVerified'
  BY <1>18 DEF UnlinkEntry
<1>19. ASSUME NEW c \in Calls, UnlinkDirectory(c) PROVE CompletedStaysVerified'
  BY <1>19 DEF UnlinkDirectory
<1>20. ASSUME NEW c \in Calls, Crash(c) PROVE CompletedStaysVerified'
  BY <1>20 DEF Crash
<1>21. ASSUME NEW c \in Calls, NEW a \in Artifacts, DeleteArtifact(c, a)
      PROVE CompletedStaysVerified'
  BY <1>21 DEF DeleteArtifact
<1>22. CASE UNCHANGED vars
  BY <1>22 DEF vars
<1> QED
  BY <1>1, <1>2, <1>3, <1>4, <1>5, <1>6, <1>7, <1>8, <1>9, <1>10, <1>11, <1>12,
       <1>13, <1>14, <1>15, <1>16, <1>17, <1>18, <1>19, <1>20, <1>21, <1>22
     DEF Next, Step, StepFails

\* The invariant of the verified results is inductive.
LEMMA VerifiedNext == TypeOK /\ ControlInv /\ VerifiedInv /\ [Next]_vars => VerifiedInv'
BY PublishNext, ResultNext, PayloadNext, GoneNext, CompletedNext DEF VerifiedInv

-----------------------------------------------------------------------------
(* One artifact.                                                           *)

\* At first no artifact is counted.
LEMMA CountInit == Init => CountInv
BY FS_EmptySet DEF Init, CountInv

\* A second artifact needs the metadata of an upload whose removal failed.
LEMMA CountNext == TypeOK /\ ControlInv /\ CountInv /\ [Next]_vars => CountInv'
<1> SUFFICES ASSUME TypeOK, ControlInv, CountInv, [Next]_vars PROVE CountInv'
  OBVIOUS
<1>0. Cardinality(ours) \in Nat /\ failures \in Nat
  BY FS_CardinalityType DEF CountInv, TypeOK
<1> USE DEF TypeOK, ControlInv, BegunInv, StepInv, Locked, Done, CountInv,
            Replaces, Publishing, AllOps
<1> USE DEF uploadVars, destVars, artifactVars, bounds, history, Goto, Answer,
            Return, Forget, Failure
<1>1. CASE Begin
  BY <1>0, <1>1, FS_EmptySet DEF Begin
<1>2. ASSUME NEW c \in Calls, NEW o \in AllOps, Open(c, o) PROVE CountInv'
  BY <1>2 DEF Open
<1>3. ASSUME NEW c \in Calls, Flock(c) PROVE CountInv'
  BY <1>3 DEF Flock
<1>4. ASSUME NEW c \in Calls, Load(c) PROVE CountInv'
  BY <1>4 DEF Load, Task
<1>5. ASSUME NEW c \in Calls, LookupNext(c) PROVE CountInv'
  BY <1>5 DEF LookupNext
<1>6. ASSUME NEW c \in Calls, LookupEnds(c) PROVE CountInv'
  BY <1>6 DEF LookupEnds
<1>7. ASSUME NEW c \in Calls, WriteChunk(c) PROVE CountInv'
  BY <1>7 DEF WriteChunk
<1>8. ASSUME NEW c \in Calls, WriteChunkFails(c) PROVE CountInv'
  <2>1. failures' = failures + 1 /\ ours' = ours
    BY <1>8 DEF WriteChunkFails
  <2>2. Cardinality(ours) <= failures'
    BY <1>0, <2>1
  <2>3. Cardinality(ours) <= 1 + failures'
    BY <1>0, <2>1, <2>2
  <2> QED BY <2>1, <2>2, <2>3
<1>9. ASSUME NEW c \in Calls, Verify(c) PROVE CountInv'
  BY <1>9 DEF Verify
<1>10. ASSUME NEW c \in Calls, Move(c) PROVE CountInv'
  BY <1>10 DEF Move
<1>11. ASSUME NEW c \in Calls, MoveFails(c) PROVE CountInv'
  <2>1. failures' = failures + 1 /\ ours' = ours
    BY <1>11 DEF MoveFails
  <2>2. Cardinality(ours) <= failures'
    BY <1>0, <2>1
  <2>3. Cardinality(ours) <= 1 + failures'
    BY <1>0, <2>1, <2>2
  <2> QED BY <2>1, <2>2, <2>3
<1>12. ASSUME NEW c \in Calls, MakeArtifact(c) PROVE CountInv'
  <2>1. CASE "data" \notin entries
    BY <1>12, <2>1 DEF MakeArtifact
  <2>2. CASE "data" \in entries
    <3>1. "metadata" \in entries /\ \A d \in Calls : ~Replaces(d)
      BY <1>12 DEF MakeArtifact
    <3>2. Replaces(c)' /\ failures' = failures
      BY <1>12, <2>2 DEF MakeArtifact
    <3>3. PICK x \in Artifacts \ (artDirs \cup ours) : ours' = ours \cup {x}
      BY <1>12, <2>2 DEF MakeArtifact
    <3>4. IsFiniteSet(ours') /\ Cardinality(ours') = Cardinality(ours) + 1
      BY <3>3, FS_AddElement
    <3>5. Cardinality(ours) <= failures
      BY <3>1
    <3>6. Cardinality(ours') <= 1 + failures'
      BY <1>0, <3>2, <3>4, <3>5
    <3> QED BY <3>2, <3>4, <3>6
  <2> QED BY <2>1, <2>2
<1>13. ASSUME NEW c \in Calls, MakeArtifactFails(c) PROVE CountInv'
  <2>1. failures' = failures + 1 /\ ours' = ours
    BY <1>13 DEF MakeArtifactFails
  <2>2. Cardinality(ours) <= failures'
    BY <1>0, <2>1
  <2>3. Cardinality(ours) <= 1 + failures'
    BY <1>0, <2>1, <2>2
  <2> QED BY <2>1, <2>2, <2>3
<1>14. ASSUME NEW c \in Calls, RemoveEntry(c) PROVE CountInv'
  BY <1>14 DEF RemoveEntry
<1>15. ASSUME NEW c \in Calls, Removed(c) PROVE CountInv'
  BY <1>15 DEF Removed
<1>16. ASSUME NEW c \in Calls, RemoveFails(c) PROVE CountInv'
  <2>1. failures' = failures + 1 /\ ours' = ours
    BY <1>16 DEF RemoveFails
  <2>2. Cardinality(ours) <= failures'
    BY <1>0, <2>1
  <2>3. Cardinality(ours) <= 1 + failures'
    BY <1>0, <2>1, <2>2
  <2> QED BY <2>1, <2>2, <2>3
<1>17. ASSUME NEW c \in Calls, Finish(c) PROVE CountInv'
  BY <1>17 DEF Finish
<1>18. ASSUME NEW c \in Calls, UnlinkEntry(c) PROVE CountInv'
  BY <1>18 DEF UnlinkEntry
<1>19. ASSUME NEW c \in Calls, UnlinkDirectory(c) PROVE CountInv'
  BY <1>19 DEF UnlinkDirectory
<1>20. ASSUME NEW c \in Calls, Crash(c) PROVE CountInv'
  <2>1. failures' = failures + 1 /\ ours' = ours
    BY <1>20 DEF Crash
  <2>2. Cardinality(ours) <= failures'
    BY <1>0, <2>1
  <2>3. Cardinality(ours) <= 1 + failures'
    BY <1>0, <2>1, <2>2
  <2> QED BY <2>1, <2>2, <2>3
<1>21. ASSUME NEW c \in Calls, NEW a \in Artifacts, DeleteArtifact(c, a)
      PROVE CountInv'
  BY <1>21 DEF DeleteArtifact
<1>22. CASE UNCHANGED vars
  BY <1>22 DEF vars
<1> QED
  BY <1>1, <1>2, <1>3, <1>4, <1>5, <1>6, <1>7, <1>8, <1>9, <1>10, <1>11, <1>12,
       <1>13, <1>14, <1>15, <1>16, <1>17, <1>18, <1>19, <1>20, <1>21, <1>22
     DEF Next, Step, StepFails

-----------------------------------------------------------------------------
(* While nothing fails.                                                    *)

Unclaimed == /\ ours = {} /\ completed = {} /\ ~aborted
             /\ \A c \in Calls : ~Completes(c) /\ ~Aborts(c)

\* A call that found the upload under the lock is the only one that ends it.
LEMMA NobodyElse ==
  ASSUME TypeOK, ControlInv, ClaimInv, NEW c \in Calls, lock = c, "metadata" \in entries,
         pc[c] \in {"load", "write", "verify", "publish"} \/ Wrote(c)
  PROVE  Unclaimed
<1> USE DEF ControlInv, StepInv, ClaimInv, EndInv, DoneInv, Locked, Done, Wrote,
            Gone, Completes, Aborts, Replaces, Publishing
<1>1. ~Gone /\ \A d \in Calls : pc[d] # "remove"
  OBVIOUS
<1>2. ours = {} /\ completed = {} /\ ~aborted
  BY <1>1
<1>3. ASSUME NEW d \in Calls PROVE ~Completes(d) /\ ~Aborts(d)
  BY <1>1, <1>2
<1> QED BY <1>2, <1>3 DEF Unclaimed

\* At first no process other than the calls has touched anything.
LEMMA UndisturbedInit == Init => UndisturbedInv
BY DEF Init, UndisturbedInv, ClaimInv, EndInv, AbortInv, DoneInv, ContentInv,
       SameInv, CallInv, AckedInv, Done, Wrote, Completes, Aborts

\* What ended the upload also removes it.
LEMMA EndNext ==
  ASSUME TypeOK, ControlInv, [Next]_vars, failures = 0, failures' = 0, ClaimInv
  PROVE  EndInv'
<1> USE DEF TypeOK, ControlInv, BegunInv, StepInv, Locked, Done, Wrote,
            Publishing, AllOps, Gone, Unclaimed, Completes, Aborts, Replaces,
            EndInv, DoneInv, ClaimInv
<1> USE DEF uploadVars, destVars, artifactVars, bounds, history, Goto, Answer,
            Return, Forget, Failure
<1>1. CASE Begin
  BY <1>1 DEF Begin
<1>2. ASSUME NEW c \in Calls, NEW o \in AllOps, Open(c, o) PROVE EndInv'
  BY <1>2 DEF Open
<1>3. ASSUME NEW c \in Calls, Flock(c) PROVE EndInv'
  BY <1>3 DEF Flock
<1>4. ASSUME NEW c \in Calls, Load(c) PROVE EndInv'
  BY <1>4, NobodyElse DEF Load, Task
<1>5. ASSUME NEW c \in Calls, LookupNext(c) PROVE EndInv'
  BY <1>5 DEF LookupNext
<1>6. ASSUME NEW c \in Calls, LookupEnds(c) PROVE EndInv'
  BY <1>6 DEF LookupEnds
<1>7. ASSUME NEW c \in Calls, WriteChunk(c) PROVE EndInv'
  BY <1>7, NobodyElse DEF WriteChunk
<1>8. ASSUME NEW c \in Calls, WriteChunkFails(c) PROVE EndInv'
  BY <1>8 DEF WriteChunkFails
<1>9. ASSUME NEW c \in Calls, Verify(c) PROVE EndInv'
  BY <1>9, NobodyElse DEF Verify
<1>10. ASSUME NEW c \in Calls, Move(c) PROVE EndInv'
  BY <1>10, NobodyElse DEF Move
<1>11. ASSUME NEW c \in Calls, MoveFails(c) PROVE EndInv'
  BY <1>11 DEF MoveFails
<1>12. ASSUME NEW c \in Calls, MakeArtifact(c) PROVE EndInv'
  BY <1>12, NobodyElse DEF MakeArtifact
<1>13. ASSUME NEW c \in Calls, MakeArtifactFails(c) PROVE EndInv'
  BY <1>13 DEF MakeArtifactFails
<1>14. ASSUME NEW c \in Calls, RemoveEntry(c) PROVE EndInv'
  BY <1>14 DEF RemoveEntry
<1>15. ASSUME NEW c \in Calls, Removed(c) PROVE EndInv'
  BY <1>15 DEF Removed
<1>16. ASSUME NEW c \in Calls, RemoveFails(c) PROVE EndInv'
  BY <1>16 DEF RemoveFails
<1>17. ASSUME NEW c \in Calls, Finish(c) PROVE EndInv'
  BY <1>17 DEF Finish
<1>18. ASSUME NEW c \in Calls, UnlinkEntry(c) PROVE EndInv'
  BY <1>18 DEF UnlinkEntry
<1>19. ASSUME NEW c \in Calls, UnlinkDirectory(c) PROVE EndInv'
  BY <1>19 DEF UnlinkDirectory
<1>20. ASSUME NEW c \in Calls, Crash(c) PROVE EndInv'
  BY <1>20 DEF Crash
<1>21. ASSUME NEW c \in Calls, NEW a \in Artifacts, DeleteArtifact(c, a)
      PROVE EndInv'
  BY <1>21 DEF DeleteArtifact
<1>22. CASE UNCHANGED vars
  BY <1>22 DEF vars
<1> QED
  BY <1>1, <1>2, <1>3, <1>4, <1>5, <1>6, <1>7, <1>8, <1>9, <1>10, <1>11, <1>12,
       <1>13, <1>14, <1>15, <1>16, <1>17, <1>18, <1>19, <1>20, <1>21, <1>22
     DEF Next, Step, StepFails

\* A call that answers with success has removed all of the upload.
LEMMA DoneNext ==
  ASSUME TypeOK, ControlInv, [Next]_vars,
         failures = 0, failures' = 0, ClaimInv, NEW d \in Calls
  PROVE  DoneInv(d)'
<1> USE DEF TypeOK, ControlInv, BegunInv, StepInv, Locked, Done, Wrote,
            Publishing, AllOps, Gone, Unclaimed, Completes, Aborts, Replaces,
            DoneInv, ClaimInv
<1> USE DEF uploadVars, destVars, artifactVars, bounds, history, Goto, Answer,
            Return, Forget, Failure
<1>1. CASE Begin
  BY <1>1 DEF Begin
<1>2. ASSUME NEW c \in Calls, NEW o \in AllOps, Open(c, o) PROVE DoneInv(d)'
  BY <1>2 DEF Open
<1>3. ASSUME NEW c \in Calls, Flock(c) PROVE DoneInv(d)'
  BY <1>3 DEF Flock
<1>4. ASSUME NEW c \in Calls, Load(c) PROVE DoneInv(d)'
  BY <1>4, NobodyElse DEF Load, Task
<1>5. ASSUME NEW c \in Calls, LookupNext(c) PROVE DoneInv(d)'
  BY <1>5 DEF LookupNext
<1>6. ASSUME NEW c \in Calls, LookupEnds(c) PROVE DoneInv(d)'
  BY <1>6 DEF LookupEnds
<1>7. ASSUME NEW c \in Calls, WriteChunk(c) PROVE DoneInv(d)'
  BY <1>7, NobodyElse DEF WriteChunk
<1>8. ASSUME NEW c \in Calls, WriteChunkFails(c) PROVE DoneInv(d)'
  BY <1>8 DEF WriteChunkFails
<1>9. ASSUME NEW c \in Calls, Verify(c) PROVE DoneInv(d)'
  BY <1>9, NobodyElse DEF Verify
<1>10. ASSUME NEW c \in Calls, Move(c) PROVE DoneInv(d)'
  BY <1>10, NobodyElse DEF Move
<1>11. ASSUME NEW c \in Calls, MoveFails(c) PROVE DoneInv(d)'
  BY <1>11 DEF MoveFails
<1>12. ASSUME NEW c \in Calls, MakeArtifact(c) PROVE DoneInv(d)'
  BY <1>12, NobodyElse DEF MakeArtifact
<1>13. ASSUME NEW c \in Calls, MakeArtifactFails(c) PROVE DoneInv(d)'
  BY <1>13 DEF MakeArtifactFails
<1>14. ASSUME NEW c \in Calls, RemoveEntry(c) PROVE DoneInv(d)'
  BY <1>14 DEF RemoveEntry
<1>15. ASSUME NEW c \in Calls, Removed(c) PROVE DoneInv(d)'
  BY <1>15 DEF Removed
<1>16. ASSUME NEW c \in Calls, RemoveFails(c) PROVE DoneInv(d)'
  BY <1>16 DEF RemoveFails
<1>17. ASSUME NEW c \in Calls, Finish(c) PROVE DoneInv(d)'
  BY <1>17 DEF Finish
<1>18. ASSUME NEW c \in Calls, UnlinkEntry(c) PROVE DoneInv(d)'
  BY <1>18 DEF UnlinkEntry
<1>19. ASSUME NEW c \in Calls, UnlinkDirectory(c) PROVE DoneInv(d)'
  BY <1>19 DEF UnlinkDirectory
<1>20. ASSUME NEW c \in Calls, Crash(c) PROVE DoneInv(d)'
  BY <1>20 DEF Crash
<1>21. ASSUME NEW c \in Calls, NEW a \in Artifacts, DeleteArtifact(c, a)
      PROVE DoneInv(d)'
  BY <1>21 DEF DeleteArtifact
<1>22. CASE UNCHANGED vars
  BY <1>22 DEF vars
<1> QED
  BY <1>1, <1>2, <1>3, <1>4, <1>5, <1>6, <1>7, <1>8, <1>9, <1>10, <1>11, <1>12,
       <1>13, <1>14, <1>15, <1>16, <1>17, <1>18, <1>19, <1>20, <1>21, <1>22
     DEF Next, Step, StepFails

\* An abort and a completion exclude each other from the moment they begin.
LEMMA AbortNext ==
  ASSUME TypeOK, ControlInv, [Next]_vars, failures = 0, failures' = 0, ClaimInv
  PROVE  AbortInv'
<1> USE DEF TypeOK, ControlInv, BegunInv, StepInv, Locked, Done, Wrote,
            Publishing, AllOps, Gone, Unclaimed, Completes, Aborts, Replaces,
            EndInv, AbortInv, ClaimInv
<1> USE DEF uploadVars, destVars, artifactVars, bounds, history, Goto, Answer,
            Return, Forget, Failure
<1>1. CASE Begin
  BY <1>1 DEF Begin
<1>2. ASSUME NEW c \in Calls, NEW o \in AllOps, Open(c, o) PROVE AbortInv'
  BY <1>2 DEF Open
<1>3. ASSUME NEW c \in Calls, Flock(c) PROVE AbortInv'
  BY <1>3 DEF Flock
<1>4. ASSUME NEW c \in Calls, Load(c) PROVE AbortInv'
  BY <1>4, NobodyElse DEF Load, Task
<1>5. ASSUME NEW c \in Calls, LookupNext(c) PROVE AbortInv'
  BY <1>5 DEF LookupNext
<1>6. ASSUME NEW c \in Calls, LookupEnds(c) PROVE AbortInv'
  BY <1>6 DEF LookupEnds
<1>7. ASSUME NEW c \in Calls, WriteChunk(c) PROVE AbortInv'
  BY <1>7, NobodyElse DEF WriteChunk
<1>8. ASSUME NEW c \in Calls, WriteChunkFails(c) PROVE AbortInv'
  BY <1>8 DEF WriteChunkFails
<1>9. ASSUME NEW c \in Calls, Verify(c) PROVE AbortInv'
  BY <1>9, NobodyElse DEF Verify
<1>10. ASSUME NEW c \in Calls, Move(c) PROVE AbortInv'
  BY <1>10, NobodyElse DEF Move
<1>11. ASSUME NEW c \in Calls, MoveFails(c) PROVE AbortInv'
  BY <1>11 DEF MoveFails
<1>12. ASSUME NEW c \in Calls, MakeArtifact(c) PROVE AbortInv'
  BY <1>12, NobodyElse DEF MakeArtifact
<1>13. ASSUME NEW c \in Calls, MakeArtifactFails(c) PROVE AbortInv'
  BY <1>13 DEF MakeArtifactFails
<1>14. ASSUME NEW c \in Calls, RemoveEntry(c) PROVE AbortInv'
  BY <1>14 DEF RemoveEntry
<1>15. ASSUME NEW c \in Calls, Removed(c) PROVE AbortInv'
  BY <1>15 DEF Removed
<1>16. ASSUME NEW c \in Calls, RemoveFails(c) PROVE AbortInv'
  BY <1>16 DEF RemoveFails
<1>17. ASSUME NEW c \in Calls, Finish(c) PROVE AbortInv'
  BY <1>17 DEF Finish
<1>18. ASSUME NEW c \in Calls, UnlinkEntry(c) PROVE AbortInv'
  BY <1>18 DEF UnlinkEntry
<1>19. ASSUME NEW c \in Calls, UnlinkDirectory(c) PROVE AbortInv'
  BY <1>19 DEF UnlinkDirectory
<1>20. ASSUME NEW c \in Calls, Crash(c) PROVE AbortInv'
  BY <1>20 DEF Crash
<1>21. ASSUME NEW c \in Calls, NEW a \in Artifacts, DeleteArtifact(c, a)
      PROVE AbortInv'
  BY <1>21 DEF DeleteArtifact
<1>22. CASE UNCHANGED vars
  BY <1>22 DEF vars
<1> QED
  BY <1>1, <1>2, <1>3, <1>4, <1>5, <1>6, <1>7, <1>8, <1>9, <1>10, <1>11, <1>12,
       <1>13, <1>14, <1>15, <1>16, <1>17, <1>18, <1>19, <1>20, <1>21, <1>22
     DEF Next, Step, StepFails

\* What was published is the content.
LEMMA SameNext ==
  ASSUME TypeOK, ControlInv, [Next]_vars,
         failures = 0, failures' = 0, ClaimInv, ContentInv
  PROVE  SameInv'
<1> USE DEF TypeOK, ControlInv, BegunInv, StepInv, Locked, Done, Wrote,
            Publishing, AllOps, Gone, Unclaimed, Completes, Aborts, Replaces,
            SameInv, CallInv, ContentInv, Completion, Published
<1> USE DEF uploadVars, destVars, artifactVars, bounds, history, Goto, Answer,
            Return, Forget, Failure
<1>1. CASE Begin
  BY <1>1 DEF Begin
<1>2. ASSUME NEW c \in Calls, NEW o \in AllOps, Open(c, o) PROVE SameInv'
  BY <1>2 DEF Open
<1>3. ASSUME NEW c \in Calls, Flock(c) PROVE SameInv'
  BY <1>3 DEF Flock
<1>4. ASSUME NEW c \in Calls, Load(c) PROVE SameInv'
  BY <1>4, NobodyElse DEF Load, Task
<1>5. ASSUME NEW c \in Calls, LookupNext(c) PROVE SameInv'
  BY <1>5 DEF LookupNext
<1>6. ASSUME NEW c \in Calls, LookupEnds(c) PROVE SameInv'
  BY <1>6 DEF LookupEnds
<1>7. ASSUME NEW c \in Calls, WriteChunk(c) PROVE SameInv'
  BY <1>7, NobodyElse DEF WriteChunk
<1>8. ASSUME NEW c \in Calls, WriteChunkFails(c) PROVE SameInv'
  BY <1>8 DEF WriteChunkFails
<1>9. ASSUME NEW c \in Calls, Verify(c) PROVE SameInv'
  BY <1>9, NobodyElse DEF Verify
<1>10. ASSUME NEW c \in Calls, Move(c) PROVE SameInv'
  BY <1>10, NobodyElse DEF Move
<1>11. ASSUME NEW c \in Calls, MoveFails(c) PROVE SameInv'
  BY <1>11 DEF MoveFails
<1>12. ASSUME NEW c \in Calls, MakeArtifact(c) PROVE SameInv'
  BY <1>12, NobodyElse DEF MakeArtifact
<1>13. ASSUME NEW c \in Calls, MakeArtifactFails(c) PROVE SameInv'
  BY <1>13 DEF MakeArtifactFails
<1>14. ASSUME NEW c \in Calls, RemoveEntry(c) PROVE SameInv'
  BY <1>14 DEF RemoveEntry
<1>15. ASSUME NEW c \in Calls, Removed(c) PROVE SameInv'
  BY <1>15 DEF Removed
<1>16. ASSUME NEW c \in Calls, RemoveFails(c) PROVE SameInv'
  BY <1>16 DEF RemoveFails
<1>17. ASSUME NEW c \in Calls, Finish(c) PROVE SameInv'
  BY <1>17 DEF Finish
<1>18. ASSUME NEW c \in Calls, UnlinkEntry(c) PROVE SameInv'
  BY <1>18 DEF UnlinkEntry
<1>19. ASSUME NEW c \in Calls, UnlinkDirectory(c) PROVE SameInv'
  BY <1>19 DEF UnlinkDirectory
<1>20. ASSUME NEW c \in Calls, Crash(c) PROVE SameInv'
  BY <1>20 DEF Crash
<1>21. ASSUME NEW c \in Calls, NEW a \in Artifacts, DeleteArtifact(c, a)
      PROVE SameInv'
  BY <1>21 DEF DeleteArtifact
<1>22. CASE UNCHANGED vars
  BY <1>22 DEF vars
<1> QED
  BY <1>1, <1>2, <1>3, <1>4, <1>5, <1>6, <1>7, <1>8, <1>9, <1>10, <1>11, <1>12,
       <1>13, <1>14, <1>15, <1>16, <1>17, <1>18, <1>19, <1>20, <1>21, <1>22
     DEF Next, Step, StepFails

\* What a call is about to answer is true of the content.
LEMMA CallNext ==
  ASSUME TypeOK, ControlInv, [Next]_vars,
         failures = 0, failures' = 0, ClaimInv, ContentInv, NEW d \in Calls
  PROVE  CallInv(d)'
<1> USE DEF TypeOK, ControlInv, BegunInv, StepInv, Locked, Done, Wrote,
            Publishing, AllOps, Gone, Unclaimed, Completes, Aborts, Replaces,
            CallInv, ContentInv, DestContent
<1> USE DEF uploadVars, destVars, artifactVars, bounds, history, Goto, Answer,
            Return, Forget, Failure
<1>1. CASE Begin
  BY <1>1 DEF Begin
<1>2. ASSUME NEW c \in Calls, NEW o \in AllOps, Open(c, o) PROVE CallInv(d)'
  BY <1>2 DEF Open
<1>3. ASSUME NEW c \in Calls, Flock(c) PROVE CallInv(d)'
  BY <1>3 DEF Flock
<1>4. ASSUME NEW c \in Calls, Load(c) PROVE CallInv(d)'
  BY <1>4, NobodyElse DEF Load, Task
<1>5. ASSUME NEW c \in Calls, LookupNext(c) PROVE CallInv(d)'
  BY <1>5 DEF LookupNext
<1>6. ASSUME NEW c \in Calls, LookupEnds(c) PROVE CallInv(d)'
  BY <1>6 DEF LookupEnds
<1>7. ASSUME NEW c \in Calls, WriteChunk(c) PROVE CallInv(d)'
  <2>1. Unclaimed /\ block[c] \in Offsets \X Values /\ lock = c
    BY <1>7, NobodyElse DEF WriteChunk
  <2>2. CASE block[c][1] > Len(content)
    BY <1>7, <2>1, <2>2 DEF WriteChunk
  <2>3. CASE ~(block[c][1] > Len(content))
    <3>1. /\ content' = WriteAt(content, block[c][1], block[c][2])
          /\ Return(c, "ok") /\ UNCHANGED <<lock, op, block, acked>>
      BY <1>7, <2>3 DEF WriteChunk
    <3>2. content \in Contents /\ block[c][1] \in Offsets /\ block[c][2] \in Values
      BY <2>1
    <3>3. block[c][1] <= Len(content)
      BY <2>3, <3>2, ContentsAreSequences, WantedType DEF Offsets
    <3>4. /\ Len(content) <= Len(content')
          /\ block[c][1] < Len(content') /\ content'[block[c][1] + 1] = block[c][2]
          /\ content' \in Contents
          /\ \A k \in Offsets : k # block[c][1] /\ k < Len(content) =>
               content'[k + 1] = content[k + 1]
      BY <3>1, <3>2, <3>3, WriteAtType
    <3>5. \A e \in Calls : Completes(e)' /\ op'[e] # "artifact" => FALSE
      BY <1>7, <2>1, <2>3 DEF WriteChunk
    <3>6. Wrote(d)' => d = c
      BY <1>7, <2>1, <2>3 DEF WriteChunk
    <3> QED BY <3>1, <3>4, <3>5, <3>6
  <2> QED BY <2>2, <2>3
<1>8. ASSUME NEW c \in Calls, WriteChunkFails(c) PROVE CallInv(d)'
  BY <1>8 DEF WriteChunkFails
<1>9. ASSUME NEW c \in Calls, Verify(c) PROVE CallInv(d)'
  BY <1>9, NobodyElse DEF Verify
<1>10. ASSUME NEW c \in Calls, Move(c) PROVE CallInv(d)'
  BY <1>10, NobodyElse DEF Move
<1>11. ASSUME NEW c \in Calls, MoveFails(c) PROVE CallInv(d)'
  BY <1>11 DEF MoveFails
<1>12. ASSUME NEW c \in Calls, MakeArtifact(c) PROVE CallInv(d)'
  BY <1>12, NobodyElse DEF MakeArtifact
<1>13. ASSUME NEW c \in Calls, MakeArtifactFails(c) PROVE CallInv(d)'
  BY <1>13 DEF MakeArtifactFails
<1>14. ASSUME NEW c \in Calls, RemoveEntry(c) PROVE CallInv(d)'
  BY <1>14 DEF RemoveEntry
<1>15. ASSUME NEW c \in Calls, Removed(c) PROVE CallInv(d)'
  BY <1>15 DEF Removed
<1>16. ASSUME NEW c \in Calls, RemoveFails(c) PROVE CallInv(d)'
  BY <1>16 DEF RemoveFails
<1>17. ASSUME NEW c \in Calls, Finish(c) PROVE CallInv(d)'
  BY <1>17 DEF Finish
<1>18. ASSUME NEW c \in Calls, UnlinkEntry(c) PROVE CallInv(d)'
  BY <1>18 DEF UnlinkEntry
<1>19. ASSUME NEW c \in Calls, UnlinkDirectory(c) PROVE CallInv(d)'
  BY <1>19 DEF UnlinkDirectory
<1>20. ASSUME NEW c \in Calls, Crash(c) PROVE CallInv(d)'
  BY <1>20 DEF Crash
<1>21. ASSUME NEW c \in Calls, NEW a \in Artifacts, DeleteArtifact(c, a)
      PROVE CallInv(d)'
  BY <1>21 DEF DeleteArtifact
<1>22. CASE UNCHANGED vars
  BY <1>22 DEF vars
<1> QED
  BY <1>1, <1>2, <1>3, <1>4, <1>5, <1>6, <1>7, <1>8, <1>9, <1>10, <1>11, <1>12,
       <1>13, <1>14, <1>15, <1>16, <1>17, <1>18, <1>19, <1>20, <1>21, <1>22
     DEF Next, Step, StepFails

\* Every acknowledged block is in the content, or one that is about to be
\* acknowledged for the same offset.
LEMMA AckedNext ==
  ASSUME TypeOK, ControlInv, [Next]_vars,
         failures = 0, failures' = 0, ClaimInv, ContentInv
  PROVE  AckedInv'
<1> USE DEF TypeOK, ControlInv, BegunInv, StepInv, Locked, Done, Wrote,
            Publishing, AllOps, Gone, Unclaimed, Completes, Aborts, Replaces,
            AckedInv, CallInv, ContentInv
<1> USE DEF uploadVars, destVars, artifactVars, bounds, history, Goto, Answer,
            Return, Forget, Failure
<1>1. CASE Begin
  BY <1>1 DEF Begin
<1>2. ASSUME NEW c \in Calls, NEW o \in AllOps, Open(c, o) PROVE AckedInv'
  BY <1>2 DEF Open
<1>3. ASSUME NEW c \in Calls, Flock(c) PROVE AckedInv'
  BY <1>3 DEF Flock
<1>4. ASSUME NEW c \in Calls, Load(c) PROVE AckedInv'
  BY <1>4, NobodyElse DEF Load, Task
<1>5. ASSUME NEW c \in Calls, LookupNext(c) PROVE AckedInv'
  BY <1>5 DEF LookupNext
<1>6. ASSUME NEW c \in Calls, LookupEnds(c) PROVE AckedInv'
  BY <1>6 DEF LookupEnds
<1>7. ASSUME NEW c \in Calls, WriteChunk(c) PROVE AckedInv'
  <2>1. Unclaimed /\ block[c] \in Offsets \X Values /\ lock = c
    BY <1>7, NobodyElse DEF WriteChunk
  <2>2. CASE block[c][1] > Len(content)
    BY <1>7, <2>1, <2>2 DEF WriteChunk
  <2>3. CASE ~(block[c][1] > Len(content))
    <3>1. /\ content' = WriteAt(content, block[c][1], block[c][2])
          /\ Return(c, "ok") /\ UNCHANGED <<lock, op, block, acked>>
      BY <1>7, <2>3 DEF WriteChunk
    <3>2. content \in Contents /\ block[c][1] \in Offsets /\ block[c][2] \in Values
      BY <2>1
    <3>3. block[c][1] <= Len(content)
      BY <2>3, <3>2, ContentsAreSequences, WantedType DEF Offsets
    <3>4. /\ Len(content) <= Len(content')
          /\ block[c][1] < Len(content') /\ content'[block[c][1] + 1] = block[c][2]
          /\ content' \in Contents
          /\ \A k \in Offsets : k # block[c][1] /\ k < Len(content) =>
               content'[k + 1] = content[k + 1]
      BY <3>1, <3>2, <3>3, WriteAtType
    <3>5. Wrote(c)' /\ \A e \in Calls : ~Wrote(e)
      <4>1. pc[c] = "write" /\ op[c] = "chunk"
        BY <1>7 DEF WriteChunk
      <4> QED BY <2>1, <3>1, <4>1
    <3>6. ASSUME NEW k \in Offsets, acked'[k] # 0
          PROVE  /\ k < Len(content')
                 /\ content'[k + 1] = acked'[k] \/ \E e \in Calls : Wrote(e)' /\ block'[e][1] = k
      <4>1. k < Len(content) /\ content[k + 1] = acked[k]
        BY <3>1, <3>5, <3>6
      <4>2. k < Len(content')
        BY <3>2, <3>4, <4>1, ContentsAreSequences DEF Offsets
      <4>3. k # block[c][1] => content'[k + 1] = acked'[k]
        BY <3>1, <3>4, <4>1
      <4>4. block'[c] = block[c]
        BY <3>1
      <4> HIDE DEF Wrote
      <4> QED BY <3>5, <4>2, <4>3, <4>4
    <3> QED BY <3>6
  <2> QED BY <2>2, <2>3
<1>8. ASSUME NEW c \in Calls, WriteChunkFails(c) PROVE AckedInv'
  BY <1>8 DEF WriteChunkFails
<1>9. ASSUME NEW c \in Calls, Verify(c) PROVE AckedInv'
  BY <1>9, NobodyElse DEF Verify
<1>10. ASSUME NEW c \in Calls, Move(c) PROVE AckedInv'
  BY <1>10, NobodyElse DEF Move
<1>11. ASSUME NEW c \in Calls, MoveFails(c) PROVE AckedInv'
  BY <1>11 DEF MoveFails
<1>12. ASSUME NEW c \in Calls, MakeArtifact(c) PROVE AckedInv'
  BY <1>12, NobodyElse DEF MakeArtifact
<1>13. ASSUME NEW c \in Calls, MakeArtifactFails(c) PROVE AckedInv'
  BY <1>13 DEF MakeArtifactFails
<1>14. ASSUME NEW c \in Calls, RemoveEntry(c) PROVE AckedInv'
  BY <1>14 DEF RemoveEntry
<1>15. ASSUME NEW c \in Calls, Removed(c) PROVE AckedInv'
  BY <1>15 DEF Removed
<1>16. ASSUME NEW c \in Calls, RemoveFails(c) PROVE AckedInv'
  BY <1>16 DEF RemoveFails
<1>17. ASSUME NEW c \in Calls, Finish(c) PROVE AckedInv'
  BY <1>17 DEF Finish
<1>18. ASSUME NEW c \in Calls, UnlinkEntry(c) PROVE AckedInv'
  BY <1>18 DEF UnlinkEntry
<1>19. ASSUME NEW c \in Calls, UnlinkDirectory(c) PROVE AckedInv'
  BY <1>19 DEF UnlinkDirectory
<1>20. ASSUME NEW c \in Calls, Crash(c) PROVE AckedInv'
  BY <1>20 DEF Crash
<1>21. ASSUME NEW c \in Calls, NEW a \in Artifacts, DeleteArtifact(c, a)
      PROVE AckedInv'
  BY <1>21 DEF DeleteArtifact
<1>22. CASE UNCHANGED vars
  BY <1>22 DEF vars
<1> QED
  BY <1>1, <1>2, <1>3, <1>4, <1>5, <1>6, <1>7, <1>8, <1>9, <1>10, <1>11, <1>12,
       <1>13, <1>14, <1>15, <1>16, <1>17, <1>18, <1>19, <1>20, <1>21, <1>22
     DEF Next, Step, StepFails

\* A step after which nothing has failed is none of those that fail.
LEMMA UndisturbedNext ==
  TypeOK /\ ControlInv /\ UndisturbedInv /\ [Next]_vars => UndisturbedInv'
<1> SUFFICES ASSUME TypeOK, ControlInv, UndisturbedInv, [Next]_vars, failures' = 0
             PROVE  (ClaimInv /\ ContentInv)'
  BY DEF UndisturbedInv, Undisturbed
<1>1. failures = 0
  BY DEF TypeOK, Next, Step, StepFails, Begin, Open, Flock, Load, LookupNext,
         LookupEnds, WriteChunk, Verify, Move, MakeArtifact, RemoveEntry,
         Removed, Finish, DeleteArtifact, UnlinkEntry, UnlinkDirectory,
         WriteChunkFails, MoveFails, MakeArtifactFails, RemoveFails, Crash,
         Failure, vars, bounds
<1>2. ClaimInv /\ ContentInv
  BY <1>1 DEF UndisturbedInv, Undisturbed
<1>3. ClaimInv'
  BY <1>1, <1>2, EndNext, DoneNext, AbortNext DEF ClaimInv
<1>4. ContentInv'
  BY <1>1, <1>2, SameNext, CallNext, AckedNext DEF ContentInv
<1> QED BY <1>3, <1>4

-----------------------------------------------------------------------------
(* The properties.                                                         *)

\* AllInv is the inductive invariant of the upload: all that follows is a part of it.
THEOREM Inductive == Spec => []AllInv
<1>1. Init => AllInv
  BY TypeInit, ControlInit, VerifiedInit, CountInit, UndisturbedInit DEF AllInv
<1>2. AllInv /\ [Next]_vars => AllInv'
  BY TypeNext, ControlNext, VerifiedNext, CountNext, UndisturbedNext DEF AllInv
<1> QED BY <1>1, <1>2, PTL DEF Spec

\* The files, the handles and what the calls hold of them are of their kinds.
THEOREM TypeCorrect == Spec => []TypeOK
<1>1. AllInv => TypeOK
  BY DEF AllInv
<1> QED BY <1>1, Inductive, PTL

\* A completion that was answered stays what was verified, since a chunk that
\* waited for the lock reads metadata.json again before it writes.
THEOREM CompletedStaysVerifiedHolds == Spec => []CompletedStaysVerified
<1>1. AllInv => CompletedStaysVerified
  BY DEF AllInv, VerifiedInv
<1> QED BY <1>1, Inductive, PTL

\* Every artifact of the upload beyond the first is the trace of a failure: the
\* next completion finds the upload only if the last one could not remove it.
THEOREM OneArtifactHolds == Spec => []OneArtifact
<1>1. AllInv => OneArtifact
  BY DEF AllInv, CountInv, OneArtifact
<1> QED BY <1>1, Inductive, PTL

\* Without failures no two clients are told that one upload is complete and
\* aborted.
THEOREM AbortExcludesCompletionHolds == Spec => []AbortExcludesCompletion
<1>1. AllInv => AbortExcludesCompletion
  BY DEF AllInv, UndisturbedInv, ClaimInv, AbortInv, AbortExcludesCompletion
<1> QED BY <1>1, Inductive, PTL

\* Without failures every acknowledged chunk is in what was completed.
THEOREM AckedIsPublishedHolds == Spec => []AckedIsPublished
<1>1. AllInv => AckedIsPublished
  <2> SUFFICES ASSUME AllInv, Undisturbed, NEW r \in completed, NEW i \in Offsets,
                      acked[i] # 0
               PROVE  i < Len(r.content) /\ r.content[i + 1] = acked[i]
    BY DEF AckedIsPublished
  <2>1. TypeOK /\ ControlInv /\ ClaimInv /\ ContentInv
    BY DEF AllInv, UndisturbedInv
  <2>2. \A c \in Calls : ~Wrote(c)
    <3> SUFFICES ASSUME NEW c \in Calls, Wrote(c) PROVE FALSE
      OBVIOUS
    <3>1. lock = c /\ "metadata" \in entries
      BY <2>1 DEF ControlInv, StepInv
    <3> QED BY <2>1, <3>1, NobodyElse DEF Unclaimed
  <2> QED BY <2>1, <2>2 DEF ContentInv, SameInv, AckedInv
<1> QED BY <1>1, Inductive, PTL

=============================================================================
