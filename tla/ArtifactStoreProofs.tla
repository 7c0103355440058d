------------------------- MODULE ArtifactStoreProofs -------------------------
(***************************************************************************)
(* One creation at a destination at most, and complete listings, for any   *)
(* callers and artifacts.                                                  *)
(***************************************************************************)
EXTENDS ArtifactStore, TLAPS

Steps == {"idle", "copy", "blocked", "describe", "publish", "discard", "load",
          "entries", "copyout", "place", "linked"}

\* A destination is removed by one step only, the undoing of a link whose other
\* name could not be removed.  While a call may take that step no call has
\* reported a creation, no other call may take it, and the destination exists,
\* so that none can get there.
CreationInv ==
    /\ pc \in [Callers -> Steps]
    /\ subject \in [Callers -> Artifacts \cup {NoArtifact}]
    /\ \A c \in Callers : pc[c] \in {"copyout", "place", "linked"} =>
                            subject[c] \in Artifacts
    /\ \A c \in Callers : pc[c] = "linked" =>
         /\ dest # NoArtifact /\ creations = {}
         /\ replaced \/ dest = subject[c]
    /\ \A c, d \in Callers : pc[c] = "linked" /\ pc[d] = "linked" => c = d
    /\ creations # {} => dest # NoArtifact
    /\ \A x \in creations : x[2] \in Artifacts
    /\ CreatedOnce

\* At first nothing is stored and no creation runs.
LEMMA CreationInit == CallersInit /\ ArtifactsInit => CreationInv
<1> SUFFICES ASSUME CallersInit, ArtifactsInit PROVE CreationInv
  OBVIOUS
<1>1. creations = {} /\ CreatedOnce
  BY DEF ArtifactsInit, CreatedOnce
<1>2. /\ pc \in [Callers -> Steps]
      /\ \A c \in Callers : pc[c] = "idle"
  BY DEF CallersInit, Steps
<1>3. subject \in [Callers -> Artifacts \cup {NoArtifact}]
  BY DEF ArtifactsInit
<1> QED BY <1>1, <1>2, <1>3 DEF CreationInv

\* The steps of calls that write no destination
LEMMA CreationElsewhere ==
  ASSUME CreationInv, UNCHANGED <<dest, creations, replaced>>,
         NEW c \in Callers,
         NEW step \in Steps \ {"linked"},
         NEW a \in Artifacts \cup {NoArtifact},
         step \in {"copyout", "place"} => a \in Artifacts,
         pc' = [pc EXCEPT ![c] = step],
         subject' = [subject EXCEPT ![c] = a]
  PROVE  CreationInv'
<1>1. /\ pc' \in [Callers -> Steps]
      /\ subject' \in [Callers -> Artifacts \cup {NoArtifact}]
  BY DEF CreationInv
<1>2. \A d \in Callers : pc'[d] \in {"copyout", "place", "linked"} =>
                           subject'[d] \in Artifacts
  BY DEF CreationInv
<1>3. \A d \in Callers : pc'[d] = "linked" =>
                           pc[d] = "linked" /\ subject'[d] = subject[d]
  BY DEF CreationInv
<1> QED BY <1>1, <1>2, <1>3 DEF CreationInv, CreatedOnce

\* A file appears at a free destination.
LEMMA CreationPlace ==
  ASSUME CreationInv, NEW c \in Callers, Place(c)
  PROVE  CreationInv'
<1>1. pc[c] = "place" /\ subject[c] \in Artifacts /\ subject[c] # NoArtifact
  BY ArtifactsAssumption DEF Place, CreationInv
<1>2. CASE dest # NoArtifact
  <2>1. /\ UNCHANGED <<dest, creations, replaced>>
        /\ pc' = [pc EXCEPT ![c] = "idle"]
        /\ subject' = [subject EXCEPT ![c] = NoArtifact]
    BY <1>2 DEF Place, OnlyDest, Return, Leave, Finish
  <2> QED BY <2>1, CreationElsewhere DEF Steps
<1>3. CASE dest = NoArtifact
  <2>1. creations = {} /\ (\A d \in Callers : pc[d] # "linked")
    BY <1>3 DEF CreationInv
  <2>2. dest' = subject[c] /\ UNCHANGED replaced
    BY <1>3 DEF Place, OnlyDest
  <2>3. CASE creations' = {<<c, subject[c]>>} /\ Return(c) /\ Finish(c)
    <3>1. /\ pc' = [pc EXCEPT ![c] = "idle"]
          /\ subject' = [subject EXCEPT ![c] = NoArtifact]
      BY <2>3 DEF Return, Leave, Finish
    <3>2. /\ pc' \in [Callers -> Steps]
          /\ subject' \in [Callers -> Artifacts \cup {NoArtifact}]
          /\ \A d \in Callers : pc'[d] \in {"copyout", "place", "linked"} =>
                                  subject'[d] \in Artifacts
          /\ \A d \in Callers : pc'[d] # "linked"
      BY <2>1, <3>1 DEF CreationInv, Steps
    <3>3. /\ creations' # {} => dest' # NoArtifact
          /\ \A x \in creations' : x[2] \in Artifacts
          /\ CreatedOnce'
      BY <1>1, <2>2, <2>3 DEF CreatedOnce
    <3> QED BY <3>2, <3>3 DEF CreationInv
  <2>4. CASE Goto(c, "linked") /\ UNCHANGED <<subject, creations>>
    <3>1. pc' = [pc EXCEPT ![c] = "linked"]
      BY <2>4 DEF Goto
    <3>2. /\ pc' \in [Callers -> Steps]
          /\ \A d \in Callers : pc'[d] = "linked" => d = c
          /\ \A d \in Callers : pc'[d] \in {"copyout", "place", "linked"} =>
                                  subject'[d] \in Artifacts
      BY <1>1, <2>1, <2>4, <3>1 DEF CreationInv, Steps
    <3> QED BY <1>1, <2>1, <2>2, <2>4, <3>2 DEF CreationInv, CreatedOnce
  <2> QED BY <1>3, <2>1, <2>3, <2>4 DEF Place
<1> QED BY <1>2, <1>3

\* The call whose link is there reports it or takes it back.
LEMMA CreationUnlink ==
  ASSUME CreationInv, NEW c \in Callers, Unlink(c)
  PROVE  CreationInv'
<1>1. /\ pc[c] = "linked" /\ subject[c] \in Artifacts
      /\ dest # NoArtifact /\ creations = {}
      /\ replaced \/ dest = subject[c]
  BY DEF Unlink, CreationInv
<1>2. /\ pc' = [pc EXCEPT ![c] = "idle"]
      /\ subject' = [subject EXCEPT ![c] = NoArtifact]
      /\ UNCHANGED replaced
  BY DEF Unlink, Return, ReturnFailing, Leave, Finish, OnlyDest
<1>3. /\ pc' \in [Callers -> Steps]
      /\ subject' \in [Callers -> Artifacts \cup {NoArtifact}]
      /\ \A d \in Callers : pc'[d] \in {"copyout", "place", "linked"} =>
                              subject'[d] \in Artifacts
      /\ \A d \in Callers : pc'[d] # "linked"
  BY <1>1, <1>2 DEF CreationInv, Steps
<1>4. \/ creations' = {<<c, subject[c]>>} /\ UNCHANGED dest
      \/ creations' = {}
  BY <1>1 DEF Unlink
<1> QED BY <1>1, <1>2, <1>3, <1>4 DEF CreationInv, CreatedOnce

\* A call with overwrite writes the destination.
LEMMA CreationReplace ==
  ASSUME CreationInv, NEW c \in Callers, Replace(c)
  PROVE  CreationInv'
<1>1. pc[c] = "place" /\ subject[c] \in Artifacts /\ subject[c] # NoArtifact
  BY ArtifactsAssumption DEF Replace, CreationInv
<1>2. /\ pc' = [pc EXCEPT ![c] = "idle"]
      /\ subject' = [subject EXCEPT ![c] = NoArtifact]
      /\ dest' = subject[c] /\ replaced' /\ UNCHANGED creations
  BY DEF Replace, Return, Leave, Finish, OnlyDest
<1>3. /\ pc' \in [Callers -> Steps]
      /\ subject' \in [Callers -> Artifacts \cup {NoArtifact}]
      /\ \A d \in Callers : pc'[d] \in {"copyout", "place", "linked"} =>
                              subject'[d] \in Artifacts
      /\ \A d \in Callers : pc'[d] = "linked" => pc[d] = "linked"
  BY <1>2 DEF CreationInv, Steps
<1> QED BY <1>1, <1>2, <1>3 DEF CreationInv, CreatedOnce

\* Every step of a call that is not one of the three above.
LEMMA CreationOtherSteps ==
  ASSUME CreationInv, NEW c \in Callers, ArtifactStep(c),
         ~Place(c), ~Unlink(c), ~Replace(c)
  PROVE  CreationInv'
<1> USE DEF Steps
<1>0. pc \in [Callers -> Steps] /\ subject \in [Callers -> Artifacts \cup {NoArtifact}]
  BY DEF CreationInv
<1>1. subject[c] \in Artifacts \cup {NoArtifact} /\ subject = [subject EXCEPT ![c] = @]
  BY <1>0
<1> DEFINE Ends == /\ pc' = [pc EXCEPT ![c] = "idle"]
                   /\ subject' = [subject EXCEPT ![c] = NoArtifact]
<1> DEFINE Goes(step) == /\ pc' = [pc EXCEPT ![c] = step]
                         /\ subject' = subject
<1> DEFINE Leaves == /\ pc' = [pc EXCEPT ![c] = "idle"]
                     /\ subject' = subject
<1> DEFINE Quiet == UNCHANGED <<dest, creations, replaced>>
<1>2. ASSUME Quiet, Ends PROVE CreationInv'
  BY <1>2, CreationElsewhere
<1>3. ASSUME Quiet, NEW s \in Steps \ {"linked", "copyout", "place"}, Goes(s)
      PROVE  CreationInv'
  BY <1>1, <1>3, CreationElsewhere
<1> HIDE DEF Steps
<1>4. CASE CopyIn(c) \/ CompressorDies(c) \/ BlockedEnds(c) \/ Describe(c)
  <2>1. Quiet /\ \E s \in {"describe", "discard", "blocked", "publish"} : Goes(s)
    BY <1>4 DEF CopyIn, CompressorDies, BlockedEnds, Describe, Goto, GotoFailing,
                OnlyTemp
  <2> QED BY <2>1, <1>3 DEF Steps
<1>5. CASE Publish(c) \/ Discard(c)
  <2>1. Quiet /\ (Ends \/ Goes("discard"))
    BY <1>5 DEF Publish, Discard, GotoFailing, Return, Leave, Finish, OnlyTemp
  <2> QED BY <2>1, <1>2, <1>3 DEF Steps
<1>6. CASE ListBegins(c) \/ ListEnds(c)
  <2>1. Quiet /\ (Goes("load") \/ Goes("idle"))
    BY <1>6 DEF ListBegins, ListEnds, Enter, Return, Leave
  <2> QED BY <2>1, <1>3 DEF Steps
<1>7. CASE DeleteEnds(c) \/ ArtifactCallerDies(c)
  <2>1. Quiet /\ Ends
    BY <1>7 DEF DeleteEnds, ArtifactCallerDies, Return, ReturnFailing, Leave,
         Finish,
                OnlyStore
  <2> QED BY <2>1, <1>2
<1>8. CASE CopyOut(c)
  <2>1. CASE Ends
    BY <1>8, <2>1, <1>2 DEF CopyOut, OnlyDest
  <2>2. CASE Goes("place")
    <3>1. subject[c] \in Artifacts
      BY <1>8 DEF CopyOut, CreationInv
    <3> QED BY <1>8, <1>1, <2>2, <3>1, CreationElsewhere DEF CopyOut, OnlyDest, Steps
  <2> QED BY <1>8, <2>1, <2>2
          DEF CopyOut, Goto, Return, ReturnFailing, Leave, Finish
<1>9. ASSUME NEW e \in Entries, DeleteEntry(c, e) PROVE CreationInv'
  BY <1>9 DEF DeleteEntry, OnlyStore, callers, CreationInv, CreatedOnce
<1> QED BY <1>4, <1>5, <1>6, <1>7, <1>8, <1>9 DEF ArtifactStep

\* Every step keeps the invariant.
LEMMA CreationNext ==
  CreationInv /\ [ArtifactsNext]_<<callers, artifactVars>> => CreationInv'
<1> SUFFICES ASSUME CreationInv, [ArtifactsNext]_<<callers, artifactVars>>
             PROVE  CreationInv'
  OBVIOUS
<1>1. ASSUME NEW c \in Callers, ArtifactStep(c) PROVE CreationInv'
  BY <1>1, CreationPlace, CreationUnlink, CreationReplace, CreationOtherSteps
<1>2. ASSUME NEW c \in Callers, NEW a \in Artifacts,
             ReturnBegins(c, a) \/ DeleteBegins(c, a)
      PROVE  CreationInv'
  <2>1. /\ UNCHANGED <<dest, creations, replaced>>
        /\ \E s \in {"copy", "entries"} : pc' = [pc EXCEPT ![c] = s]
        /\ subject' = [subject EXCEPT ![c] = a]
    BY <1>2 DEF ReturnBegins, DeleteBegins, Enter, OnlyTemp, OnlyStore
  <2> QED BY <2>1, CreationElsewhere DEF Steps
<1>3. ASSUME NEW c \in Callers, NEW a \in Artifacts, NEW o \in {"materialize", "replace"},
             MaterializeBegins(c, a, o)
      PROVE  CreationInv'
  <2>1. /\ UNCHANGED <<dest, creations, replaced>>
        /\ pc' = [pc EXCEPT ![c] = "copyout"]
        /\ subject' = [subject EXCEPT ![c] = a]
    BY <1>3 DEF MaterializeBegins, Enter, OnlyDest
  <2> QED BY <2>1, CreationElsewhere DEF Steps
<1>4. CASE ForeignCreates
  <2>1. creations = {} /\ \A c \in Callers : pc[c] # "linked"
    BY <1>4 DEF ForeignCreates, CreationInv
  <2> QED BY <1>4, <2>1
          DEF ForeignCreates, OnlyDest, callers, CreationInv, CreatedOnce
<1>5. CASE UNCHANGED <<callers, artifactVars>>
  BY <1>5 DEF callers, artifactVars, CreationInv, CreatedOnce
<1> QED BY <1>1, <1>2, <1>3, <1>4, <1>5 DEF ArtifactsNext

\* artifact.go, transfer_support.go: of all calls of artifact.materialize
\* without overwrite one at most reports that it created the destination, and
\* what it wrote stays unless a call with overwrite is made.
THEOREM CreatedOnceHolds == ArtifactsSpec => []CreatedOnce
<1>1. CreationInv => CreatedOnce
  BY DEF CreationInv
<1> QED BY CreationInit, CreationNext, <1>1, PTL DEF ArtifactsSpec

-----------------------------------------------------------------------------
(* Listings.                                                               *)

Building == {"copy", "blocked", "describe", "publish", "discard"}

\* A directory .tmp-<id> has one builder, and is renamed when it is complete.
BuildInv ==
    /\ pc \in [Callers -> Steps]
    /\ subject \in [Callers -> Artifacts \cup {NoArtifact}]
    /\ temp \in [Artifacts -> SUBSET Complete]
    /\ \A c \in Callers :
         /\ pc[c] \in Building => subject[c] \in made \cap Artifacts
         /\ pc[c] = "copy" => "directory" \in temp[subject[c]]
         /\ pc[c] = "describe" => {"directory", "payload"} \subseteq temp[subject[c]]
         /\ pc[c] = "publish" => temp[subject[c]] = Complete
    /\ \A c, d \in Callers :
         pc[c] \in Building /\ pc[d] \in Building /\ subject[c] = subject[d] => c = d

\* So an artifact is complete from the time it is there until a delete begins,
StoreInv ==
    /\ store \in [Artifacts -> SUBSET Complete] /\ deleted \subseteq Artifacts
    /\ \A c \in Callers : pc[c] = "entries" => subject[c] \in deleted
    /\ \A a \in Artifacts \ deleted : store[a] \in {{}, Complete}

\* and what a list has found is complete or being deleted.
FoundInv ==
    /\ {found, owed} \subseteq [Callers -> SUBSET Artifacts]
    /\ \A c \in Callers :
         /\ owed[c] \subseteq found[c]
         /\ \A a \in found[c] \ deleted : store[a] = Complete

ListInv == BuildInv /\ StoreInv /\ FoundInv /\ ListingIsComplete

\* The artifacts of an earlier life of the store are complete.
LEMMA ListInit == CallersInit /\ ArtifactsInit => ListInv
<1> SUFFICES ASSUME CallersInit, ArtifactsInit PROVE ListInv
  OBVIOUS
<1>1. BuildInv
  BY DEF CallersInit, ArtifactsInit, BuildInv, Steps, Building
<1>2. StoreInv /\ FoundInv /\ ListingIsComplete
  BY DEF CallersInit, ArtifactsInit, StoreInv, FoundInv, ListingIsComplete
<1> QED BY <1>1, <1>2 DEF ListInv

\* Identifiers never repeat, so that nobody else adds to a directory .tmp-<id>.
LEMMA BuildNext == BuildInv /\ [ArtifactsNext]_<<callers, artifactVars>> => BuildInv'
<1> SUFFICES ASSUME BuildInv, [ArtifactsNext]_<<callers, artifactVars>> PROVE BuildInv'
  OBVIOUS
<1> USE DEF BuildInv, Building, Steps, Complete, Entries, Enter, Goto,
     GotoFailing, Return, ReturnFailing, Leave, Finish, OnlyTemp, OnlyStore,
     OnlyDest, callers
<1>1. ASSUME NEW c \in Callers, CopyIn(c) PROVE BuildInv'
  BY <1>1 DEF CopyIn
<1>2. ASSUME NEW c \in Callers, CompressorDies(c) PROVE BuildInv'
  BY <1>2 DEF CompressorDies
<1>3. ASSUME NEW c \in Callers, BlockedEnds(c) PROVE BuildInv'
  BY <1>3 DEF BlockedEnds
<1>4. ASSUME NEW c \in Callers, Describe(c) PROVE BuildInv'
  BY <1>4 DEF Describe
<1>5. ASSUME NEW c \in Callers, Publish(c) PROVE BuildInv'
  BY <1>5 DEF Publish
<1>6. ASSUME NEW c \in Callers, Discard(c) PROVE BuildInv'
  BY <1>6 DEF Discard
<1>7. ASSUME NEW c \in Callers, ListBegins(c) PROVE BuildInv'
  BY <1>7 DEF ListBegins
<1>8. ASSUME NEW c \in Callers, ListEnds(c) PROVE BuildInv'
  BY <1>8 DEF ListEnds
<1>9. ASSUME NEW c \in Callers, DeleteEnds(c) PROVE BuildInv'
  BY <1>9 DEF DeleteEnds
<1>10. ASSUME NEW c \in Callers, CopyOut(c) PROVE BuildInv'
  BY <1>10 DEF CopyOut
<1>11. ASSUME NEW c \in Callers, Replace(c) PROVE BuildInv'
  BY <1>11 DEF Replace
<1>12. ASSUME NEW c \in Callers, Place(c) PROVE BuildInv'
  BY <1>12 DEF Place
<1>13. ASSUME NEW c \in Callers, Unlink(c) PROVE BuildInv'
  BY <1>13 DEF Unlink
<1>14. ASSUME NEW c \in Callers, ArtifactCallerDies(c) PROVE BuildInv'
  BY <1>14 DEF ArtifactCallerDies
<1>15. ASSUME NEW c \in Callers, NEW e \in Entries, DeleteEntry(c, e)
      PROVE  BuildInv'
  BY <1>15 DEF DeleteEntry
<1>16. ASSUME NEW c \in Callers, NEW a \in Artifacts, ReturnBegins(c, a)
      PROVE  BuildInv'
  BY <1>16 DEF ReturnBegins
<1>17. ASSUME NEW c \in Callers, NEW a \in Artifacts, DeleteBegins(c, a)
      PROVE  BuildInv'
  BY <1>17 DEF DeleteBegins
<1>18. ASSUME NEW c \in Callers, NEW a \in Artifacts,
             NEW o \in {"materialize", "replace"}, MaterializeBegins(c, a, o)
      PROVE  BuildInv'
  BY <1>18 DEF MaterializeBegins
<1>19. CASE ForeignCreates
  BY <1>19 DEF ForeignCreates
<1>20. CASE UNCHANGED <<callers, artifactVars>>
  BY <1>20 DEF artifactVars
<1> QED
  BY <1>1, <1>2, <1>3, <1>4, <1>5, <1>6, <1>7, <1>8, <1>9, <1>10, <1>11, <1>12,
       <1>13, <1>14, <1>15, <1>16, <1>17, <1>18, <1>19, <1>20
  DEF ArtifactsNext, ArtifactStep

\* What is complete stays so, unless a delete of it has begun.
LEMMA StoreNext ==
  ASSUME BuildInv, StoreInv, [ArtifactsNext]_<<callers, artifactVars>>
  PROVE  StoreInv' /\ \A a \in Artifacts \ deleted' : store[a] = Complete => store'[a] = Complete
<1> DEFINE Kept == \A a \in Artifacts \ deleted' : store[a] = Complete => store'[a] = Complete
<1> USE DEF Enter, Goto, GotoFailing, Return, ReturnFailing, Leave, Finish,
     OnlyTemp,
            OnlyStore, OnlyDest, callers
<1>0. pc \in [Callers -> Steps] /\ subject \in [Callers -> Artifacts \cup {NoArtifact}]
  BY DEF BuildInv
<1>1. ASSUME UNCHANGED <<store, deleted>>,
             \A d \in Callers : pc'[d] = "entries" =>
                               pc[d] = "entries" /\ subject'[d] = subject[d]
      PROVE  StoreInv' /\ Kept
  BY <1>1 DEF StoreInv
<1>2. ASSUME NEW c \in Callers,
             \/ CopyIn(c) \/ CompressorDies(c) \/ BlockedEnds(c) \/ Describe(c)
             \/ Discard(c) \/ ListBegins(c) \/ ListEnds(c) \/ CopyOut(c)
             \/ Replace(c) \/ Place(c) \/ Unlink(c) \/ ArtifactCallerDies(c)
      PROVE  StoreInv' /\ Kept
  <2>1. UNCHANGED <<store, deleted>>
    BY <1>2 DEF CopyIn, CompressorDies, BlockedEnds, Describe, Discard,
         ListBegins,
                ListEnds, CopyOut, Replace, Place, Unlink, ArtifactCallerDies
  <2>2. \A d \in Callers : pc'[d] = "entries" =>
                           pc[d] = "entries" /\ subject'[d] = subject[d]
    BY <1>0, <1>2 DEF CopyIn, CompressorDies, BlockedEnds, Describe, Discard,
                ListBegins, ListEnds, CopyOut, Replace, Place, Unlink,
                ArtifactCallerDies
  <2> QED BY <2>1, <2>2, <1>1
<1>3. ASSUME NEW c \in Callers, NEW a \in Artifacts,
             \/ ReturnBegins(c, a)
             \/ \E o \in {"materialize", "replace"} : MaterializeBegins(c, a, o)
      PROVE  StoreInv' /\ Kept
  <2>1. UNCHANGED <<store, deleted>>
    BY <1>3 DEF ReturnBegins, MaterializeBegins
  <2>2. \A d \in Callers : pc'[d] = "entries" =>
                           pc[d] = "entries" /\ subject'[d] = subject[d]
    BY <1>0, <1>3 DEF ReturnBegins, MaterializeBegins
  <2> QED BY <2>1, <2>2, <1>1
<1>4. CASE ForeignCreates \/ UNCHANGED <<callers, artifactVars>>
  BY <1>1, <1>4 DEF ForeignCreates, artifactVars
<1>5. ASSUME NEW c \in Callers, Publish(c) PROVE StoreInv' /\ Kept
  <2>1. CASE UNCHANGED store
    <3>1. \A d \in Callers : pc'[d] = "entries" =>
                             pc[d] = "entries" /\ subject'[d] = subject[d]
      BY <1>0, <1>5 DEF Publish
    <3> QED BY <1>1, <1>5, <2>1, <3>1 DEF Publish
  <2>2. CASE store' = [store EXCEPT ![subject[c]] = temp[subject[c]]]
    <3>1. subject[c] \in Artifacts /\ temp[subject[c]] = Complete
      BY <1>5 DEF Publish, BuildInv, Building
    <3>2. store' = [store EXCEPT ![subject[c]] = Complete]
      BY <2>2, <3>1
    <3>3. Kept /\ store' \in [Artifacts -> SUBSET Complete]
          /\ \A a \in Artifacts \ deleted : store'[a] \in {{}, Complete}
      BY <3>1, <3>2 DEF StoreInv
    <3>4. \A d \in Callers : pc'[d] = "entries" => subject'[d] \in deleted
      BY <1>0, <1>5 DEF Publish, StoreInv
    <3>5. deleted' = deleted
      BY <1>5 DEF Publish
    <3> QED BY <3>3, <3>4, <3>5 DEF StoreInv
  <2> QED BY <1>5, <2>1, <2>2 DEF Publish
<1>6. ASSUME NEW c \in Callers, NEW a \in Artifacts, DeleteBegins(c, a)
      PROVE  StoreInv' /\ Kept
  BY <1>0, <1>6 DEF DeleteBegins, StoreInv
<1>7. ASSUME NEW c \in Callers, DeleteEnds(c) \/ \E e \in Entries : DeleteEntry(c, e)
      PROVE  StoreInv' /\ Kept
  <2>1. pc[c] = "entries" /\ subject[c] \in deleted /\ deleted' = deleted
    BY <1>7 DEF DeleteEnds, DeleteEntry, StoreInv
  <2>2. \A d \in Callers : pc'[d] = "entries" =>
                           pc[d] = "entries" /\ subject'[d] = subject[d]
    BY <1>0, <1>7 DEF DeleteEnds, DeleteEntry
  <2>3. \/ store' = store
        \/ \E x \in SUBSET Complete : store' = [store EXCEPT ![subject[c]] = x]
    <3>1. CASE DeleteEnds(c)
      BY <3>1 DEF DeleteEnds
    <3>2. ASSUME NEW e \in Entries, DeleteEntry(c, e)
          PROVE \E x \in SUBSET Complete : store' = [store EXCEPT ![subject[c]] = x]
      <4>1. store[subject[c]] \ {e} \in SUBSET Complete
        BY <1>0, <2>1, <3>2 DEF StoreInv
      <4> QED BY <3>2, <4>1 DEF DeleteEntry
    <3> QED BY <1>7, <3>1, <3>2
  <2>4. /\ store' \in [Artifacts -> SUBSET Complete]
        /\ \A a \in Artifacts \ deleted : store'[a] = store[a]
    BY <2>1, <2>3 DEF StoreInv
  <2> QED BY <2>1, <2>2, <2>4 DEF StoreInv
<1> QED
  BY <1>2, <1>3, <1>4, <1>5, <1>6, <1>7 DEF ArtifactsNext, ArtifactStep

\* A list is owed what it found complete.
LEMMA FoundNext ==
  ASSUME ListInv, [ArtifactsNext]_<<callers, artifactVars>>, StoreInv'
  PROVE  FoundInv' /\ ListingIsComplete'
<1> USE DEF ListInv, FoundInv, ListingIsComplete
<1>0. \A a \in Artifacts \ deleted' : store[a] = Complete => store'[a] = Complete
  BY StoreNext
<1>1. deleted \subseteq deleted'
  BY DEF ArtifactsNext, ArtifactStep, CopyIn, CompressorDies, BlockedEnds,
       Describe,
         Publish, Discard, ListBegins, ListEnds, DeleteEnds, CopyOut, Replace, Place,
         Unlink, ArtifactCallerDies, DeleteEntry, ReturnBegins, DeleteBegins,
         MaterializeBegins, ForeignCreates, OnlyTemp, OnlyStore, OnlyDest, artifactVars
<1>2. ASSUME UNCHANGED <<found, owed, listings>>
      PROVE  FoundInv' /\ ListingIsComplete'
  BY <1>0, <1>1, <1>2
<1>3. ASSUME NEW c \in Callers, ListBegins(c) PROVE FoundInv' /\ ListingIsComplete'
  <2>1. Published \subseteq Artifacts /\ {a \in Artifacts : store[a] = Complete} \subseteq Published
    BY DEF Published, Complete
  <2>2. \A a \in Published \ deleted : store[a] = Complete
    BY DEF Published, Complete, StoreInv
  <2> QED BY <1>3, <2>1, <2>2 DEF ListBegins
<1>4. ASSUME NEW c \in Callers, ListEnds(c) PROVE FoundInv' /\ ListingIsComplete'
  <2> DEFINE ok == \A a \in found[c] : "metadata" \in store[a]
             l == [owed |-> owed[c] \ deleted, got |-> IF ok THEN found[c] ELSE {},
                   ok |-> ok, excused |-> deleted # {}]
  <2>1. listings' = listings \cup {l} /\ UNCHANGED <<store, deleted>>
        /\ found' = [found EXCEPT ![c] = {}] /\ owed' = [owed EXCEPT ![c] = {}]
    BY <1>4 DEF ListEnds
  <2>2. IF l.ok THEN l.owed \subseteq l.got ELSE l.excused
    <3>1. CASE ok
      <4>1. l.ok /\ l.got = found[c] /\ l.owed \subseteq owed[c]
        BY <3>1
      <4> QED BY <4>1
    <3>2. CASE ~ok
      <4>1. PICK a \in found[c] : "metadata" \notin store[a]
        BY <3>2
      <4>2. a \in deleted
        BY <4>1 DEF Complete, Entries
      <4> QED BY <3>2, <4>2
    <3> QED BY <3>1, <3>2
  <2>3. ListingIsComplete'
    BY <2>1, <2>2
  <2>4. FoundInv'
    BY <2>1
  <2> QED BY <2>3, <2>4
<1>5. ASSUME NEW c \in Callers, ArtifactCallerDies(c)
      PROVE  FoundInv' /\ ListingIsComplete'
  BY <1>5 DEF ArtifactCallerDies
<1>6. ASSUME ~\E c \in Callers : ListBegins(c) \/ ListEnds(c) \/ ArtifactCallerDies(c)
      PROVE  FoundInv' /\ ListingIsComplete'
  <2>1. UNCHANGED <<found, owed, listings>>
    BY <1>6
    DEF ArtifactsNext, ArtifactStep, CopyIn, CompressorDies, BlockedEnds, Describe,
        Publish, Discard, DeleteEnds, CopyOut, Replace, Place, Unlink, DeleteEntry,
        ReturnBegins, DeleteBegins, MaterializeBegins, ForeignCreates, OnlyTemp,
        OnlyStore, OnlyDest, artifactVars
  <2> QED BY <2>1, <1>2
<1> QED BY <1>3, <1>4, <1>5, <1>6

\* The invariant of the listings is inductive.
LEMMA ListNext == ListInv /\ [ArtifactsNext]_<<callers, artifactVars>> => ListInv'
BY BuildNext, StoreNext, FoundNext DEF ListInv

\* artifact.go: an artifact that is there all along is listed, and a list fails
\* only where a delete has begun, although it reads the root long before it
\* reads the last metadata.json.
THEOREM ListingIsCompleteHolds == ArtifactsSpec => []ListingIsComplete
<1>1. ListInv => ListingIsComplete
  BY DEF ListInv
<1> QED BY ListInit, ListNext, <1>1, PTL DEF ArtifactsSpec

-----------------------------------------------------------------------------
(* Types.                                                                  *)

\* Beyond what the invariants above say of the types, a list answers with
\* what it has found and a creation names an artifact.
LEMMA ArtifactsTypeNext ==
  ASSUME CreationInv, ListInv, ArtifactsTypeOK,
         [ArtifactsNext]_<<callers, artifactVars>>, CreationInv', ListInv'
  PROVE  ArtifactsTypeOK'
<1> USE ArtifactsAssumption DEF OnlyTemp, OnlyStore, OnlyDest
<1>1. /\ subject' \in [Callers -> Artifacts \cup {NoArtifact}]
      /\ {temp', store'} \subseteq [Artifacts -> SUBSET Complete]
      /\ {found', owed'} \subseteq [Callers -> SUBSET Artifacts]
      /\ deleted' \subseteq Artifacts
  BY DEF ListInv, BuildInv, StoreInv, FoundInv
<1>2. ASSUME made' \subseteq Artifacts, dest' \in Artifacts \cup {NoArtifact, Foreign},
             listings' \subseteq [owed : SUBSET Artifacts, got : SUBSET Artifacts,
                                  ok : BOOLEAN, excused : BOOLEAN],
             creations' \subseteq Callers \X Artifacts, replaced' \in BOOLEAN
      PROVE  ArtifactsTypeOK'
  BY <1>1, <1>2 DEF ArtifactsTypeOK
<1>3. ASSUME UNCHANGED <<dest, listings, creations, replaced>>,
             made' \subseteq Artifacts
      PROVE  ArtifactsTypeOK'
  BY <1>2, <1>3 DEF ArtifactsTypeOK
<1>4. ASSUME NEW c \in Callers,
             \/ CopyIn(c) \/ CompressorDies(c) \/ BlockedEnds(c) \/ Describe(c)
             \/ Publish(c) \/ Discard(c) \/ ListBegins(c) \/ DeleteEnds(c)
             \/ CopyOut(c) \/ ArtifactCallerDies(c)
             \/ \E e \in Entries : DeleteEntry(c, e)
      PROVE  ArtifactsTypeOK'
  BY <1>3, <1>4
     DEF CopyIn, CompressorDies, BlockedEnds, Describe, Publish, Discard,
         ListBegins, DeleteEnds, CopyOut, ArtifactCallerDies, DeleteEntry,
         ArtifactsTypeOK
<1>5. ASSUME NEW c \in Callers, NEW a \in Artifacts,
             \/ ReturnBegins(c, a) \/ DeleteBegins(c, a)
             \/ \E o \in {"materialize", "replace"} : MaterializeBegins(c, a, o)
      PROVE  ArtifactsTypeOK'
  BY <1>3, <1>5 DEF ReturnBegins, DeleteBegins, MaterializeBegins, ArtifactsTypeOK
<1>6. ASSUME NEW c \in Callers, ListEnds(c) PROVE ArtifactsTypeOK'
  <2>1. found[c] \subseteq Artifacts /\ owed[c] \subseteq Artifacts
    BY DEF ArtifactsTypeOK
  <2>2. UNCHANGED <<made, dest, creations, replaced>>
    BY <1>6 DEF ListEnds
  <2>3. \E ok \in BOOLEAN :
          listings' = listings \cup
            {[owed |-> owed[c] \ deleted, got |-> IF ok THEN found[c] ELSE {},
              ok |-> ok, excused |-> deleted # {}]}
    BY <1>6 DEF ListEnds
  <2>4. PICK ok \in BOOLEAN :
          listings' = listings \cup
            {[owed |-> owed[c] \ deleted, got |-> IF ok THEN found[c] ELSE {},
              ok |-> ok, excused |-> deleted # {}]}
    BY <2>3
  <2>5. [owed |-> owed[c] \ deleted, got |-> IF ok THEN found[c] ELSE {},
         ok |-> ok, excused |-> deleted # {}]
          \in [owed : SUBSET Artifacts, got : SUBSET Artifacts,
               ok : BOOLEAN, excused : BOOLEAN]
    <3>1. /\ owed[c] \ deleted \in SUBSET Artifacts
          /\ (IF ok THEN found[c] ELSE {}) \in SUBSET Artifacts
      BY <2>1
    <3>2. (deleted # {}) \in BOOLEAN
      OBVIOUS
    <3> QED BY <3>1, <3>2
  <2>6. listings' \subseteq [owed : SUBSET Artifacts, got : SUBSET Artifacts,
                             ok : BOOLEAN, excused : BOOLEAN]
    BY <2>4, <2>5 DEF ArtifactsTypeOK
  <2> QED BY <1>2, <2>2, <2>6 DEF ArtifactsTypeOK
<1>7. ASSUME NEW c \in Callers, Replace(c) \/ Place(c) \/ Unlink(c)
      PROVE  ArtifactsTypeOK'
  <2>1. subject[c] \in Artifacts
    BY <1>7 DEF CreationInv, Replace, Place, Unlink
  <2>2. UNCHANGED <<made, listings>>
    BY <1>7 DEF Replace, Place, Unlink
  <2>3. dest' \in {dest, subject[c], NoArtifact} /\ replaced' \in {replaced, TRUE}
    BY <1>7 DEF Replace, Place, Unlink
  <2>4. creations' = creations \/ creations' = creations \cup {<<c, subject[c]>>}
    BY <1>7 DEF Replace, Place, Unlink
  <2>5. creations' \subseteq Callers \X Artifacts
    <3>1. <<c, subject[c]>> \in Callers \X Artifacts
      BY <2>1
    <3> QED BY <2>4, <3>1 DEF ArtifactsTypeOK
  <2>6. dest' \in Artifacts \cup {NoArtifact, Foreign} /\ replaced' \in BOOLEAN
    BY <2>1, <2>3 DEF ArtifactsTypeOK
  <2> QED BY <1>2, <2>2, <2>5, <2>6 DEF ArtifactsTypeOK
<1>8. CASE ForeignCreates \/ UNCHANGED <<callers, artifactVars>>
  BY <1>2, <1>8 DEF ForeignCreates, artifactVars, ArtifactsTypeOK
<1> QED BY <1>4, <1>5, <1>6, <1>7, <1>8 DEF ArtifactsNext, ArtifactStep

\* At first it holds whatever is allowed to be there already.
LEMMA ArtifactsTypeInit == ArtifactsInit => ArtifactsTypeOK
<1> SUFFICES ASSUME ArtifactsInit PROVE ArtifactsTypeOK
  OBVIOUS
<1>1. store \in [Artifacts -> SUBSET Complete] /\ temp \in [Artifacts -> SUBSET Complete]
  BY DEF ArtifactsInit
<1>2. /\ subject \in [Callers -> Artifacts \cup {NoArtifact}]
      /\ found \in [Callers -> SUBSET Artifacts] /\ owed \in [Callers -> SUBSET Artifacts]
  BY DEF ArtifactsInit
<1>3. /\ dest \in Artifacts \cup {NoArtifact, Foreign} /\ made \subseteq Artifacts
      /\ deleted = {} /\ listings = {} /\ creations = {} /\ replaced = FALSE
  BY DEF ArtifactsInit
<1> QED BY <1>1, <1>2, <1>3 DEF ArtifactsTypeOK

\* The store, its calls and its history are well typed in every reachable state.
THEOREM ArtifactsTypeCorrect == ArtifactsSpec => []ArtifactsTypeOK
BY ArtifactsTypeInit, CreationInit, CreationNext, ListInit, ListNext, ArtifactsTypeNext,
   PTL DEF ArtifactsSpec

-----------------------------------------------------------------------------
(* The store implements atomic artifacts.                                  *)

Known(a) == store[a] # {} \/ a \in deleted

\* A builder's artifact is new: nothing of it is in the store or was deleted.
\* What is materialized has been there; and a link that may yet be undone has
\* left an artifact at the destination, if not the one that was linked.
OriginInv ==
    /\ \A a \in Artifacts : Known(a) => a \in made
    /\ \A c \in Callers : pc[c] \in Building => ~Known(subject[c])
    /\ \A c \in Callers : pc[c] \in {"copyout", "place", "linked"} => Known(subject[c])
    /\ \A c \in Callers : pc[c] = "linked" => dest \in Artifacts

AtomicInv == CreationInv /\ BuildInv /\ StoreInv /\ OriginInv

\* Nobody builds or materializes at first.
LEMMA OriginInit == CallersInit /\ ArtifactsInit => OriginInv
BY DEF CallersInit, ArtifactsInit, OriginInv, Known, Building

\* A step that leaves the store alone, and moves a call among steps that rely on
\* no more than it knows.
LEMMA OriginElsewhere ==
    ASSUME OriginInv, BuildInv, CreationInv, UNCHANGED <<store, deleted, dest>>,
           made \subseteq made',
           \A c \in Callers :
             \/ pc'[c] = pc[c] /\ subject'[c] = subject[c]
             \/ pc'[c] \in {"idle", "load", "entries"}
             \/ pc[c] \in Building /\ pc'[c] \in Building /\ subject'[c] = subject[c]
             \/ pc[c] = "copyout" /\ pc'[c] = "place" /\ subject'[c] = subject[c]
    PROVE  OriginInv'
<1>1. \A a : Known(a)' <=> Known(a)
  BY DEF Known
<1>2. \A c \in Callers : pc'[c] \in Building => ~Known(subject'[c])
  BY <1>1 DEF OriginInv, Building
<1>3. \A c \in Callers : pc'[c] \in {"copyout", "place", "linked"} => Known(subject'[c])
  BY <1>1 DEF OriginInv, Building
<1>4. \A c \in Callers : pc'[c] = "linked" => dest' \in Artifacts
  BY DEF OriginInv, Building
<1> QED BY <1>1, <1>2, <1>3, <1>4 DEF OriginInv

\* Every step keeps it.
LEMMA OriginNext ==
    AtomicInv /\ [ArtifactsNext]_<<callers, artifactVars>> => OriginInv'
<1> SUFFICES ASSUME CreationInv, BuildInv, StoreInv, OriginInv,
                    [ArtifactsNext]_<<callers, artifactVars>>
             PROVE  OriginInv'
  BY DEF AtomicInv
<1> USE DEF Enter, Goto, GotoFailing, Return, ReturnFailing, Leave, Finish, OnlyTemp,
            OnlyStore, OnlyDest
<1>0. pc \in [Callers -> Steps] /\ subject \in [Callers -> Artifacts \cup {NoArtifact}]
  BY DEF BuildInv
<1>1. ASSUME NEW c \in Callers,
             \/ CopyIn(c) \/ CompressorDies(c) \/ BlockedEnds(c) \/ Describe(c)
             \/ Discard(c) \/ ListBegins(c) \/ ListEnds(c) \/ CopyOut(c)
             \/ ArtifactCallerDies(c)
      PROVE  OriginInv'
  <2>1. UNCHANGED <<store, deleted, dest>> /\ made' = made
    BY <1>1 DEF CopyIn, CompressorDies, BlockedEnds, Describe, Discard, ListBegins,
                ListEnds, CopyOut, ArtifactCallerDies
  <2>2. /\ \A d \in Callers \ {c} : pc'[d] = pc[d] /\ subject'[d] = subject[d]
        /\ \/ pc'[c] \in {"idle", "load"}
           \/ pc[c] \in Building /\ pc'[c] \in Building /\ subject'[c] = subject[c]
           \/ pc[c] = "copyout" /\ pc'[c] = "place" /\ subject'[c] = subject[c]
    BY <1>0, <1>1 DEF CopyIn, CompressorDies, BlockedEnds, Describe, Discard,
       ListBegins, ListEnds, CopyOut, ArtifactCallerDies, Building
  <2> QED BY <2>1, <2>2, OriginElsewhere
<1>2. ASSUME NEW c \in Callers, NEW a \in Artifacts, ReturnBegins(c, a)
      PROVE  OriginInv'
  <2>1. ~Known(a) /\ a \notin made
    BY <1>2 DEF ReturnBegins, OriginInv
  <2>2. /\ pc' = [pc EXCEPT ![c] = "copy"] /\ subject' = [subject EXCEPT ![c] = a]
        /\ made' = made \cup {a} /\ UNCHANGED <<store, deleted, dest>>
    BY <1>2 DEF ReturnBegins
  <2> QED BY <1>0, <2>1, <2>2 DEF OriginInv, Known, Building
<1>3. ASSUME NEW c \in Callers, Publish(c) PROVE OriginInv'
  <2>1. CASE UNCHANGED store
    <3>1. /\ \A d \in Callers \ {c} : pc'[d] = pc[d] /\ subject'[d] = subject[d]
          /\ \/ pc'[c] = "idle"
             \/ pc[c] \in Building /\ pc'[c] \in Building /\ subject'[c] = subject[c]
      BY <1>0, <1>3 DEF Publish, Building
    <3>2. UNCHANGED <<store, deleted, dest, made>>
      BY <1>3, <2>1 DEF Publish
    <3> QED BY <3>1, <3>2, OriginElsewhere
  <2>2. CASE store' = [store EXCEPT ![subject[c]] = temp[subject[c]]] /\ Return(c) /\ Finish(c)
    <3>1. /\ subject[c] \in Artifacts \cap made /\ temp[subject[c]] = Complete
          /\ pc[c] = "publish" /\ UNCHANGED <<deleted, dest, made>>
      BY <1>3 DEF Publish, BuildInv, Building
    <3>2. \A d \in Callers \ {c} : pc[d] \in Building => subject[d] # subject[c]
      BY <3>1 DEF BuildInv, Building
    <3>3. /\ \A d \in Callers \ {c} : pc'[d] = pc[d] /\ subject'[d] = subject[d]
          /\ pc'[c] = "idle"
      BY <1>0, <2>2
    <3>4. \A d \in Callers : pc[d] \in Building \cup {"copyout", "place", "linked"}
                               => subject[d] \in Artifacts
      BY DEF BuildInv, CreationInv
    <3>5. \A b \in Artifacts : Known(b)' <=> Known(b) \/ b = subject[c]
      BY <2>2, <3>1 DEF Known, StoreInv, Complete
    <3> QED BY <3>1, <3>2, <3>3, <3>4, <3>5 DEF OriginInv, Building
  <2> QED BY <1>3, <2>1, <2>2 DEF Publish
<1>4. ASSUME NEW c \in Callers,
             \/ \E a \in Artifacts : DeleteBegins(c, a)
             \/ \E e \in Entries : DeleteEntry(c, e)
             \/ DeleteEnds(c)
      PROVE  OriginInv'
  <2>1. UNCHANGED <<dest, made>>
    BY <1>4 DEF DeleteBegins, DeleteEntry, DeleteEnds
  <2>2. /\ \A d \in Callers \ {c} : pc'[d] = pc[d] /\ subject'[d] = subject[d]
        /\ \/ pc'[c] \in {"idle", "entries"}
           \/ pc'[c] = pc[c] /\ subject'[c] = subject[c]
    BY <1>0, <1>4 DEF DeleteBegins, DeleteEntry, DeleteEnds, callers
  <2>3. \A b \in Artifacts : Known(b)' <=> Known(b)
    <3>1. ASSUME NEW a \in Artifacts, DeleteBegins(c, a)
          PROVE  \A b \in Artifacts : Known(b)' <=> Known(b)
      BY <3>1 DEF DeleteBegins, Known
    <3>2. ASSUME NEW x, pc[c] = "entries", store' = [store EXCEPT ![subject[c]] = x],
                 deleted' = deleted
          PROVE  \A b \in Artifacts : Known(b)' <=> Known(b)
      BY <3>2 DEF Known, StoreInv
    <3>3. ASSUME NEW e \in Entries, DeleteEntry(c, e)
          PROVE  \A b \in Artifacts : Known(b)' <=> Known(b)
      BY <3>2, <3>3 DEF DeleteEntry
    <3>4. CASE DeleteEnds(c)
      BY <3>2, <3>4 DEF DeleteEnds, Known
    <3> QED BY <1>4, <3>1, <3>3, <3>4
  <2>4. \A d \in Callers : pc[d] \in Building \cup {"copyout", "place", "linked"}
                             => subject[d] \in Artifacts
    BY DEF BuildInv, CreationInv
  <2> QED BY <2>1, <2>2, <2>3, <2>4 DEF OriginInv, Building
<1>5. ASSUME NEW c \in Callers, NEW a \in Artifacts, NEW o \in {"materialize", "replace"},
             MaterializeBegins(c, a, o)
      PROVE  OriginInv'
  <2>1. Known(a)
    BY <1>5 DEF MaterializeBegins, Known
  <2>2. /\ pc' = [pc EXCEPT ![c] = "copyout"] /\ subject' = [subject EXCEPT ![c] = a]
        /\ UNCHANGED <<store, deleted, dest, made>>
    BY <1>5 DEF MaterializeBegins
  <2> QED BY <1>0, <2>1, <2>2 DEF OriginInv, Known, Building
<1>6. ASSUME NEW c \in Callers, Replace(c) \/ Place(c) \/ Unlink(c)
      PROVE  OriginInv'
  <2>1. UNCHANGED <<store, deleted, made>> /\ subject[c] \in Artifacts
    BY <1>6 DEF Replace, Place, Unlink, CreationInv
  <2>2. /\ \A d \in Callers \ {c} : pc'[d] = pc[d] /\ subject'[d] = subject[d]
        /\ \/ pc'[c] = "idle"
           \/ pc[c] = "place" /\ pc'[c] = "linked" /\ subject'[c] = subject[c]
    BY <1>0, <1>6 DEF Replace, Place, Unlink
  <2>3. \A d \in Callers : pc'[d] = "linked" => dest' \in Artifacts
    <3>1. CASE Replace(c)
      BY <2>1, <3>1 DEF Replace
    <3>2. CASE Place(c)
      <4>1. CASE dest' = subject[c]
        BY <2>1, <4>1
      <4>2. CASE dest' = dest /\ Return(c)
        BY <1>0, <2>2, <4>2 DEF OriginInv
      <4> QED BY <3>2, <4>1, <4>2 DEF Place
    <3>3. CASE Unlink(c)
      BY <2>2, <3>3 DEF Unlink, CreationInv
    <3> QED BY <1>6, <3>1, <3>2, <3>3
  <2> QED BY <2>1, <2>2, <2>3 DEF OriginInv, Known, Building
<1>7. CASE ForeignCreates
  BY <1>7 DEF ForeignCreates, OriginInv, CreationInv, Known, callers
<1>8. CASE UNCHANGED <<callers, artifactVars>>
  BY <1>8 DEF callers, artifactVars, OriginInv, Known
<1> QED BY <1>1, <1>2, <1>3, <1>4, <1>5, <1>6, <1>7, <1>8 DEF ArtifactsNext, ArtifactStep

\* The first states are first states of the promise.
LEMMA InitPromise == CallersInit /\ ArtifactsInit => Promise!Init
<1> SUFFICES ASSUME ArtifactsInit PROVE Promise!Init
  OBVIOUS
<1>1. \A a \in Artifacts : State(a) \in {"absent", "complete"}
  BY DEF ArtifactsInit, State, Complete
<1>2. dest \in {NoArtifact, Foreign} /\ creations = {} /\ replaced = FALSE
  BY DEF ArtifactsInit
<1> QED BY <1>1, <1>2 DEF Promise!Init

\* What a step leaves of the states of the artifacts
LEMMA HiddenStep ==
    ASSUME \A a \in Artifacts : State(a)' = State(a),
           UNCHANGED <<dest, creations, replaced>>
    PROVE  UNCHANGED Promise!vars
BY DEF Promise!vars

\* An artifact is published whole, under a name that was never used.
LEMMA PublishStep ==
    ASSUME AtomicInv, NEW c \in Callers, Publish(c)
    PROVE  [Promise!Next]_(Promise!vars)
<1>1. /\ subject[c] \in Artifacts /\ temp[subject[c]] = Complete
      /\ ~Known(subject[c])
      /\ UNCHANGED <<deleted, dest, creations, replaced>>
  BY DEF Publish, AtomicInv, BuildInv, OriginInv, Building
<1>2. CASE UNCHANGED store
  BY <1>1, <1>2, HiddenStep DEF State
<1>3. CASE store' = [store EXCEPT ![subject[c]] = temp[subject[c]]]
  <2>1. PICK a \in Artifacts : a = subject[c]
    BY <1>1
  <2>2. store' = [store EXCEPT ![a] = Complete] /\ store \in [Artifacts -> SUBSET Complete]
    BY <1>1, <1>3, <2>1 DEF AtomicInv, StoreInv
  <2>3. State(a) = "absent" /\ State(a)' = "complete"
    BY <1>1, <2>1, <2>2 DEF State, Known, Complete
  <2>4. \A b \in Artifacts \ {a} : State(b)' = State(b)
    BY <1>1, <2>2 DEF State
  <2>5. Promise!Publish(a)
    BY <1>1, <2>3, <2>4 DEF Promise!Publish, Promise!Becomes
  <2> QED BY <2>5 DEF Promise!Next
<1> QED BY <1>2, <1>3 DEF Publish

\* A delete takes entries from a complete artifact, and then from the rest of it.
LEMMA DeleteStep ==
    ASSUME AtomicInv, NEW a \in Artifacts, a \in deleted,
           NEW x \in SUBSET Complete,
           store' = [store EXCEPT ![a] = x],
           x \subseteq store[a], store[a] = Complete => x # {},
           UNCHANGED <<deleted, dest, creations, replaced>>
    PROVE  [Promise!Next]_(Promise!vars)
<1>1. store \in [Artifacts -> SUBSET Complete] /\ store'[a] = x /\ a \in deleted'
  BY DEF AtomicInv, StoreInv
<1>2. \A b \in Artifacts \ {a} : State(b)' = State(b)
  BY <1>1 DEF State
<1>3. CASE State(a)' = State(a)
  BY <1>2, <1>3, HiddenStep
<1>4. CASE State(a) = "complete" /\ State(a)' = "removing"
  <2>1. Promise!Spoil(a)
    BY <1>2, <1>4 DEF Promise!Spoil, Promise!Becomes
  <2> QED BY <2>1 DEF Promise!Next
<1>5. CASE State(a) = "removing" /\ State(a)' = "removed"
  <2>1. Promise!Remove(a)
    BY <1>2, <1>5 DEF Promise!Remove, Promise!Becomes
  <2> QED BY <2>1 DEF Promise!Next
<1>6. \/ State(a)' = State(a)
      \/ State(a) = "complete" /\ State(a)' = "removing"
      \/ State(a) = "removing" /\ State(a)' = "removed"
  <2>1. CASE store[a] = Complete
    BY <1>1, <2>1 DEF State, Complete
  <2>2. CASE store[a] = {}
    BY <1>1, <2>2 DEF State, Complete
  <2>3. CASE store[a] \notin {{}, Complete}
    <3>1. x # Complete
      BY <1>1, <2>3
    <3> QED BY <1>1, <2>3, <3>1 DEF State, Complete
  <2> QED BY <2>1, <2>2, <2>3
<1> QED BY <1>3, <1>4, <1>5, <1>6

\* The destination is created, overwritten, reported and undone.
LEMMA DestinationStep ==
    ASSUME AtomicInv, NEW c \in Callers, Replace(c) \/ Place(c) \/ Unlink(c)
    PROVE  [Promise!Next]_(Promise!vars)
<1>1. /\ subject[c] \in Artifacts /\ Known(subject[c])
      /\ UNCHANGED <<store, deleted>>
  BY DEF Replace, Place, Unlink, AtomicInv, CreationInv, OriginInv, OnlyDest
<1>2. /\ \A a \in Artifacts : State(a)' = State(a)
      /\ subject[c] \in Promise!Available
  BY <1>1 DEF State, Known, Complete, Promise!Available
<1>3. CASE Replace(c)
  <2>1. Promise!Overwrite(subject[c])
    BY <1>2, <1>3 DEF Replace, OnlyDest, Promise!Overwrite
  <2> QED BY <1>1, <2>1 DEF Promise!Next
<1>4. CASE Place(c)
  <2>1. CASE dest = NoArtifact
    <3>1. creations = {} /\ dest' = subject[c] /\ UNCHANGED replaced
      BY <1>4, <2>1 DEF Place, OnlyDest, AtomicInv, CreationInv
    <3>2. (creations # {})' \in {creations # {}, TRUE}
      BY <3>1
    <3>3. Promise!Create(subject[c])
      BY <1>2, <2>1, <3>1, <3>2 DEF Promise!Create
    <3> QED BY <1>1, <3>3 DEF Promise!Next
  <2>2. CASE dest # NoArtifact
    BY <1>2, <1>4, <2>2, HiddenStep DEF Place, OnlyDest
  <2> QED BY <2>1, <2>2
<1>5. CASE Unlink(c)
  <2>1. creations = {} /\ dest \in Artifacts /\ UNCHANGED replaced
    BY <1>5 DEF Unlink, OnlyDest, AtomicInv, CreationInv, OriginInv
  <2>2. CASE creations' # {} /\ UNCHANGED dest
    <3>1. Promise!Report
      BY <1>2, <2>1, <2>2 DEF Promise!Report
    <3> QED BY <3>1 DEF Promise!Next
  <2>3. CASE UNCHANGED creations /\ dest' = NoArtifact
    <3>1. Promise!Undo
      BY <1>2, <2>1, <2>3 DEF Promise!Undo
    <3> QED BY <3>1 DEF Promise!Next
  <2> QED BY <1>5, <2>2, <2>3 DEF Unlink
<1> QED BY <1>3, <1>4, <1>5

\* Every step of the store is a step of the promise, or nothing that it sees.
LEMMA NextPromise ==
    ASSUME AtomicInv, [ArtifactsNext]_<<callers, artifactVars>>
    PROVE  [Promise!Next]_(Promise!vars)
<1> DEFINE Refined == [Promise!Next]_(Promise!vars)
<1>1. ASSUME NEW c \in Callers,
             \/ CopyIn(c) \/ CompressorDies(c) \/ BlockedEnds(c) \/ Describe(c)
             \/ Discard(c) \/ ListBegins(c) \/ ListEnds(c) \/ CopyOut(c)
             \/ ArtifactCallerDies(c)
             \/ \E a \in Artifacts :
                  \/ ReturnBegins(c, a)
                  \/ \E o \in {"materialize", "replace"} : MaterializeBegins(c, a, o)
      PROVE  Refined
  <2>1. UNCHANGED <<store, deleted, dest, creations, replaced>>
    BY <1>1 DEF CopyIn, CompressorDies, BlockedEnds, Describe, Discard, ListBegins,
       ListEnds, CopyOut, ArtifactCallerDies, ReturnBegins, MaterializeBegins,
       OnlyTemp, OnlyDest
  <2> QED BY <2>1, HiddenStep DEF State
<1>2. ASSUME NEW c \in Callers, NEW a \in Artifacts, DeleteBegins(c, a) PROVE Refined
  <2>1. /\ store[a] # {} /\ deleted' = deleted \cup {a}
        /\ UNCHANGED <<store, dest, creations, replaced>>
    BY <1>2 DEF DeleteBegins, OnlyStore
  <2>2. \A b \in Artifacts : State(b)' = State(b)
    BY <2>1 DEF State, Complete
  <2> QED BY <2>1, <2>2, HiddenStep
<1>3. ASSUME NEW c \in Callers, NEW e \in Entries, DeleteEntry(c, e) PROVE Refined
  <2>1. e \in store[subject[c]] /\ subject[c] \in Artifacts \cap deleted
    BY <1>3 DEF DeleteEntry, AtomicInv, StoreInv
  <2>2. /\ store[subject[c]] \ {e} \in SUBSET Complete
        /\ store[subject[c]] = Complete => store[subject[c]] \ {e} # {}
    BY <2>1 DEF AtomicInv, StoreInv, Complete, Entries
  <2> QED BY <1>3, <2>1, <2>2, DeleteStep DEF DeleteEntry, OnlyStore
<1>4. ASSUME NEW c \in Callers, DeleteEnds(c) PROVE Refined
  <2>1. /\ subject[c] \in Artifacts \cap deleted
        /\ UNCHANGED <<deleted, dest, creations, replaced>>
    BY <1>4 DEF DeleteEnds, OnlyStore, AtomicInv, StoreInv
  <2>2. CASE UNCHANGED store
    BY <2>1, <2>2, HiddenStep DEF State
  <2>3. CASE store[subject[c]] \subseteq {"directory"}
             /\ store' = [store EXCEPT ![subject[c]] = {}]
    <3>1. store[subject[c]] # Complete
      BY <2>3 DEF Complete, Entries
    <3>2. {} \in SUBSET Complete /\ {} \subseteq store[subject[c]]
      OBVIOUS
    <3> QED BY <2>1, <2>3, <3>1, <3>2, DeleteStep
  <2> QED BY <1>4, <2>2, <2>3 DEF DeleteEnds
<1>5. CASE ForeignCreates
  <2>1. /\ dest = NoArtifact /\ dest' = Foreign
        /\ UNCHANGED <<store, deleted, creations, replaced>>
    BY <1>5 DEF ForeignCreates, OnlyDest
  <2>2. Promise!ForeignCreates
    BY <2>1 DEF Promise!ForeignCreates, State
  <2> QED BY <2>2 DEF Promise!Next
<1>6. CASE UNCHANGED <<callers, artifactVars>>
  BY <1>6, HiddenStep DEF artifactVars, State
<1> QED BY <1>1, <1>2, <1>3, <1>4, <1>5, <1>6, PublishStep, DestinationStep
        DEF ArtifactsNext, ArtifactStep

\* artifact.go, transfer_support.go: for any callers, artifacts and deaths the
\* store implements atomic artifacts: each is there whole or not at all until a
\* delete of it begins, and never comes back; a destination is
\* undone only before its creation is reported.
THEOREM ArtifactStoreImplements == ArtifactsSpec => ImplementsAtomicArtifacts
<1>1. CallersInit /\ ArtifactsInit => AtomicInv /\ Promise!Init
  BY CreationInit, ListInit, OriginInit, InitPromise DEF AtomicInv, ListInv
<1>2. AtomicInv /\ [ArtifactsNext]_<<callers, artifactVars>> => AtomicInv'
  BY CreationNext, BuildNext, StoreNext, OriginNext DEF AtomicInv
<1>3. AtomicInv /\ [ArtifactsNext]_<<callers, artifactVars>> => [Promise!Next]_(Promise!vars)
  BY NextPromise
<1> QED BY <1>1, <1>2, <1>3, PTL DEF ArtifactsSpec, ImplementsAtomicArtifacts, Promise!Spec

=============================================================================
