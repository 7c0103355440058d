---------------------------- MODULE ArtifactStore ----------------------------
(***************************************************************************)
(* Artifacts (artifact.go, transfer_support.go): directories under         *)
(* /var/lib/hec/artifacts that hold a payload and metadata.json.  One is   *)
(* built in a directory .tmp-<id> and renamed, and never changes until it  *)
(* is deleted, entry by entry.  Nothing of this is under a lock: the       *)
(* service and `hec call` commands meet in the file system only.           *)
(*                                                                         *)
(* Artifacts of uploads are in module Uploads.  artifact.stat and          *)
(* artifact.read open what is there, change nothing and are left out; so   *)
(* are the contents: a payload is known by its artifact.                   *)
(***************************************************************************)
EXTENDS Callers

CONSTANTS
    Artifacts, NoArtifact,   \* identifiers: secureID never repeats
    Foreign                  \* a file that another program wrote

ASSUME ArtifactsAssumption == {NoArtifact, Foreign} \cap Artifacts = {}

VARIABLES
    temp,        \* durable: what .tmp-<id> holds
    store,       \* durable: what the artifact's directory holds
    dest,        \* the file at the destination of artifact.materialize
    subject,     \* the artifact of each call
    found,       \* the directories an artifact.list has read
    owed,        \* history: what was complete when the list began
    made,        \* identifiers already allocated
    deleted,     \* history: artifacts that a delete has begun to remove
    listings,    \* history: what lists were owed, and what they answered
    creations,   \* history: calls without overwrite that reported success
    replaced     \* history: whether a call with overwrite wrote the destination

artifactVars == <<temp, store, dest, subject, found, owed, made, deleted, listings,
                  creations, replaced>>

-----------------------------------------------------------------------------

Entries  == {"payload", "metadata"}
Complete == {"directory"} \cup Entries

ArtifactsTypeOK ==
    /\ {temp, store} \subseteq [Artifacts -> SUBSET Complete]
    /\ dest \in Artifacts \cup {NoArtifact, Foreign}
    /\ subject \in [Callers -> Artifacts \cup {NoArtifact}]
    /\ {found, owed} \subseteq [Callers -> SUBSET Artifacts]
    /\ {made, deleted} \subseteq SUBSET Artifacts
    /\ listings \subseteq [owed : SUBSET Artifacts, got : SUBSET Artifacts,
                           ok : BOOLEAN, excused : BOOLEAN]
    /\ creations \subseteq Callers \X Artifacts
    /\ replaced \in BOOLEAN

\* Some artifacts are there already.
ArtifactsInit ==
    /\ made \in SUBSET Artifacts
    /\ store = [a \in Artifacts |-> IF a \in made THEN Complete ELSE {}]
    /\ temp = [a \in Artifacts |-> {}]
    /\ dest \in {NoArtifact, Foreign}
    /\ subject = [c \in Callers |-> NoArtifact]
    /\ found = [c \in Callers |-> {}] /\ owed = [c \in Callers |-> {}]
    /\ deleted = {} /\ listings = {} /\ creations = {} /\ replaced = FALSE

Published == {a \in Artifacts : "directory" \in store[a]}

Finish(c) == subject' = [subject EXCEPT ![c] = NoArtifact]

-----------------------------------------------------------------------------
(* artifact.return                                                         *)

OnlyTemp == UNCHANGED <<store, dest, found, owed, deleted, listings, creations,
                        replaced>>

\* newArtifactDirectory
ReturnBegins(c, a) ==
    /\ a \notin made
    /\ Enter(c, "return", "copy")
    /\ made' = made \cup {a}
    /\ temp' = [temp EXCEPT ![a] = {"directory"}]
    /\ subject' = [subject EXCEPT ![c] = a]
    /\ OnlyTemp

\* A file is copied; a directory goes through tar and zstd.
CopyIn(c) ==
    /\ op[c] = "return" /\ pc[c] = "copy"
    /\ temp' = [temp EXCEPT ![subject[c]] = @ \cup {"payload"}]
    /\ \/ Goto(c, "describe")
       \/ GotoFailing(c, "discard")
    /\ OnlyTemp /\ UNCHANGED <<subject, made>>

\* zstd ends early.  HEC itself still holds the pipe open for reading while it
\* waits for tar, and tar, which has filled it, waits too.
CompressorDies(c) ==
    /\ op[c] = "return" /\ pc[c] = "copy"
    /\ temp' = [temp EXCEPT ![subject[c]] = @ \cup {"payload"}]
    /\ GotoFailing(c, "blocked")
    /\ OnlyTemp /\ UNCHANGED <<subject, made>>

\* The end of the call's context kills tar.
BlockedEnds(c) ==
    /\ pc[c] = "blocked"
    /\ Goto(c, "discard")
    /\ OnlyTemp /\ UNCHANGED <<temp, subject, made>>

\* Mutant of Describe: the directory is renamed before it is described.
PublishFirst(c) ==
    /\ pc[c] = "describe"
    /\ store' = [store EXCEPT ![subject[c]] = temp[subject[c]]]
    /\ temp' = [temp EXCEPT ![subject[c]] = {"metadata"}]
    /\ Goto(c, "publish")
    /\ UNCHANGED <<dest, subject, found, owed, made, deleted, listings, creations,
                   replaced>>

\* completeArtifact writes metadata.json beside the payload ...
Describe(c) ==
    /\ pc[c] = "describe"
    /\ \/ /\ temp' = [temp EXCEPT ![subject[c]] = @ \cup {"metadata"}]
          /\ Goto(c, "publish")
       \/ GotoFailing(c, "discard") /\ UNCHANGED temp
    /\ OnlyTemp /\ UNCHANGED <<subject, made>>

\* ... and renames the directory.
Publish(c) ==
    /\ pc[c] = "publish"
    /\ \/ /\ store' = [store EXCEPT ![subject[c]] = temp[subject[c]]]
          /\ temp' = [temp EXCEPT ![subject[c]] = {}]
          /\ Return(c) /\ Finish(c)
       \/ GotoFailing(c, "discard") /\ UNCHANGED <<store, temp, subject>>
    /\ UNCHANGED <<dest, found, owed, made, deleted, listings, creations, replaced>>

\* The deferred RemoveAll
Discard(c) ==
    /\ pc[c] = "discard"
    /\ temp' = [temp EXCEPT ![subject[c]] = {}]
    /\ Return(c) /\ Finish(c)
    /\ OnlyTemp /\ UNCHANGED made

-----------------------------------------------------------------------------
(* artifact.list                                                           *)

\* os.ReadDir; directories .tmp-<id> are passed over.
ListBegins(c) ==
    /\ Enter(c, "list", "load")
    /\ found' = [found EXCEPT ![c] = Published]
    /\ owed' = [owed EXCEPT ![c] = {a \in Artifacts : store[a] = Complete}]
    /\ UNCHANGED <<temp, store, dest, subject, made, deleted, listings, creations,
                   replaced>>

\* The first artifact whose metadata.json cannot be read fails the list.
ListEnds(c) ==
    LET ok == \A a \in found[c] : "metadata" \in store[a]
    IN  /\ pc[c] = "load"
        /\ listings' = listings \cup
             {[owed |-> owed[c] \ deleted, got |-> IF ok THEN found[c] ELSE {},
               ok |-> ok, excused |-> deleted # {}]}
        /\ Return(c)
        /\ found' = [found EXCEPT ![c] = {}] /\ owed' = [owed EXCEPT ![c] = {}]
        /\ UNCHANGED <<temp, store, dest, subject, made, deleted, creations,
                       replaced>>

-----------------------------------------------------------------------------
(* artifact.delete                                                         *)

OnlyStore == UNCHANGED <<temp, dest, found, owed, made, listings, creations, replaced>>

DeleteBegins(c, a) ==
    /\ "metadata" \in store[a]
    /\ Enter(c, "delete", "entries")
    /\ subject' = [subject EXCEPT ![c] = a]
    /\ deleted' = deleted \cup {a}
    /\ OnlyStore /\ UNCHANGED store

\* RemoveAll, in the order of the directory
DeleteEntry(c, e) ==
    /\ pc[c] = "entries" /\ e \in store[subject[c]]
    /\ store' = [store EXCEPT ![subject[c]] = @ \ {e}]
    /\ UNCHANGED callers
    /\ OnlyStore /\ UNCHANGED <<subject, deleted>>

DeleteEnds(c) ==
    /\ pc[c] = "entries"
    /\ \/ /\ store[subject[c]] \subseteq {"directory"}
          /\ store' = [store EXCEPT ![subject[c]] = {}]
          /\ Return(c)
       \/ ReturnFailing(c) /\ UNCHANGED store
    /\ Finish(c)
    /\ OnlyStore /\ UNCHANGED deleted

-----------------------------------------------------------------------------
(* artifact.materialize, without and with overwrite ("replace")            *)

OnlyDest == UNCHANGED <<temp, store, found, owed, made, deleted, listings>>

MaterializeBegins(c, a, o) ==
    /\ o \in {"materialize", "replace"}
    /\ "metadata" \in store[a]
    /\ o = "materialize" => dest = NoArtifact
    /\ Enter(c, o, "copyout")
    /\ subject' = [subject EXCEPT ![c] = a]
    /\ OnlyDest /\ UNCHANGED <<dest, creations, replaced>>

\* The payload is copied to a file of its own beside the destination.  Once
\* opened it can be deleted.
CopyOut(c) ==
    /\ pc[c] = "copyout"
    /\ \/ /\ "payload" \in store[subject[c]]
          /\ Goto(c, "place") /\ UNCHANGED subject
       \/ "payload" \notin store[subject[c]] /\ Return(c) /\ Finish(c)
       \/ ReturnFailing(c) /\ Finish(c)
    /\ OnlyDest /\ UNCHANGED <<dest, creations, replaced>>

Replace(c) ==
    /\ op[c] = "replace" /\ pc[c] = "place"
    /\ dest' = subject[c] /\ replaced' = TRUE
    /\ Return(c) /\ Finish(c)
    /\ OnlyDest /\ UNCHANGED creations

\* Mutant of Place: the earlier look at the destination is relied upon.
PlaceAnyway(c) ==
    /\ op[c] = "materialize" /\ pc[c] = "place"
    /\ dest' = subject[c]
    /\ creations' = creations \cup {<<c, subject[c]>>}
    /\ Return(c) /\ Finish(c)
    /\ OnlyDest /\ UNCHANGED replaced

\* publishNoReplace: renameat2, or a link where that is not supported.
Place(c) ==
    /\ op[c] = "materialize" /\ pc[c] = "place"
    /\ \/ /\ dest = NoArtifact
          /\ dest' = subject[c]
          /\ \/ /\ creations' = creations \cup {<<c, subject[c]>>}
                /\ Return(c) /\ Finish(c)
             \/ Goto(c, "linked") /\ UNCHANGED <<subject, creations>>
       \/ /\ dest # NoArtifact
          /\ Return(c) /\ Finish(c)
          /\ UNCHANGED <<dest, creations>>
    /\ OnlyDest /\ UNCHANGED replaced

\* Mutant of Unlink: the wrong one of the two names is removed.
UnlinkDestination(c) ==
    /\ pc[c] = "linked"
    /\ creations' = creations \cup {<<c, subject[c]>>}
    /\ dest' = NoArtifact
    /\ Return(c) /\ Finish(c)
    /\ OnlyDest /\ UNCHANGED replaced

\* The other name is removed; when that fails, the destination is, whatever it
\* is by then.
Unlink(c) ==
    /\ pc[c] = "linked"
    /\ \/ /\ creations' = creations \cup {<<c, subject[c]>>}
          /\ Return(c) /\ UNCHANGED dest
       \/ ReturnFailing(c) /\ dest' = NoArtifact /\ UNCHANGED creations
    /\ Finish(c)
    /\ OnlyDest /\ UNCHANGED replaced

\* Another program creates the destination.
ForeignCreates ==
    /\ dest = NoArtifact /\ dest' = Foreign
    /\ OnlyDest /\ UNCHANGED <<callers, subject, creations, replaced>>

-----------------------------------------------------------------------------

ArtifactCallerDies(c) ==
    /\ pc[c] # "idle"
    /\ ReturnFailing(c) /\ Finish(c)
    /\ found' = [found EXCEPT ![c] = {}] /\ owed' = [owed EXCEPT ![c] = {}]
    /\ UNCHANGED <<temp, store, dest, made, deleted, listings, creations, replaced>>

ArtifactStep(c) ==
    \/ CopyIn(c) \/ CompressorDies(c) \/ BlockedEnds(c) \/ Describe(c)
    \/ Publish(c) \/ Discard(c) \/ ListBegins(c) \/ ListEnds(c) \/ DeleteEnds(c)
    \/ CopyOut(c) \/ Replace(c) \/ Place(c) \/ Unlink(c) \/ ArtifactCallerDies(c)
    \/ \E e \in Entries : DeleteEntry(c, e)

ArtifactsNext ==
    \/ \E c \in Callers :
         \/ ArtifactStep(c)
         \/ \E a \in Artifacts :
              \/ ReturnBegins(c, a) \/ DeleteBegins(c, a)
              \/ \E o \in {"materialize", "replace"} : MaterializeBegins(c, a, o)
    \/ ForeignCreates

ArtifactsSpec == CallersInit /\ ArtifactsInit /\ [][ArtifactsNext]_<<callers, artifactVars>>

-----------------------------------------------------------------------------
(* Properties.                                                             *)

\* artifact.list reads the root first and each metadata.json later, while
\* other processes publish and delete: every artifact that was there all along
\* is listed, and the list fails only where a delete has begun.  (Then it may
\* fail for ever: a directory left without metadata.json fails every list.)
ListingIsComplete ==
    \A l \in listings : IF l.ok THEN l.owed \subseteq l.got ELSE l.excused

\* Of all calls without overwrite one at most reports success, although they
\* look at the destination long before they write it; and what it wrote stays
\* there unless a call with overwrite was made.
CreatedOnce ==
    /\ \A x, y \in creations : x = y
    /\ \A x \in creations : replaced \/ dest = x[2]

\* What the directory of an artifact amounts to
State(a) ==
    CASE store[a] = Complete              -> "complete"
      [] store[a] \notin {{}, Complete}   -> "removing"
      [] store[a] = {} /\ a \in deleted   -> "removed"
      [] store[a] = {} /\ a \notin deleted -> "absent"

Promise == INSTANCE AtomicArtifacts WITH
    Nothing     <- NoArtifact,
    artifact    <- [a \in Artifacts |-> State(a)],
    destination <- dest,
    reported    <- creations # {},
    overwritten <- replaced

\* Artifacts are atomic: each is there whole or not at all until a delete of it
\* has begun, is never changed and never comes back, although it is built entry
\* by entry, by calls that may die; what is materialized was published;
\* and a destination is only undone before its creation is reported.
ImplementsAtomicArtifacts == Promise!Spec
=============================================================================
