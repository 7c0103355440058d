------------------------------- MODULE Uploads -------------------------------
(***************************************************************************)
(* One chunked upload (upload.go) and the artifacts made from it           *)
(* (artifact.go), as files that several processes use at once: the service *)
(* behind its call gate and any number of `hec call` commands.             *)
(*                                                                         *)
(* A call opens the data file first and locks the open file: what it waits *)
(* for is the inode, wherever that has been moved to in the meantime.  So  *)
(* after the lock it reads metadata.json again to learn whether the upload *)
(* still exists.  Artifacts are published by one rename and deleted entry  *)
(* by entry, without any lock.  A call may die between any two steps.      *)
(*                                                                         *)
(* A file's content is a sequence of blocks.  metadata.json's current_bytes*)
(* is never read back and is left out, and so are the handles of other     *)
(* uploads, which share nothing with this one but the artifact store.      *)
(***************************************************************************)
EXTENDS Naturals, Sequences, FiniteSets

CONSTANTS
    Calls,       \* the processes that call
    Ops,         \* the operations they call
    Artifacts,   \* artifact identifiers, a set of numbers (ReadDir's order)
    Wanted,      \* the content with the announced size and digest
    Values,      \* block values that clients send
    MaxCalls, MaxFailures     \* bounds of the model

AllOps == {"chunk", "finish", "replace", "artifact", "abort", "delete"}

ASSUME UploadsAssumption ==
    /\ Ops \subseteq AllOps /\ "free" \notin Calls
    /\ Artifacts \subseteq Nat \ {0} /\ Artifacts # {}
    /\ Values \subseteq Nat \ {0} /\ Wanted \in Seq(Values)
    /\ {MaxCalls, MaxFailures} \subseteq Nat

VARIABLES
    begun,      \* has upload.begin published the upload?
    checked,    \* were a size and a digest announced?
    entries,    \* durable: what the upload's directory holds
    content,    \* durable: the content of the data file's inode
    dest,       \* durable: the file at the destination
    copy,       \* durable: its content, if it is a copy
    artDirs,    \* durable: artifact directories
    artEntries, \* durable: what they hold
    payload,    \* durable: the content of their payloads
    ours,       \* durable: artifacts with this SourceUploadHandle
    lock,       \* holder of the flock of the data inode
    pc, op,     \* each call's next step and operation
    block,      \* upload.chunk: offset and value
    art,        \* the artifact that a call made, found or deletes
    todo,       \* artifact directories a lookup has still to read
    reply,      \* result of the last operation of a call
    calls,      \* bounded by MaxCalls
    failures,   \* deaths and I/O errors, bounded by MaxFailures
    acked,      \* history: the last acknowledged value of each offset
    completed,  \* history: completions reported to clients
    aborted     \* history: was an abort reported to a client?

uploadVars   == <<begun, checked, entries, content, lock>>
destVars     == <<dest, copy>>
artifactVars == <<artDirs, artEntries, payload, ours>>
bounds       == <<calls, failures>>
history      == <<acked, completed, aborted>>
vars == <<uploadVars, destVars, artifactVars, pc, op, block, art, todo, reply,
          bounds, history>>

-----------------------------------------------------------------------------

Offsets  == 0..Len(Wanted) - 1
Free     == "free"
NoBlock  == <<>>
Contents == UNION {[1..n -> Values] : n \in 0..Len(Wanted)}

\* The file at the destination is the data inode itself (rename) or a copy
\* (another file system).
DestContent == IF dest = "moved" THEN content ELSE copy

Completion(o, a, c) == [op |-> o, artifact |-> a, content |-> c]

TypeOK ==
    /\ {begun, checked, aborted} \subseteq BOOLEAN
    /\ entries \in SUBSET {"data", "metadata"}
    /\ {content, copy} \subseteq Contents
    /\ dest \in {"absent", "other", "moved", "copy"}
    /\ {artDirs, ours} \subseteq SUBSET Artifacts
    /\ artEntries \in [Artifacts -> SUBSET {"metadata", "payload"}]
    /\ payload \in [Artifacts -> Contents]
    /\ lock \in Calls \cup {Free}
    /\ pc \in [Calls -> {"idle", "flock", "load", "write", "verify", "publish",
                         "lookup", "remove", "unlink", "return"}]
    /\ op \in [Calls -> AllOps \cup {"none"}]
    /\ block \in [Calls -> (Offsets \X Values) \cup {NoBlock}]
    /\ art \in [Calls -> Artifacts \cup {0}]
    /\ todo \in [Calls -> SUBSET Artifacts]
    /\ reply \in [Calls -> {"none", "ok", "not_found", "invalid_offset",
                            "upload_failed", "verification_failed",
                            "destination_exists", "artifact_failed"}]
    /\ {calls, failures} \subseteq Nat
    /\ acked \in [Offsets -> Values \cup {0}]
    /\ completed \in SUBSET [op : AllOps, artifact : Artifacts \cup {0},
                             content : Contents]

\* The store may already hold an artifact that is not of this upload.
Init ==
    /\ begun = FALSE /\ checked \in BOOLEAN
    /\ entries = {} /\ content = <<>>
    /\ dest \in {"absent", "other"} /\ copy = <<>>
    /\ artDirs \in {{}, {CHOOSE a \in Artifacts : TRUE}}
    /\ artEntries = [a \in Artifacts |-> IF a \in artDirs
                                         THEN {"metadata", "payload"} ELSE {}]
    /\ payload = [a \in Artifacts |-> <<>>]
    /\ ours = {}
    /\ lock = Free
    /\ pc = [c \in Calls |-> "idle"]
    /\ op = [c \in Calls |-> "none"]
    /\ block = [c \in Calls |-> NoBlock]
    /\ art = [c \in Calls |-> 0]
    /\ todo = [c \in Calls |-> {}]
    /\ reply = [c \in Calls |-> "none"]
    /\ calls = 0 /\ failures = 0
    /\ acked = [i \in Offsets |-> 0]
    /\ completed = {} /\ aborted = FALSE

-----------------------------------------------------------------------------

Goto(c, step) == pc' = [pc EXCEPT ![c] = step]

Answer(c, r) == reply' = [reply EXCEPT ![c] = r]

\* The call is over but for the deferred unlock.
Return(c, r) == Answer(c, r) /\ Goto(c, "return")

\* The locals of a call that is over.
Forget(c) ==
    /\ block' = [block EXCEPT ![c] = NoBlock]
    /\ art' = [art EXCEPT ![c] = 0]
    /\ todo' = [todo EXCEPT ![c] = {}]

\* A death or an I/O error.
Failure == failures < MaxFailures /\ failures' = failures + 1

\* Mutant of Begin: the metadata is published under another name.
BeginMisnamed ==
    /\ ~begun
    /\ begun' = TRUE
    /\ entries' = {"data", "metadata.tmp"}
    /\ UNCHANGED <<checked, content, lock, destVars, artifactVars, pc, op, block,
                   art, todo, reply, bounds, history>>

\* upload.begin fills a temporary directory and renames it.  A begin that
\* fails or dies leaves no upload.
Begin ==
    /\ ~begun
    /\ begun' = TRUE
    /\ entries' = {"data", "metadata"}
    /\ UNCHANGED <<checked, content, lock, destVars, artifactVars, pc, op, block,
                   art, todo, reply, bounds, history>>

\* The data file is opened.  Without one, a completion as an artifact looks
\* for the artifact that an earlier completion made.
Open(c, o) ==
    /\ begun /\ pc[c] = "idle" /\ o \in Ops \ {"delete"} /\ calls < MaxCalls
    /\ calls' = calls + 1
    /\ op' = [op EXCEPT ![c] = o]
    /\ IF "data" \in entries
       THEN /\ Goto(c, "flock") /\ Answer(c, "none")
            /\ IF o = "chunk"
               THEN \E b \in Offsets \X Values : block' = [block EXCEPT ![c] = b]
               ELSE UNCHANGED block
            /\ UNCHANGED todo
       ELSE /\ Answer(c, "not_found")
            /\ IF o = "artifact"
               THEN Goto(c, "lookup") /\ todo' = [todo EXCEPT ![c] = artDirs]
               ELSE UNCHANGED <<pc, todo>>
            /\ UNCHANGED block
    /\ UNCHANGED <<uploadVars, destVars, artifactVars, art, failures, history>>

\* Mutant of Flock: a shared lock.
FlockShared(c) ==
    /\ pc[c] = "flock"
    /\ lock' = c
    /\ Goto(c, "load")
    /\ UNCHANGED <<begun, checked, entries, content, destVars, artifactVars, op,
                   block, art, todo, reply, bounds, history>>

Flock(c) ==
    /\ pc[c] = "flock" /\ lock = Free
    /\ lock' = c
    /\ Goto(c, "load")
    /\ UNCHANGED <<begun, checked, entries, content, destVars, artifactVars, op,
                   block, art, todo, reply, bounds, history>>

Task(c) == CASE op[c] = "chunk" -> "write"
             [] op[c] = "abort" -> "remove"
             [] OTHER           -> "verify"

\* Mutant of Load: the metadata was read before the lock was taken.
LoadNothing(c) ==
    /\ pc[c] = "load"
    /\ Goto(c, Task(c))
    /\ UNCHANGED <<uploadVars, destVars, artifactVars, op, block, art, todo, reply,
                   bounds, history>>

Load(c) ==
    /\ pc[c] = "load"
    /\ IF "metadata" \in entries
       THEN Goto(c, Task(c)) /\ UNCHANGED <<todo, reply>>
       ELSE /\ Answer(c, "upload_failed")
            /\ IF op[c] = "artifact"
               THEN Goto(c, "lookup") /\ todo' = [todo EXCEPT ![c] = artDirs]
               ELSE Goto(c, "return") /\ UNCHANGED todo
    /\ UNCHANGED <<uploadVars, destVars, artifactVars, op, block, art, bounds,
                   history>>

\* findArtifactByUploadHandle: in the order of the directory, until one is
\* found or one cannot be read.
LookupNext(c) ==
    /\ pc[c] = "lookup" /\ todo[c] # {}
    /\ LET a == CHOOSE x \in todo[c] : \A y \in todo[c] : x <= y IN
         IF "metadata" \notin artEntries[a]
         THEN Return(c, "artifact_failed") /\ UNCHANGED <<todo, art>>
         ELSE IF a \in ours
         THEN Return(c, "ok") /\ art' = [art EXCEPT ![c] = a] /\ UNCHANGED todo
         ELSE todo' = [todo EXCEPT ![c] = @ \ {a}] /\ UNCHANGED <<pc, reply, art>>
    /\ UNCHANGED <<uploadVars, destVars, artifactVars, op, block, bounds, history>>

LookupEnds(c) ==
    /\ pc[c] = "lookup" /\ todo[c] = {}
    /\ Goto(c, "return")
    /\ UNCHANGED <<uploadVars, destVars, artifactVars, op, block, art, todo, reply,
                   bounds, history>>

-----------------------------------------------------------------------------
(* upload.chunk                                                            *)

WriteAt(s, i, v) ==
    [n \in 1..(IF i < Len(s) THEN Len(s) ELSE i + 1) |->
       IF n = i + 1 THEN v ELSE s[n]]

WriteChunk(c) ==
    /\ pc[c] = "write"
    /\ IF block[c][1] > Len(content)
       THEN Return(c, "invalid_offset") /\ UNCHANGED content
       ELSE /\ content' = WriteAt(content, block[c][1], block[c][2])
            /\ Return(c, "ok")
    /\ UNCHANGED <<begun, checked, entries, lock, destVars, artifactVars, op, block,
                   art, todo, bounds, history>>

\* The write, the sync or the write of metadata.json fails.
WriteChunkFails(c) ==
    /\ pc[c] = "write" /\ Failure
    /\ block[c][1] <= Len(content)
    /\ content' \in {content, WriteAt(content, block[c][1], block[c][2])}
    /\ Return(c, "upload_failed")
    /\ UNCHANGED <<begun, checked, entries, lock, destVars, artifactVars, op, block,
                   art, todo, calls, history>>

-----------------------------------------------------------------------------
(* upload.finish and upload.abort                                          *)

Verify(c) ==
    /\ pc[c] = "verify"
    /\ IF checked => content = Wanted
       THEN Goto(c, "publish") /\ UNCHANGED reply
       ELSE Return(c, "verification_failed")
    /\ UNCHANGED <<uploadVars, destVars, artifactVars, op, block, art, todo, bounds,
                   history>>

\* moveFileToAtomicDestination: rename, or a copy that is then renamed.
Move(c) ==
    /\ pc[c] = "publish" /\ op[c] \in {"finish", "replace"}
    /\ IF "data" \notin entries
       THEN Return(c, "upload_failed") /\ UNCHANGED <<entries, destVars>>
       ELSE IF op[c] = "finish" /\ dest # "absent"
       THEN Return(c, "destination_exists") /\ UNCHANGED <<entries, destVars>>
       ELSE /\ \/ /\ dest' = "moved"
                  /\ entries' = entries \ {"data"}
                  /\ UNCHANGED copy
               \/ /\ dest' = "copy" /\ copy' = content
                  /\ UNCHANGED entries
            /\ Goto(c, "remove") /\ UNCHANGED reply
    /\ UNCHANGED <<begun, checked, content, lock, artifactVars, op, block, art, todo,
                   bounds, history>>

MoveFails(c) ==
    /\ pc[c] = "publish" /\ op[c] \in {"finish", "replace"} /\ Failure
    /\ Return(c, "upload_failed")
    /\ UNCHANGED <<uploadVars, destVars, artifactVars, op, block, art, todo, calls, history>>

\* Mutant of MakeArtifact: the upload is kept.
MakeArtifactOnly(c) ==
    /\ pc[c] = "publish" /\ op[c] = "artifact"
    /\ \E a \in Artifacts \ artDirs :
         /\ artDirs' = artDirs \cup {a} /\ ours' = ours \cup {a}
         /\ artEntries' = [artEntries EXCEPT ![a] = {"metadata", "payload"}]
         /\ payload' = [payload EXCEPT ![a] = content]
         /\ art' = [art EXCEPT ![c] = a]
    /\ Return(c, "ok")
    /\ UNCHANGED <<uploadVars, destVars, op, block, todo, bounds, history>>

\* createFileArtifact copies the file by its path and publishes by a rename.
MakeArtifact(c) ==
    /\ pc[c] = "publish" /\ op[c] = "artifact"
    /\ IF "data" \notin entries
       THEN Return(c, "artifact_failed") /\ UNCHANGED <<artifactVars, art>>
       ELSE /\ \E a \in Artifacts \ (artDirs \cup ours) :
                 /\ artDirs' = artDirs \cup {a} /\ ours' = ours \cup {a}
                 /\ artEntries' = [artEntries EXCEPT ![a] = {"metadata", "payload"}]
                 /\ payload' = [payload EXCEPT ![a] = content]
                 /\ art' = [art EXCEPT ![c] = a]
            /\ Goto(c, "remove") /\ UNCHANGED reply
    /\ UNCHANGED <<uploadVars, destVars, op, block, todo, bounds, history>>

MakeArtifactFails(c) ==
    /\ pc[c] = "publish" /\ op[c] = "artifact" /\ Failure
    /\ Return(c, "artifact_failed")
    /\ UNCHANGED <<uploadVars, destVars, artifactVars, op, block, art, todo, calls, history>>

\* os.RemoveAll of the upload's directory, entry by entry in any order.
RemoveEntry(c) ==
    /\ pc[c] = "remove"
    /\ \E e \in entries : entries' = entries \ {e}
    /\ UNCHANGED <<begun, checked, content, lock, destVars, artifactVars, pc, op,
                   block, art, todo, reply, bounds, history>>

Removed(c) ==
    /\ pc[c] = "remove" /\ entries = {}
    /\ Return(c, "ok")
    /\ UNCHANGED <<uploadVars, destVars, artifactVars, op, block, art, todo, bounds,
                   history>>

RemoveFails(c) ==
    /\ pc[c] = "remove" /\ Failure
    /\ Return(c, "upload_failed")
    /\ UNCHANGED <<uploadVars, destVars, artifactVars, op, block, art, todo, calls, history>>

\* What the completion of c published.
Published(c) == IF op[c] = "artifact" THEN payload[art[c]] ELSE DestContent

\* The result leaves; the file is unlocked and closed.
Finish(c) ==
    /\ pc[c] = "return"
    /\ lock' = IF lock = c THEN Free ELSE lock
    /\ Goto(c, "idle") /\ Forget(c)
    /\ acked' = IF op[c] = "chunk" /\ reply[c] = "ok"
                THEN [acked EXCEPT ![block[c][1]] = block[c][2]] ELSE acked
    /\ completed' = IF op[c] \in {"finish", "replace", "artifact"} /\ reply[c] = "ok"
                    THEN completed \cup {Completion(op[c], art[c], Published(c))}
                    ELSE completed
    /\ aborted' = (aborted \/ (op[c] = "abort" /\ reply[c] = "ok"))
    /\ UNCHANGED <<begun, checked, entries, content, destVars, artifactVars, op,
                   reply, bounds>>

-----------------------------------------------------------------------------
(* artifact.delete: no lock, and metadata.json may go first.               *)

DeleteArtifact(c, a) ==
    /\ pc[c] = "idle" /\ "delete" \in Ops /\ calls < MaxCalls
    /\ a \in artDirs
    /\ calls' = calls + 1
    /\ op' = [op EXCEPT ![c] = "delete"]
    /\ IF "metadata" \in artEntries[a]
       THEN Goto(c, "unlink") /\ Answer(c, "none") /\ art' = [art EXCEPT ![c] = a]
       ELSE Answer(c, "not_found") /\ UNCHANGED <<pc, art>>
    /\ UNCHANGED <<uploadVars, destVars, artifactVars, block, todo, failures,
                   history>>

UnlinkEntry(c) ==
    /\ pc[c] = "unlink"
    /\ \E e \in artEntries[art[c]] :
         artEntries' = [artEntries EXCEPT ![art[c]] = @ \ {e}]
    /\ UNCHANGED <<uploadVars, destVars, artDirs, payload, ours, pc, op, block, art,
                   todo, reply, bounds, history>>

UnlinkDirectory(c) ==
    /\ pc[c] = "unlink" /\ artEntries[art[c]] = {}
    /\ artDirs' = artDirs \ {art[c]}
    /\ Return(c, "ok")
    /\ UNCHANGED <<uploadVars, destVars, artEntries, payload, ours, op, block, art,
                   todo, bounds, history>>

-----------------------------------------------------------------------------

\* The process of c dies: the service, to be restarted, or a hec command.
Crash(c) ==
    /\ pc[c] # "idle" /\ Failure
    /\ lock' = IF lock = c THEN Free ELSE lock
    /\ Goto(c, "idle") /\ Forget(c)
    /\ Answer(c, "none")
    /\ UNCHANGED <<begun, checked, entries, content, destVars, artifactVars, op,
                   calls, history>>

Step(c) ==
    \/ \E o \in AllOps : Open(c, o)
    \/ Flock(c) \/ Load(c) \/ LookupNext(c) \/ LookupEnds(c)
    \/ WriteChunk(c) \/ Verify(c) \/ Move(c) \/ MakeArtifact(c)
    \/ RemoveEntry(c) \/ Removed(c) \/ Finish(c)
    \/ \E a \in Artifacts : DeleteArtifact(c, a)
    \/ UnlinkEntry(c) \/ UnlinkDirectory(c)

StepFails(c) ==
    \/ WriteChunkFails(c) \/ MoveFails(c) \/ MakeArtifactFails(c) \/ RemoveFails(c)
    \/ Crash(c)

Next == Begin \/ \E c \in Calls : Step(c) \/ StepFails(c)

Spec == Init /\ [][Next]_vars

-----------------------------------------------------------------------------
(* Properties.                                                             *)

Undisturbed == failures = 0

\* A completion that was reported to the client is what it was verified to be,
\* and stays so: no chunk that waited for the lock while the data file was
\* moved to its destination can write to it there.
CompletedStaysVerified ==
    \A r \in completed :
        /\ checked => r.content = Wanted
        /\ r.op # "artifact" => DestContent = r.content

\* An upload becomes one artifact, however often and by however many callers
\* its completion is repeated; every other one is the trace of a call that
\* died or failed between making the artifact and removing the upload.
OneArtifact == Cardinality(ours) <= 1 + failures

\* A client that was told that the upload is aborted and one that was told
\* that it is complete cannot both exist.
AbortExcludesCompletion == Undisturbed => ~(aborted /\ completed # {})

\* Every acknowledged chunk is in what is published, also for an upload of no
\* announced size or digest.
AckedIsPublished ==
    Undisturbed =>
      \A r \in completed, i \in Offsets :
        acked[i] # 0 => i < Len(r.content) /\ r.content[i + 1] = acked[i]

\* operations.md of the operator skill: repeating a successful finish returns
\* the same completion.  It must not answer that there is no such upload.
RepeatedFinishIsSafe ==
    [][\A c \in Calls :
         reply[c] # "not_found" /\ reply'[c] = "not_found" =>
           op'[c] \notin {r.op : r \in completed}]_vars
=============================================================================
