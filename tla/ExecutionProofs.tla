--------------------------- MODULE ExecutionProofs ---------------------------
(***************************************************************************)
(* Direct runs: what a run answers is true of its processes, for any       *)
(* number of callers, any budget and any amount of output; and the         *)
(* deadlines that it and the other direct calls are given leave room for   *)
(* the answer.  At the end, that terminals, jobs, artifacts and runs keep  *)
(* their promises in the composition that MCExecution gives to TLC.        *)
(***************************************************************************)
EXTENDS MCExecution, TerminalsProofs, JobLifecycleProofs, ArtifactStoreProofs,
        Deadlines, FiniteSetTheorems, TLAPS

RunStateVars == <<processVars, watchVars, runReply>>

\* A reply is given by RunReturns, after which nothing moves that it speaks of:
\* the command was reaped and the watching goroutine has made its choice.
HonestInv ==
    /\ leader \in {"none", "running", "zombie", "reaped"}
    /\ watch \in {"waiting", "dismissed", "fired"}
    /\ kin \in [Kin -> {"none", "alive", "gone"}]
    /\ victims # {} => watch = "fired"
    /\ watch = "fired" => leader \in {"zombie", "reaped"} /\ kin["group"] # "alive"
    /\ runReply.status = "completed" =>
         leader = "reaped" /\ watch = "dismissed" /\ outcome = "ok"

\* Nothing has been answered or killed before the command is started.
LEMMA HonestInit == CallersInit /\ RunInit => HonestInv
BY DEF RunInit, HonestInv, NoReply, Kin

\* The end of the context, at any time before the watcher is dismissed: the
\* group is killed and the watcher has fired, or there was nothing to kill.
LEMMA HonestKillGroup == HonestInv /\ KillGroup => HonestInv'
<1> SUFFICES ASSUME HonestInv, KillGroup PROVE HonestInv'
  OBVIOUS
<1> USE DEF HonestInv, KillGroup
<1>1. leader' \in {"zombie", "reaped"} /\ kin' \in [Kin -> {"none", "alive", "gone"}]
  BY DEF Kin
<1>2. kin'["group"] # "alive"
  BY DEF Kin
<1>3. victims' # {} => watch' = "fired"
  <2>1. CASE leader = "reaped" /\ kin["group"] # "alive"
    <3>1. victims' = {}
      BY <2>1
    <3> QED BY <3>1
  <2>2. CASE ~(leader = "reaped" /\ kin["group"] # "alive")
    BY <2>2
  <2> QED BY <2>1, <2>2
<1>4. runReply'.status # "completed"
  OBVIOUS
<1> QED BY <1>1, <1>2, <1>3, <1>4

\* Every step of the processes, the copies, the context and the call.
LEMMA HonestNext == HonestInv /\ [RunNext]_<<callers, runVars>> => HonestInv'
<1> SUFFICES ASSUME HonestInv, [RunNext]_<<callers, runVars>> PROVE HonestInv'
  OBVIOUS
<1>1. ASSUME UNCHANGED RunStateVars PROVE HonestInv'
  BY <1>1 DEF HonestInv, RunStateVars, processVars, watchVars
<1>2. ASSUME NEW c \in Callers, Start(c) PROVE HonestInv'
  BY <1>2 DEF Start, HonestInv, watchVars, NoReply
<1>3. ASSUME NEW c \in Callers, RunReturns(c) PROVE HonestInv'
  BY <1>3 DEF RunReturns, RunStatus, HonestInv, processVars, watchVars
<1>4. CASE StartFails
  BY <1>4 DEF StartFails, HonestInv, processVars, watchVars
<1>5. CASE LeaderEnds
  BY <1>5 DEF LeaderEnds, OnlyProcesses, HonestInv, watchVars
<1>6. CASE ContextEnds
  BY <1>6 DEF ContextEnds, HonestInv, processVars
<1>7. CASE KillGroup
  BY <1>7, HonestKillGroup
<1>8. CASE ReapLeader
  BY <1>8 DEF ReapLeader, OnlyProcesses, HonestInv, watchVars
<1>9. CASE Dismiss
  BY <1>9 DEF Dismiss, HonestInv, processVars
<1>10. ASSUME NEW k \in Kin, Fork(k) \/ KinEnds(k) PROVE HonestInv'
  BY <1>10 DEF Fork, KinEnds, OnlyProcesses, HonestInv, watchVars, Kin
<1>11. ASSUME NEW s \in Streams,
              \/ LockLimiter(s) \/ KeepShare(s)
              \/ \E n \in 1..MaxSent : WriteOutput(s, n) \/ ReadPipe(s, n)
       PROVE  HonestInv'
  <2>1. UNCHANGED RunStateVars
    BY <1>11 DEF LockLimiter, KeepShare, WriteOutput, ReadPipe, OnlyLimiter,
                 RunStateVars
  <2> QED BY <2>1, <1>1
<1>12. CASE UNCHANGED <<callers, runVars>>
  BY <1>12, <1>1 DEF runVars, RunStateVars
<1> QED BY <1>2, <1>3, <1>4, <1>5, <1>6, <1>7, <1>8, <1>9, <1>10, <1>11, <1>12
        DEF RunNext

\* exec.go: a run that is answered "completed" ended well and had nothing
\* killed, whatever its context did meanwhile; once the group was killed
\* neither the command nor a descendant in the group is alive.
THEOREM OutcomeIsHonestHolds == RunSpec => []OutcomeIsHonest
<1>1. HonestInv => OutcomeIsHonest
  BY DEF HonestInv, OutcomeIsHonest
<1> QED BY HonestInit, HonestNext, <1>1, PTL DEF RunSpec

-----------------------------------------------------------------------------
(* The output.                                                             *)

\* Bytes of a stream that were read and written, and of those the ones kept
Copied(s) == sent[s] - pipe[s] - chunk[s]
Size(s)   == Cardinality(buffer[s])

\* The holder of the limiter's lock has its share of what remained; once
\* anything was lost nothing remains, so that no later chunk is kept.
LimiterInv ==
    /\ limiterLock = "free" => share = 0
    /\ limiterLock # "free" =>
         /\ chunk[limiterLock] > 0
         /\ share <= remaining /\ share <= chunk[limiterLock]
         /\ share = remaining \/ share = chunk[limiterLock]
    /\ Size("stdout") + Size("stderr") + remaining = MaxOutputBytes
    /\ truncatedFlag => remaining = 0 /\ \E s \in Streams : Size(s) < Copied(s)

BufferInv(s) ==
    /\ pipe[s] + chunk[s] <= sent[s]
    /\ Size(s) \in Nat /\ buffer[s] = 1..Size(s)
    /\ Size(s) <= Copied(s)
    /\ ~truncatedFlag => Size(s) = Copied(s)

\* After the answer no process is left that could write.
AnsweredInv ==
    runReply # NoReply /\ leader # "none" =>
      /\ leader = "reaped" /\ (\A k \in Kin : kin[k] # "alive")
      /\ \A s \in Streams : pipe[s] = 0 /\ chunk[s] = 0
      /\ runReply.truncated = truncatedFlag

OutputInv ==
    /\ {sent, pipe, chunk} \subseteq [Streams -> Nat]
    /\ {share, remaining} \subseteq Nat
    /\ limiterLock \in Streams \cup {"free"}
    /\ truncatedFlag \in BOOLEAN
    /\ DOMAIN buffer = Streams /\ buffer = [s \in Streams |-> buffer[s]]
    /\ kin \in [Kin -> {"none", "alive", "gone"}]
    /\ LimiterInv
    /\ \A s \in Streams : BufferInv(s)
    /\ AnsweredInv

\* At first no output is recorded.
LEMMA OutputInit == CallersInit /\ RunInit => OutputInv
<1> SUFFICES ASSUME RunInit PROVE OutputInv
  OBVIOUS
<1> USE DEF RunInit
<1>1. MaxOutputBytes \in Nat
  BY DirectRunAssumption
<1>2. \A s \in Streams : Size(s) = 0 /\ buffer[s] = 1..0
  BY FS_EmptySet DEF Size
<1>3. LimiterInv
  BY <1>1, <1>2 DEF LimiterInv, Streams
<1>4. ASSUME NEW s \in Streams PROVE BufferInv(s)
  BY <1>2 DEF BufferInv, Copied
<1>5. AnsweredInv
  BY DEF AnsweredInv
<1>6. /\ {sent, pipe, chunk} \subseteq [Streams -> Nat] /\ {share, remaining} \subseteq Nat
  <2>1. /\ sent \in [Streams -> Nat] /\ pipe \in [Streams -> Nat]
        /\ chunk \in [Streams -> Nat]
    OBVIOUS
  <2>2. share \in Nat /\ remaining \in Nat
    BY <1>1
  <2> QED BY <2>1, <2>2
<1>7. limiterLock \in Streams \cup {"free"} /\ truncatedFlag \in BOOLEAN
  OBVIOUS
<1>8. DOMAIN buffer = Streams /\ buffer = [s \in Streams |-> buffer[s]]
  OBVIOUS
<1>9. kin \in [Kin -> {"none", "alive", "gone"}]
  OBVIOUS
<1> HIDE DEF RunInit
<1> QED BY <1>3, <1>4, <1>5, <1>6, <1>8, <1>9, <1>7 DEF OutputInv

\* The steps of the processes and of Cmd.Wait
LEMMA OutputProcesses ==
  ASSUME OutputInv, UNCHANGED <<streamVars, limiterVars>>,
         kin' \in [Kin -> {"none", "alive", "gone"}],
         AnsweredInv'
  PROVE  OutputInv'
<1> USE DEF streamVars, limiterVars
<1>1. \A s \in Streams : Size(s)' = Size(s) /\ Copied(s)' = Copied(s)
  BY DEF Size, Copied
<1>2. LimiterInv'
  BY <1>1 DEF OutputInv, LimiterInv, Streams
<1>3. ASSUME NEW s \in Streams PROVE BufferInv(s)'
  BY <1>1, BufferInv(s) DEF OutputInv, BufferInv
<1> QED BY <1>2, <1>3 DEF OutputInv

\* Bytes are written to a pipe or read from it.
LEMMA OutputMoves ==
  ASSUME OutputInv, NEW s \in Streams, NEW n \in 1..MaxSent,
         WriteOutput(s, n) \/ ReadPipe(s, n)
  PROVE  OutputInv'
<1> USE DEF WriteOutput, ReadPipe, OnlyLimiter, processVars, watchVars, limiterVars
<1>1. n \in Nat /\ n > 0
  BY DirectRunAssumption
<1>2. BufferInv(s) /\ {sent, pipe, chunk} \subseteq [Streams -> Nat]
  BY DEF OutputInv
<1>3. {sent', pipe', chunk'} \subseteq [Streams -> Nat]
  BY <1>1, <1>2
<1>4. \A r \in Streams : Size(r)' = Size(r) /\ Copied(r)' = Copied(r)
  BY <1>1, <1>2 DEF Size, Copied
<1>5. ASSUME NEW r \in Streams PROVE BufferInv(r)'
  <2>1. BufferInv(r)
    BY DEF OutputInv
  <2>2. pipe[r] + chunk[r] <= sent[r]
        /\ pipe[r] \in Nat /\ chunk[r] \in Nat /\ sent[r] \in Nat
    BY <1>2, <2>1 DEF BufferInv
  <2>3. pipe'[r] + chunk'[r] <= sent'[r]
    <3>1. CASE r # s
      BY <1>1, <1>2, <2>2, <3>1
    <3>2. CASE r = s /\ WriteOutput(s, n)
      <4>1. pipe'[r] = pipe[r] + n /\ chunk'[r] = chunk[r] /\ sent'[r] = sent[r] + n
        BY <1>2, <3>2
      <4> QED BY <1>1, <2>2, <4>1
    <3>3. CASE r = s /\ ReadPipe(s, n)
      <4>1. /\ pipe'[r] = pipe[r] - n /\ chunk'[r] = n /\ sent'[r] = sent[r]
            /\ chunk[r] = 0
        BY <1>2, <3>3
      <4> QED BY <1>1, <2>2, <4>1
    <3> QED BY <3>1, <3>2, <3>3
  <2>4. buffer' = buffer /\ truncatedFlag' = truncatedFlag
    OBVIOUS
  <2> HIDE DEF WriteOutput, ReadPipe
  <2> QED BY <1>4, <2>1, <2>3, <2>4 DEF BufferInv
<1>6. LimiterInv'
  <2>1. limiterLock # "free" => chunk'[limiterLock] = chunk[limiterLock]
    BY <1>1, <1>2 DEF OutputInv, LimiterInv
  <2> QED BY <1>4, <2>1 DEF OutputInv, LimiterInv, Streams
<1>7. AnsweredInv'
  <2>1. ~(runReply # NoReply /\ leader # "none")
    BY <1>1 DEF OutputInv, AnsweredInv, Held
  <2> QED BY <2>1 DEF AnsweredInv
<1> QED BY <1>3, <1>5, <1>6, <1>7 DEF OutputInv

\* Taking the lock of the output keeps what the output relies on.
LEMMA OutputLock ==
  ASSUME OutputInv, NEW s \in Streams, LockLimiter(s)
  PROVE  OutputInv'
<1> USE DEF LockLimiter, OnlyLimiter, processVars, watchVars
<1>1. {sent, pipe, chunk} \subseteq [Streams -> Nat] /\ {share, remaining} \subseteq Nat
  BY DEF OutputInv
<1>2. \A r \in Streams : Size(r)' = Size(r) /\ Copied(r)' = Copied(r)
  BY DEF Size, Copied
<1>3. share' \in Nat /\ share' <= remaining /\ share' <= chunk[s]
      /\ (share' = remaining \/ share' = chunk[s])
  BY <1>1
<1>4. LimiterInv'
  BY <1>2, <1>3 DEF OutputInv, LimiterInv, Streams
<1>5. ASSUME NEW r \in Streams PROVE BufferInv(r)'
  BY <1>2, BufferInv(r) DEF OutputInv, BufferInv
<1>6. AnsweredInv'
  BY DEF OutputInv, AnsweredInv
<1> QED BY <1>1, <1>3, <1>4, <1>5, <1>6 DEF OutputInv

\* Of a chunk a prefix is kept, which continues what was kept before unless
\* nothing remained.
LEMMA OutputKeep ==
  ASSUME OutputInv, NEW s \in Streams, KeepShare(s)
  PROVE  OutputInv'
<1> USE DEF OnlyLimiter, processVars, watchVars
<1>1. /\ {sent, pipe, chunk} \subseteq [Streams -> Nat] /\ {share, remaining} \subseteq Nat
      /\ truncatedFlag \in BOOLEAN /\ limiterLock = s /\ s # "free"
      /\ buffer = [r \in Streams |-> buffer[r]]
  BY DEF OutputInv, KeepShare, Streams
<1>2. BufferInv(s) /\ LimiterInv
  BY DEF OutputInv
<1>3. /\ chunk[s] > 0 /\ share <= remaining /\ share <= chunk[s]
      /\ share = remaining \/ share = chunk[s]
  BY <1>1, <1>2 DEF LimiterInv
<1>4. /\ buffer' = [buffer EXCEPT ![s] = @ \cup (Copied(s) + 1)..(Copied(s) + share)]
      /\ remaining' = remaining - share
      /\ chunk' = [chunk EXCEPT ![s] = 0]
      /\ limiterLock' = "free" /\ share' = 0
      /\ UNCHANGED <<sent, pipe, leader, kin, runReply>>
  <2>1. Copied(s) + 1 = sent[s] - pipe[s] - chunk[s] + 1
        /\ Copied(s) \in Int /\ share \in Nat
    BY <1>1 DEF Copied
  <2>2. Copied(s) + 1 + share - 1 = Copied(s) + share
    BY <2>1
  <2>3. (Copied(s) + 1)..(Copied(s) + 1 + share - 1) = (Copied(s) + 1)..(Copied(s) + share)
    BY <2>2
  <2>4. buffer' = [buffer EXCEPT ![s] =
                     @ \cup (Copied(s) + 1)..(Copied(s) + 1 + share - 1)]
    BY <2>1 DEF KeepShare
  <2> QED BY <1>1, <1>3, <2>3, <2>4 DEF KeepShare
<1>5. truncatedFlag' <=> truncatedFlag \/ share < chunk[s]
  BY <1>1 DEF KeepShare
<1>6. Copied(s)' = Copied(s) + chunk[s] /\ Copied(s) \in Int
  BY <1>1, <1>4 DEF Copied
<1>7. \A r \in Streams \ {s} : buffer'[r] = buffer[r] /\ Copied(r)' = Copied(r)
                               /\ Size(r)' = Size(r)
  BY <1>1, <1>4 DEF Copied, Size
<1>8. buffer'[s] = 1..(Size(s) + share)
  <2>1. buffer'[s] = 1..Size(s) \cup (Copied(s) + 1)..(Copied(s) + share)
    BY <1>1, <1>2, <1>4 DEF BufferInv
  <2>2. CASE truncatedFlag
    <3>1. share = 0
      BY <1>1, <1>2, <1>3, <2>2 DEF LimiterInv
    <3> QED BY <1>2, <1>6, <2>1, <3>1 DEF BufferInv
  <2>3. CASE ~truncatedFlag
    BY <1>1, <1>2, <2>1, <2>3 DEF BufferInv
  <2> QED BY <2>2, <2>3
<1>9. Size(s)' = Size(s) + share /\ Size(s) \in Nat
  <2>1. Size(s) \in Nat /\ Size(s) + share \in Nat
    BY <1>1, <1>2 DEF BufferInv
  <2>2. Cardinality(1..(Size(s) + share)) = Size(s) + share
    BY <2>1, FS_Interval
  <2> QED BY <1>8, <2>1, <2>2 DEF Size
<1>10. ASSUME NEW r \in Streams PROVE BufferInv(r)'
  <2>1. CASE r = s
    BY <1>1, <1>2, <1>3, <1>4, <1>6, <1>8, <1>9, <1>5, <2>1 DEF BufferInv
  <2>2. CASE r # s
    <3>1. BufferInv(r)
      BY DEF OutputInv
    <3> QED BY <1>1, <1>4, <1>7, <1>5, <2>2, <3>1 DEF BufferInv
  <2> QED BY <2>1, <2>2
<1>11. LimiterInv'
  <2>1. Size("stdout")' + Size("stderr")' + remaining' = MaxOutputBytes
    <3>1. \A r \in Streams : Size(r) \in Nat
      BY DEF OutputInv, BufferInv
    <3> QED BY <1>1, <1>2, <1>4, <1>7, <1>9, <3>1 DEF LimiterInv, Streams
  <2>2. ASSUME truncatedFlag' PROVE remaining' = 0
    BY <1>1, <1>2, <1>3, <1>4, <1>5, <2>2 DEF LimiterInv
  <2>3. ASSUME truncatedFlag' PROVE \E r \in Streams : Size(r)' < Copied(r)'
    <3>1. CASE share < chunk[s]
      BY <1>1, <1>2, <1>6, <1>9, <3>1 DEF BufferInv
    <3>2. CASE truncatedFlag /\ ~(share < chunk[s])
      <4>1. PICK r \in Streams : Size(r) < Copied(r)
        BY <1>2, <3>2 DEF LimiterInv
      <4> QED BY <1>1, <1>3, <1>6, <1>7, <1>9, <3>2, <4>1
    <3> QED BY <1>5, <2>3, <3>1, <3>2
  <2> QED BY <1>4, <2>1, <2>2, <2>3 DEF LimiterInv
<1>12. AnsweredInv'
  <2>1. ~(runReply # NoReply /\ leader # "none")
    BY <1>1, <1>3 DEF OutputInv, AnsweredInv
  <2> QED BY <1>4, <2>1 DEF AnsweredInv
<1>13. truncatedFlag' \in BOOLEAN
  BY DEF KeepShare
<1>14. /\ {sent', pipe', chunk'} \subseteq [Streams -> Nat]
       /\ {share', remaining'} \subseteq Nat
  BY <1>1, <1>3, <1>4
<1>15. DOMAIN buffer' = Streams /\ buffer' = [r \in Streams |-> buffer'[r]]
  BY <1>1, <1>4
<1>16. limiterLock' \in Streams \cup {"free"} /\ kin' \in [Kin -> {"none", "alive", "gone"}]
  BY <1>4 DEF OutputInv
<1> QED BY <1>10, <1>11, <1>12, <1>13, <1>14, <1>15, <1>16 DEF OutputInv

\* Every step keeps what the output relies on.
LEMMA OutputNext == OutputInv /\ [RunNext]_<<callers, runVars>> => OutputInv'
<1> SUFFICES ASSUME OutputInv, [RunNext]_<<callers, runVars>> PROVE OutputInv'
  OBVIOUS
<1> USE DEF OnlyProcesses, processVars, watchVars
<1>1. kin \in [Kin -> {"none", "alive", "gone"}] /\ AnsweredInv
  BY DEF OutputInv
<1>2. ASSUME NEW c \in Callers, Start(c) \/ RunReturns(c) PROVE OutputInv'
  <2>1. AnsweredInv'
    <3>1. CASE Start(c)
      <4>1. ~(runReply' # NoReply)
        BY <3>1 DEF Start
      <4> QED BY <4>1 DEF AnsweredInv
    <3>2. CASE RunReturns(c)
      <4>1. /\ leader' = "reaped" /\ UNCHANGED <<kin, pipe, chunk, truncatedFlag>>
            /\ runReply' = [status |-> RunStatus, truncated |-> truncatedFlag]
            /\ \A k \in Kin : kin[k] # "alive"
            /\ \A s \in Streams : pipe[s] = 0 /\ chunk[s] = 0
        BY <3>2 DEF RunReturns, Drained, Held, streamVars, limiterVars, Streams
      <4>2. runReply'.truncated = truncatedFlag'
        BY <4>1
      <4> QED BY <4>1, <4>2 DEF AnsweredInv
    <3> QED BY <1>2, <3>1, <3>2
  <2> QED BY <1>1, <1>2, <2>1, OutputProcesses DEF Start, RunReturns
<1>3. CASE StartFails \/ LeaderEnds \/ ContextEnds
  BY <1>1, <1>3, OutputProcesses
     DEF StartFails, LeaderEnds, ContextEnds, AnsweredInv, streamVars, limiterVars
<1>4. CASE KillGroup \/ ReapLeader \/ Dismiss
  BY <1>1, <1>4, OutputProcesses
     DEF KillGroup, ReapLeader, Dismiss, AnsweredInv, streamVars, limiterVars, Kin
<1>5. ASSUME NEW k \in Kin, Fork(k) \/ KinEnds(k) PROVE OutputInv'
  BY <1>1, <1>5, OutputProcesses
     DEF Fork, KinEnds, AnsweredInv, streamVars, limiterVars
<1>6. ASSUME NEW s \in Streams,
             \/ LockLimiter(s) \/ KeepShare(s)
             \/ \E n \in 1..MaxSent : WriteOutput(s, n) \/ ReadPipe(s, n)
      PROVE  OutputInv'
  BY <1>6, OutputLock, OutputKeep, OutputMoves
<1>7. CASE UNCHANGED <<callers, runVars>>
  BY <1>1, <1>7, OutputProcesses DEF runVars, AnsweredInv, streamVars, limiterVars
<1> QED BY <1>2, <1>3, <1>4, <1>5, <1>6, <1>7 DEF RunNext

\* exec.go (limitedOutputWriter): of each stream a prefix is kept, together no more
\* than the budget and all of it before anything is lost, and the answer says
\* whether something was.
THEOREM OutputIsFaithfulHolds == RunSpec => []OutputIsFaithful
<1>1. OutputInv => OutputIsFaithful
  <2> SUFFICES ASSUME OutputInv PROVE OutputIsFaithful
    OBVIOUS
  <2>1. \A s \in Streams : /\ BufferInv(s) /\ sent[s] \in Nat /\ pipe[s] \in Nat
                           /\ chunk[s] \in Nat
    BY DEF OutputInv
  <2>2. Kept = Size("stdout") + Size("stderr") /\ {share, remaining} \subseteq Nat
    BY DEF Kept, Size, OutputInv
  <2>3. \A s \in Streams : buffer[s] = 1..Cardinality(buffer[s])
    BY <2>1 DEF BufferInv, Size
  <2>4. Kept \in Nat /\ Kept + remaining = MaxOutputBytes
        /\ (truncatedFlag => remaining = 0)
    BY <2>1, <2>2 DEF OutputInv, LimiterInv, BufferInv, Streams
  <2>5. Kept <= MaxOutputBytes /\ (truncatedFlag => Kept + share >= MaxOutputBytes)
    BY <2>2, <2>4
  <2>6. ASSUME leader # "none", runReply # NoReply
        PROVE  runReply.truncated <=> \E s \in Streams : buffer[s] # 1..sent[s]
    <3>1. runReply.truncated = truncatedFlag /\ \A s \in Streams : Copied(s) = sent[s]
      BY <2>1, <2>6 DEF OutputInv, AnsweredInv, Copied
    <3>2. CASE truncatedFlag
      <4>1. PICK s \in Streams : Size(s) < sent[s]
        BY <3>1, <3>2 DEF OutputInv, LimiterInv
      <4>2. sent[s] \in 1..sent[s] /\ sent[s] \notin buffer[s]
        BY <2>1, <4>1 DEF BufferInv
      <4> QED BY <3>1, <3>2, <4>2
    <3>3. CASE ~truncatedFlag
      BY <2>1, <3>1, <3>3 DEF BufferInv
    <3> QED BY <3>2, <3>3
  <2> QED BY <2>3, <2>5, <2>6 DEF OutputIsFaithful
<1> QED BY OutputInit, OutputNext, <1>1, PTL DEF RunSpec

-----------------------------------------------------------------------------
(* Types.                                                                  *)

\* What neither of the invariants above says of the types.
RestInv ==
    /\ outcome \in {"none", "ok", "error", "killed"}
    /\ context \in {"open", "deadline", "canceled"}
    /\ victims \subseteq {"leader", "group"}
    /\ \A s \in Streams : sent[s] <= MaxSent
    /\ runReply.status \in {"none", "completed", "timed_out", "cancelled", "failed"}
    /\ runReply.truncated \in BOOLEAN

\* Every step keeps it.
LEMMA RestNext ==
  ASSUME OutputInv, RestInv, [RunNext]_<<callers, runVars>>
  PROVE  RestInv'
<1> USE DEF OnlyProcesses, OnlyLimiter, processVars, watchVars, streamVars, limiterVars
<1>1. truncatedFlag \in BOOLEAN /\ sent \in [Streams -> Nat]
  BY DEF OutputInv
<1>2. ASSUME NEW c \in Callers, Start(c) PROVE RestInv'
  BY <1>2 DEF Start, RestInv
<1>3. ASSUME NEW c \in Callers, RunReturns(c) PROVE RestInv'
  <2>1. /\ runReply' = [status |-> RunStatus, truncated |-> truncatedFlag]
        /\ UNCHANGED <<outcome, context, victims, sent>>
    BY <1>3 DEF RunReturns
  <2>2. RunStatus \in {"completed", "timed_out", "cancelled", "failed"}
    BY DEF RunStatus
  <2>3. runReply'.status = RunStatus /\ runReply'.truncated = truncatedFlag
    BY <2>1
  <2> QED BY <1>1, <2>1, <2>2, <2>3 DEF RestInv
<1>4. CASE StartFails
  <2>1. PICK status \in {"failed", "timed_out", "cancelled"} :
          runReply' = [status |-> status, truncated |-> FALSE]
    BY <1>4 DEF StartFails
  <2>2. runReply'.status = status /\ runReply'.truncated = FALSE
    BY <2>1
  <2> QED BY <1>4, <2>2 DEF StartFails, RestInv
<1>5. CASE LeaderEnds \/ ContextEnds \/ KillGroup \/ ReapLeader \/ Dismiss
  BY <1>5 DEF LeaderEnds, ContextEnds, KillGroup, ReapLeader, Dismiss, RestInv
<1>6. ASSUME NEW k \in Kin, Fork(k) \/ KinEnds(k) PROVE RestInv'
  BY <1>6 DEF Fork, KinEnds, RestInv
<1>7. ASSUME NEW s \in Streams, LockLimiter(s) \/ KeepShare(s) PROVE RestInv'
  BY <1>7 DEF LockLimiter, KeepShare, RestInv
<1>8. ASSUME NEW s \in Streams, NEW n \in 1..MaxSent, ReadPipe(s, n) PROVE RestInv'
  BY <1>8 DEF ReadPipe, RestInv
<1>9. ASSUME NEW s \in Streams, NEW n \in 1..MaxSent, WriteOutput(s, n)
      PROVE  RestInv'
  <2>1. /\ sent[s] + n <= MaxSent /\ sent' = [sent EXCEPT ![s] = @ + n]
        /\ UNCHANGED <<outcome, context, victims, runReply>>
    BY <1>9 DEF WriteOutput
  <2>2. \A r \in Streams : sent'[r] <= MaxSent
    BY <1>1, <2>1 DEF RestInv
  <2> QED BY <2>1, <2>2 DEF RestInv
<1>10. CASE UNCHANGED <<callers, runVars>>
  BY <1>10 DEF runVars, RestInv
<1> QED BY <1>2, <1>3, <1>4, <1>5, <1>6, <1>7, <1>8, <1>9, <1>10 DEF RunNext

\* A run, its processes and its buffers are well typed in every reachable state.
\* In particular no more is read, kept or given away than was written or is left.
THEOREM RunTypeCorrect == RunSpec => []RunTypeOK
<1>1. RunInit => RestInv
  <2> SUFFICES ASSUME RunInit PROVE RestInv
    OBVIOUS
  <2>1. \A s \in Streams : sent[s] <= MaxSent
    BY DirectRunAssumption DEF RunInit
  <2>2. runReply.status = "none" /\ runReply.truncated = FALSE
    BY DEF RunInit, NoReply
  <2> QED BY <2>1, <2>2 DEF RunInit, RestInv
<1>2. HonestInv /\ OutputInv /\ RestInv => RunTypeOK
  <2> SUFFICES ASSUME HonestInv, OutputInv, RestInv PROVE RunTypeOK
    OBVIOUS
  <2>1. /\ MaxSent \in Nat /\ MaxOutputBytes \in Nat
        /\ share \in Nat /\ remaining \in Nat
        /\ {sent, pipe, chunk} \subseteq [Streams -> Nat]
        /\ buffer = [s \in Streams |-> buffer[s]]
    BY DirectRunAssumption DEF OutputInv
  <2>2. ASSUME NEW s \in Streams
        PROVE  /\ sent[s] \in 0..MaxSent /\ pipe[s] \in 0..MaxSent
               /\ chunk[s] \in 0..MaxSent /\ buffer[s] \in SUBSET (1..MaxSent)
               /\ Size(s) \in Nat
    <3>1. sent[s] \in Nat /\ pipe[s] \in Nat /\ chunk[s] \in Nat
      BY <2>1
    <3>2. /\ sent[s] <= MaxSent /\ pipe[s] + chunk[s] <= sent[s]
          /\ Size(s) \in Nat /\ buffer[s] = 1..Size(s)
          /\ Size(s) <= sent[s] - pipe[s] - chunk[s]
      BY DEF OutputInv, RestInv, BufferInv, Copied
    <3>3. Size(s) <= MaxSent
      BY <2>1, <3>1, <3>2
    <3>4. buffer[s] \in SUBSET (1..MaxSent)
      BY <2>1, <3>2, <3>3
    <3> QED BY <2>1, <3>1, <3>2, <3>4
  <2>3. sent \in [Streams -> 0..MaxSent] /\ pipe \in [Streams -> 0..MaxSent]
        /\ chunk \in [Streams -> 0..MaxSent]
    BY <2>1, <2>2
  <2>4. buffer \in [Streams -> SUBSET (1..MaxSent)]
    BY <2>1, <2>2
  <2>5. remaining \in 0..MaxOutputBytes
    <3>1. Size("stdout") \in Nat /\ Size("stderr") \in Nat
      BY <2>2 DEF Streams
    <3>2. Size("stdout") + Size("stderr") + remaining = MaxOutputBytes
      BY DEF OutputInv, LimiterInv
    <3> QED BY <2>1, <3>1, <3>2
  <2>6. share \in 0..MaxOutputBytes
    <3>1. share <= remaining
      BY <2>1 DEF OutputInv, LimiterInv
    <3> QED BY <2>1, <2>5, <3>1
  <2> QED BY <2>3, <2>4, <2>5, <2>6 DEF RunTypeOK, HonestInv, OutputInv, RestInv
<1> QED BY <1>1, <1>2, HonestInit, HonestNext, OutputInit, OutputNext, RestNext, PTL
        DEF RunSpec

-----------------------------------------------------------------------------
(* The deadlines that runs and other direct calls are given.               *)

\* Arithmetic on int64 is exact where the result is an int64.
LEMMA WrappedIsExact ==
  ASSUME NEW x \in Int64
  PROVE  Wrapped(x) = x
<1>1. x + 9223372036854775808 \in 0..(18446744073709551616 - 1)
  BY SMT DEF Int64, MaxInt64
<1>2. \A y \in 0..(18446744073709551616 - 1) : y % 18446744073709551616 = y
  BY SMT
<1> QED BY SMT, <1>1, <1>2 DEF Wrapped, Int64, MaxInt64

\* durationFromMilliseconds: a number of milliseconds that is accepted becomes
\* exactly that many nanoseconds; the limit of the check is not one too high.
THEOREM DurationNeverWraps ==
  ASSUME NEW ms \in Int64, Accepted(ms)
  PROVE  /\ DurationFromMilliseconds(ms) = ms * Millisecond
         /\ DurationFromMilliseconds(ms) \in Int
         /\ DurationFromMilliseconds(ms) >= 0
         /\ DurationFromMilliseconds(ms) <= MaxInt64
<1>1. MaxInt64 \div Millisecond = 9223372036854
  BY SMT DEF MaxInt64, Millisecond
<1>2. ms \in Int
  BY SMT DEF Int64, MaxInt64
<1>3. ms >= 0 /\ ms <= 9223372036854
  BY SMT, <1>1, <1>2 DEF Accepted
<1>4. ms * Millisecond \in Int64
  BY SMT, <1>2, <1>3 DEF Int64, MaxInt64, Millisecond
<1>5. ms * Millisecond >= 0 /\ ms * Millisecond <= MaxInt64
  BY SMT, <1>2, <1>3 DEF MaxInt64, Millisecond
<1>6. DurationFromMilliseconds(ms) = ms * Millisecond
  BY <1>4, WrappedIsExact DEF DurationFromMilliseconds, Multiplied
<1>7. ms * Millisecond \in Int
  BY SMT, <1>2 DEF Millisecond
<1> QED BY <1>5, <1>6, <1>7

\* And not one too low: every number of milliseconds that is refused is
\* negative or too large to be a duration.
THEOREM RefusalIsNeeded ==
  ASSUME NEW ms \in Int64, ~Accepted(ms)
  PROVE  ms * Millisecond < 0 \/ ms * Millisecond > MaxInt64
<1>1. MaxInt64 \div Millisecond = 9223372036854
  BY SMT DEF MaxInt64, Millisecond
<1>2. ms \in Int
  BY SMT DEF Int64, MaxInt64
<1>3. ms < 0 \/ ms > 9223372036854
  BY SMT, <1>1, <1>2 DEF Accepted
<1> QED BY SMT, <1>2, <1>3 DEF MaxInt64, Millisecond

\* directRunTimeout and jobWaitTimeout: what is accepted lasts, and never
\* longer than the maximum.
THEOREM TimeoutsAreBounded ==
  ASSUME NEW ms \in Int64, NEW max \in {MaxDirectCall, MaxJobWait},
         AcceptedUpTo(ms, max)
  PROVE  /\ Bounded(ms, max) \in 1..max
         /\ ms # 0 => Bounded(ms, max) = ms * Millisecond
<1>1. /\ DurationFromMilliseconds(ms) = ms * Millisecond
      /\ DurationFromMilliseconds(ms) \in Int
      /\ DurationFromMilliseconds(ms) >= 0
  BY SMT, DurationNeverWraps DEF AcceptedUpTo
<1>2. max \in Nat /\ max > 0
  BY SMT DEF MaxDirectCall, MaxJobWait, Second, Millisecond
<1>3. DurationFromMilliseconds(ms) <= max
  BY SMT, <1>1, <1>2 DEF AcceptedUpTo
<1>4. ms # 0 => ms * Millisecond # 0
  BY SMT DEF Int64, Millisecond
<1> QED BY SMT, <1>1, <1>2, <1>3, <1>4 DEF Bounded

\* directCallContext, run and jobWait: the context of a run ends, and a job.wait
\* stops waiting, within ninety (fifteen) seconds and early enough that ten
\* seconds are left to deliver the answer, whenever the gate let the call in.
THEOREM DeadlinesLeaveReserve ==
  ASSUME NEW now \in Int, NEW callerDeadline \in Int,
         NEW start \in Int, NEW ms \in Int64
  PROVE  LET call == DirectCallDeadline(now, callerDeadline) IN
         /\ AcceptedUpTo(ms, MaxDirectCall) =>
              /\ RunDeadline(start, ms, call) <= now + MaxDirectCall
              /\ RunDeadline(start, ms, call) + ResponseDeliveryReserve
                   <= callerDeadline
         /\ AcceptedUpTo(ms, MaxJobWait) =>
              /\ WaitBudget(start, ms, call) <= MaxJobWait
              /\ start + WaitBudget(start, ms, call) + ResponseDeliveryReserve
                   <= callerDeadline
<1> DEFINE call == DirectCallDeadline(now, callerDeadline)
<1>1. /\ call \in Int
      /\ call <= now + MaxDirectCall
      /\ call + ResponseDeliveryReserve <= callerDeadline
  BY SMT DEF DirectCallDeadline, MaxDirectCall, ResponseDeliveryReserve, Second,
         Millisecond
<1> HIDE DEF call
<1>2. AcceptedUpTo(ms, MaxDirectCall) =>
        /\ RunDeadline(start, ms, call) <= now + MaxDirectCall
        /\ RunDeadline(start, ms, call) + ResponseDeliveryReserve <= callerDeadline
  <2>1. SUFFICES ASSUME AcceptedUpTo(ms, MaxDirectCall)
                 PROVE  /\ RunDeadline(start, ms, call) <= call
                        /\ RunDeadline(start, ms, call) \in Int
    BY SMT, <1>1 DEF MaxDirectCall, ResponseDeliveryReserve, Second, Millisecond
  <2>2. DirectRunTimeout(ms) \in 1..MaxDirectCall
    BY SMT, <2>1, TimeoutsAreBounded DEF DirectRunTimeout
  <2> QED BY SMT, <1>1, <2>2 DEF RunDeadline
<1>3. AcceptedUpTo(ms, MaxJobWait) =>
        /\ WaitBudget(start, ms, call) <= MaxJobWait
        /\ start + WaitBudget(start, ms, call) + ResponseDeliveryReserve
             <= callerDeadline
  <2>1. SUFFICES ASSUME AcceptedUpTo(ms, MaxJobWait)
                 PROVE  /\ WaitBudget(start, ms, call) <= MaxJobWait
                        /\ start + WaitBudget(start, ms, call) <= call
                        /\ WaitBudget(start, ms, call) \in Int
    BY SMT, <1>1 DEF MaxJobWait, ResponseDeliveryReserve, Second, Millisecond
  <2>2. JobWaitTimeout(ms) \in 1..MaxJobWait
    BY SMT, <2>1, TimeoutsAreBounded DEF JobWaitTimeout
  <2>3. MaxJobWait \in Int
    BY SMT DEF MaxJobWait, Second, Millisecond
  <2> QED BY SMT, <1>1, <2>2, <2>3 DEF WaitBudget
<1> QED BY SMT, <1>2, <1>3 DEF call

-----------------------------------------------------------------------------
(* The composition.                                                        *)

\* The component in focus behaves as its own specification says.
LEMMA FocusIsFixed == Spec => \/ [](focus = "terminals") \/ [](focus = "jobs")
                              \/ [](focus = "artifacts") \/ [](focus = "run")
<1>1. Init => focus = "terminals" \/ focus = "jobs" \/ focus = "artifacts" \/ focus = "run"
  BY DEF Init
<1>2. /\ focus = "terminals" /\ [Next]_vars => (focus = "terminals")'
      /\ focus = "jobs" /\ [Next]_vars => (focus = "jobs")'
      /\ focus = "artifacts" /\ [Next]_vars => (focus = "artifacts")'
      /\ focus = "run" /\ [Next]_vars => (focus = "run")'
  BY DEF Next, vars
<1> QED BY <1>1, <1>2, PTL DEF Spec

\* Its specification holds for the component in focus.
LEMMA FocusBehaves ==
    /\ Spec /\ [](focus = "terminals") => TerminalsSpec
    /\ Spec /\ [](focus = "jobs") => JobsSpec
    /\ Spec /\ [](focus = "artifacts") => ArtifactsSpec
    /\ Spec /\ [](focus = "run") => RunSpec
<1>1. Init => /\ CallersInit /\ TerminalsInit /\ JobsInit
              /\ ArtifactsInit /\ RunInit
  BY DEF Init
<1>2. focus = "terminals" /\ [Next]_vars => [TerminalsNext]_<<callers, terminalVars>>
  BY DEF Next, vars
<1>3. focus = "jobs" /\ [Next]_vars => [JobsNext]_<<callers, jobVars>>
  BY DEF Next, vars
<1>4. focus = "artifacts" /\ [Next]_vars => [ArtifactsNext]_<<callers, artifactVars>>
  BY DEF Next, vars
<1>5. focus = "run" /\ [Next]_vars => [RunNext]_<<callers, runVars>>
  BY DEF Next, vars
<1> QED BY <1>1, <1>2, <1>3, <1>4, <1>5, PTL
        DEF Spec, TerminalsSpec, JobsSpec, ArtifactsSpec, RunSpec

\* The others stay as they were at first.
LEMMA OthersRest ==
    /\ Spec /\ [](focus # "terminals") => []TerminalsInit
    /\ Spec /\ [](focus # "jobs") => []JobsInit
    /\ Spec /\ [](focus # "artifacts") => []ArtifactsInit
    /\ Spec /\ [](focus # "run") => []RunInit
<1>1. Init => TerminalsInit /\ JobsInit /\ ArtifactsInit /\ RunInit
  BY DEF Init
<1>2. TerminalsInit /\ focus # "terminals" /\ [Next]_vars => TerminalsInit'
  BY DEF Next, vars, terminalVars, sessionVars, serverVars, tHistory, TerminalsInit
<1>3. JobsInit /\ focus # "jobs" /\ [Next]_vars => JobsInit'
  BY DEF Next, vars, jobVars, jobFiles, jobProcess, jobHistory, JobsInit
<1>4. ArtifactsInit /\ focus # "artifacts" /\ [Next]_vars => ArtifactsInit'
  BY DEF Next, vars, artifactVars, ArtifactsInit
<1>5. RunInit /\ focus # "run" /\ [Next]_vars => RunInit'
  BY DEF Next, vars, runVars, processVars, watchVars, streamVars, limiterVars, RunInit
<1> QED BY <1>1, <1>2, <1>3, <1>4, <1>5, PTL DEF Spec

TerminalsKept == TerminalsSurvive /\ FailedOpenRunsNothing /\ OpenedIsReleased
JobsKept      == StatusIsFinal /\ ForgetIsFinal /\ UnknownIsExplained
ArtifactsKept == ListingIsComplete /\ CreatedOnce
RunKept       == OutputIsFaithful /\ OutcomeIsHonest

\* Where nothing has happened everything is well typed and every promise kept.
LEMMA RestIsSafe ==
    /\ TerminalsInit => TerminalsTypeOK /\ TerminalsKept
    /\ JobsInit => JobsTypeOK /\ JobsKept
    /\ ArtifactsInit => ArtifactsTypeOK /\ ArtifactsKept
    /\ RunInit => RunTypeOK /\ RunKept
<1>1. ASSUME TerminalsInit PROVE TerminalsTypeOK /\ TerminalsKept
  BY <1>1 DEF TerminalsInit, TerminalsTypeOK, Unlocked, Nobody, TerminalsKept,
     TerminalsSurvive, FailedOpenRunsNothing, OpenedIsReleased
<1>2. ASSUME JobsInit PROVE JobsTypeOK /\ JobsKept
  <2>1. JobsTypeOK
    BY <1>2 DEF JobsInit, JobsTypeOK, NotSeen, UnitStates
  <2>2. StatusIsFinal /\ ForgetIsFinal /\ UnknownIsExplained
    BY <1>2 DEF JobsInit, StatusIsFinal, ForgetIsFinal, UnknownIsExplained
  <2> QED BY <2>1, <2>2 DEF JobsKept
<1>3. ASSUME ArtifactsInit PROVE ArtifactsTypeOK /\ ArtifactsKept
  <2>1. ArtifactsTypeOK
    BY <1>3, ArtifactsTypeInit
  <2>2. ListingIsComplete /\ CreatedOnce
    BY <1>3 DEF ArtifactsInit, ListingIsComplete, CreatedOnce
  <2> QED BY <2>1, <2>2 DEF ArtifactsKept
<1>4. ASSUME RunInit PROVE RunTypeOK /\ RunKept
  <2>1. /\ MaxOutputBytes \in Nat /\ MaxSent \in Nat
        /\ \A s \in Streams : buffer[s] = {} /\ sent[s] = 0
        /\ share = 0 /\ remaining = MaxOutputBytes /\ ~truncatedFlag
        /\ runReply = NoReply
    BY <1>4, DirectRunAssumption DEF RunInit
  <2>2. RunTypeOK
    <3>1. /\ sent \in [Streams -> 0..MaxSent] /\ pipe \in [Streams -> 0..MaxSent]
          /\ chunk \in [Streams -> 0..MaxSent]
          /\ buffer \in [Streams -> SUBSET (1..MaxSent)]
          /\ kin \in [Kin -> {"none", "alive", "gone"}]
      BY <1>4, <2>1 DEF RunInit
    <3>2. share \in 0..MaxOutputBytes /\ remaining \in 0..MaxOutputBytes
      BY <2>1
    <3>3. /\ runReply.status \in {"none", "completed", "timed_out", "cancelled", "failed"}
          /\ runReply.truncated \in BOOLEAN
      BY <2>1 DEF NoReply
    <3>4. /\ leader = "none" /\ outcome = "none" /\ context = "open"
          /\ watch = "waiting" /\ victims = {} /\ limiterLock = "free"
          /\ truncatedFlag \in BOOLEAN
      BY <1>4 DEF RunInit
    <3> QED BY <3>1, <3>2, <3>3, <3>4 DEF RunTypeOK
  <2>3. OutputIsFaithful
    <3>1. Cardinality(buffer["stdout"]) = 0 /\ Cardinality(buffer["stderr"]) = 0
      BY <2>1, FS_EmptySet DEF Streams
    <3>2. \A s \in Streams : Cardinality(buffer[s]) = 0 /\ buffer[s] = 1..0
      BY <2>1, FS_EmptySet
    <3>3. Kept = 0 /\ runReply = NoReply /\ leader = "none"
      BY <1>4, <2>1, <3>1 DEF Kept, RunInit
    <3>4. \A s \in Streams : buffer[s] = 1..Cardinality(buffer[s])
      BY <3>2
    <3>5. Kept <= MaxOutputBytes
      BY <2>1, <3>3
    <3> QED BY <2>1, <3>3, <3>4, <3>5 DEF OutputIsFaithful
  <2>4. OutcomeIsHonest
    BY <1>4 DEF RunInit, OutcomeIsHonest, NoReply
  <2> QED BY <2>2, <2>3, <2>4 DEF RunKept
<1> QED BY <1>1, <1>2, <1>3, <1>4

\* The four components are well typed in every state that TLC looks at, and in
\* those of any other instance.
THEOREM ExecutionTypeCorrect == Spec => []TypeOK
<1>1. TerminalsTypeOK /\ JobsTypeOK /\ ArtifactsTypeOK /\ RunTypeOK => TypeOK
  BY DEF TypeOK
<1>2. /\ focus = "terminals" => focus # "jobs" /\ focus # "artifacts" /\ focus # "run"
      /\ focus = "jobs" => focus # "terminals" /\ focus # "artifacts" /\ focus # "run"
      /\ focus = "artifacts" => focus # "terminals" /\ focus # "jobs" /\ focus # "run"
      /\ focus = "run" => focus # "terminals" /\ focus # "jobs" /\ focus # "artifacts"
  OBVIOUS
<1> QED
  BY <1>1, <1>2, FocusIsFixed, FocusBehaves, OthersRest, RestIsSafe,
     TerminalsTypeCorrect, JobsTypeCorrect, ArtifactsTypeCorrect, RunTypeCorrect, PTL

\* What the four components promise holds in their composition: calls of the
\* service and of hec processes, of any number and with any deaths and errors,
\* keep terminals reachable that no failed systemctl has missed, the ends of jobs
\* final, listings complete, creations single and the answers of runs true.
THEOREM ExecutionKeepsPromises ==
    Spec => [](TerminalsKept /\ JobsKept /\ ArtifactsKept /\ RunKept)
<1>1. /\ focus = "terminals" => focus # "jobs" /\ focus # "artifacts" /\ focus # "run"
      /\ focus = "jobs" => focus # "terminals" /\ focus # "artifacts" /\ focus # "run"
      /\ focus = "artifacts" => focus # "terminals" /\ focus # "jobs" /\ focus # "run"
      /\ focus = "run" => focus # "terminals" /\ focus # "jobs" /\ focus # "artifacts"
  OBVIOUS
<1>2. TerminalsSpec => []TerminalsKept
  BY TerminalsSurviveHolds, FailedOpenRunsNothingHolds, OpenedIsReleasedHolds, PTL
     DEF TerminalsKept
<1>3. JobsSpec => []JobsKept
  BY StatusIsFinalHolds, ForgetIsFinalHolds, UnknownIsExplainedHolds, PTL DEF JobsKept
<1>4. ArtifactsSpec => []ArtifactsKept
  BY ListingIsCompleteHolds, CreatedOnceHolds, PTL DEF ArtifactsKept
<1>5. RunSpec => []RunKept
  BY OutputIsFaithfulHolds, OutcomeIsHonestHolds, PTL DEF RunKept
<1> QED
  BY <1>1, <1>2, <1>3, <1>4, <1>5, FocusIsFixed, FocusBehaves, OthersRest, RestIsSafe,
     PTL

\* The artifact store implements atomic artifacts in the composition as well.
THEOREM ExecutionImplements == Spec => ImplementsAtomicArtifacts
<1>1. Init => Promise!Init
  BY InitPromise DEF Init
<1>2. focus # "artifacts" /\ [Next]_vars => UNCHANGED Promise!vars
  <2> SUFFICES ASSUME focus # "artifacts", [Next]_vars PROVE UNCHANGED Promise!vars
    OBVIOUS
  <2>1. UNCHANGED artifactVars
    BY DEF Next, vars
  <2> QED BY <2>1, HiddenStep DEF artifactVars, State
<1>3. /\ focus = "terminals" => focus # "artifacts"
      /\ focus = "jobs" => focus # "artifacts"
      /\ focus = "run" => focus # "artifacts"
  OBVIOUS
<1>4. UNCHANGED Promise!vars => [Promise!Next]_(Promise!vars)
  OBVIOUS
<1> QED BY <1>1, <1>2, <1>3, <1>4, FocusIsFixed, FocusBehaves, ArtifactStoreImplements, PTL
        DEF Spec, ImplementsAtomicArtifacts, Promise!Spec
=============================================================================
