------------------------------ MODULE DirectRun ------------------------------
(***************************************************************************)
(* The operation run (exec.go): a command in a process group of its own,   *)
(* two goroutines that copy its standard output and standard error into    *)
(* buffers under one budget, and the end of the call's context, at which   *)
(* the group is killed.  Calls of different processes share nothing, so    *)
(* one call is modelled.                                                   *)
(*                                                                         *)
(* Of os/exec, which is not under src/, the steps of Cmd.Wait are here: the*)
(* command is reaped, the goroutine that watches the context is dismissed, *)
(* and the copies run until no process holds the pipes, with no time limit *)
(* (WaitDelay is not set).                                                 *)
(*                                                                         *)
(* A byte is its position in its stream.  Arguments, environment, standard *)
(* input and encodings are left out.                                       *)
(***************************************************************************)
EXTENDS Callers, FiniteSets

CONSTANTS
    MaxOutputBytes,     \* the budget of the call
    MaxSent             \* bound: bytes that a stream carries

ASSUME DirectRunAssumption == {MaxOutputBytes, MaxSent} \subseteq Nat

VARIABLES
    leader,      \* the command
    outcome,     \* how it ended
    kin,         \* its descendants: one in the group, one that has left it
    context,     \* the call's context, with the timeout of the run
    watch,       \* the goroutine that waits for the context to end
    victims,     \* processes that it killed
    sent, pipe,  \* of each stream: bytes written, and of them not yet read
    chunk,       \* bytes that the copying goroutine has read and not written
    limiterLock, \* outputLimiter.mu
    share,       \* bytes that the holder of the lock may keep
    remaining, truncatedFlag,   \* outputLimiter
    buffer,      \* the bytes kept of each stream
    runReply     \* the result of the call

processVars == <<leader, outcome, kin>>
watchVars   == <<context, watch, victims>>
streamVars  == <<sent, pipe, chunk>>
limiterVars == <<limiterLock, share, remaining, truncatedFlag, buffer>>
runVars == <<processVars, watchVars, streamVars, limiterVars, runReply>>

-----------------------------------------------------------------------------

Streams == {"stdout", "stderr"}
Kin     == {"group", "escaped"}
NoReply == [status |-> "none", truncated |-> FALSE]

RunTypeOK ==
    /\ leader \in {"none", "running", "zombie", "reaped"}
    /\ outcome \in {"none", "ok", "error", "killed"}
    /\ kin \in [Kin -> {"none", "alive", "gone"}]
    /\ context \in {"open", "deadline", "canceled"}
    /\ watch \in {"waiting", "dismissed", "fired"}
    /\ victims \subseteq {"leader", "group"}
    /\ {sent, pipe, chunk} \subseteq [Streams -> 0..MaxSent]
    /\ limiterLock \in Streams \cup {"free"}
    /\ {share, remaining} \subseteq 0..MaxOutputBytes
    /\ truncatedFlag \in BOOLEAN
    /\ buffer \in [Streams -> SUBSET (1..MaxSent)]
    /\ runReply.status \in {"none", "completed", "timed_out", "cancelled", "failed"}
    /\ runReply.truncated \in BOOLEAN

RunInit ==
    /\ leader = "none" /\ outcome = "none"
    /\ kin = [k \in Kin |-> "none"]
    /\ context = "open" /\ watch = "waiting" /\ victims = {}
    /\ sent = [s \in Streams |-> 0]
    /\ pipe = [s \in Streams |-> 0]
    /\ chunk = [s \in Streams |-> 0]
    /\ limiterLock = "free" /\ share = 0
    /\ remaining = MaxOutputBytes /\ truncatedFlag = FALSE
    /\ buffer = [s \in Streams |-> {}]
    /\ runReply = NoReply

-----------------------------------------------------------------------------
(* The processes of the command.  All hold both pipes open for writing;    *)
(* a descendant that does not is of no consequence to the call.            *)

OnlyProcesses == UNCHANGED <<callers, watchVars, streamVars, limiterVars, runReply>>

Start(c) ==
    /\ leader = "none" /\ runReply = NoReply
    /\ Enter(c, "run", "wait")
    /\ leader' = "running"
    /\ UNCHANGED <<outcome, kin, watchVars, streamVars, limiterVars, runReply>>

LeaderEnds ==
    /\ leader = "running" /\ leader' = "zombie"
    /\ outcome' \in {"ok", "error"}
    /\ UNCHANGED kin /\ OnlyProcesses

Fork(k) ==
    /\ leader = "running" /\ kin[k] = "none"
    /\ kin' = [kin EXCEPT ![k] = "alive"]
    /\ UNCHANGED <<leader, outcome>> /\ OnlyProcesses

KinEnds(k) ==
    /\ kin[k] = "alive"
    /\ kin' = [kin EXCEPT ![k] = "gone"]
    /\ UNCHANGED <<leader, outcome>> /\ OnlyProcesses

Held == leader = "running" \/ \E k \in Kin : kin[k] = "alive"

WriteOutput(s, n) ==
    /\ Held /\ sent[s] + n <= MaxSent
    /\ sent' = [sent EXCEPT ![s] = @ + n]
    /\ pipe' = [pipe EXCEPT ![s] = @ + n]
    /\ UNCHANGED <<callers, processVars, watchVars, chunk, limiterVars, runReply>>

-----------------------------------------------------------------------------
(* The copying goroutines (limitedOutputWriter.Write).                     *)

OnlyLimiter == UNCHANGED <<callers, processVars, watchVars, sent, runReply>>

ReadPipe(s, n) ==
    /\ chunk[s] = 0 /\ n <= pipe[s]
    /\ chunk' = [chunk EXCEPT ![s] = n]
    /\ pipe' = [pipe EXCEPT ![s] = @ - n]
    /\ OnlyLimiter /\ UNCHANGED limiterVars

\* Mutant of LockLimiter: a chunk that does not fit is not kept at all.
WholeChunks(s) ==
    /\ chunk[s] > 0 /\ limiterLock = "free"
    /\ limiterLock' = s
    /\ share' = IF chunk[s] > remaining THEN 0 ELSE chunk[s]
    /\ OnlyLimiter /\ UNCHANGED <<pipe, chunk, remaining, truncatedFlag, buffer>>

LockLimiter(s) ==
    /\ chunk[s] > 0 /\ limiterLock = "free"
    /\ limiterLock' = s
    /\ share' = IF chunk[s] > remaining THEN remaining ELSE chunk[s]
    /\ OnlyLimiter /\ UNCHANGED <<pipe, chunk, remaining, truncatedFlag, buffer>>

\* What is in hand begins after all that was read and written before.
KeepShare(s) ==
    LET first == sent[s] - pipe[s] - chunk[s] + 1
    IN  /\ limiterLock = s
        /\ buffer' = [buffer EXCEPT ![s] = @ \cup first..(first + share - 1)]
        /\ remaining' = remaining - share
        /\ truncatedFlag' = (truncatedFlag \/ share < chunk[s])
        /\ chunk' = [chunk EXCEPT ![s] = 0]
        /\ limiterLock' = "free" /\ share' = 0
        /\ OnlyLimiter /\ UNCHANGED pipe

Drained(s) == pipe[s] = 0 /\ chunk[s] = 0 /\ ~Held

-----------------------------------------------------------------------------
(* The context and Cmd.Wait.                                               *)

ContextEnds ==
    /\ leader # "none" /\ runReply = NoReply /\ context = "open"
    /\ context' \in {"deadline", "canceled"}
    /\ UNCHANGED <<callers, processVars, watch, victims, streamVars, limiterVars,
                   runReply>>

\* Mutant of KillGroup: the command alone is killed, and nothing is told when it
\* has ended already.
KillLeader ==
    /\ context # "open" /\ watch = "waiting" /\ leader # "none"
    /\ victims' = IF leader = "running" THEN {"leader"} ELSE {}
    /\ watch' = IF leader = "running" THEN "fired" ELSE "dismissed"
    /\ leader' = IF leader = "running" THEN "zombie" ELSE leader
    /\ outcome' = IF leader = "running" THEN "killed" ELSE outcome
    /\ UNCHANGED <<callers, kin, context, streamVars, limiterVars, runReply>>

\* command.Cancel kills the group.  It succeeds while the group has a member,
\* were it a zombie; otherwise the process is done and nothing is reported.
KillGroup ==
    /\ context # "open" /\ watch = "waiting" /\ leader # "none"
    /\ victims' = {p \in {"leader", "group"} :
                     IF p = "leader" THEN leader = "running" ELSE kin["group"] = "alive"}
    /\ watch' = IF leader = "reaped" /\ kin["group"] # "alive" THEN "dismissed"
                ELSE "fired"
    /\ leader' = IF leader = "running" THEN "zombie" ELSE leader
    /\ outcome' = IF leader = "running" THEN "killed" ELSE outcome
    /\ kin' = [kin EXCEPT !["group"] = IF @ = "alive" THEN "gone" ELSE @]
    /\ UNCHANGED <<callers, context, streamVars, limiterVars, runReply>>

ReapLeader ==
    /\ leader = "zombie" /\ leader' = "reaped"
    /\ UNCHANGED <<outcome, kin>> /\ OnlyProcesses

\* From here on the end of the context kills nothing.
Dismiss ==
    /\ leader = "reaped" /\ watch = "waiting" /\ watch' = "dismissed"
    /\ UNCHANGED <<callers, processVars, context, victims, streamVars, limiterVars,
                   runReply>>

RunStatus ==
    CASE outcome = "ok" /\ watch # "fired" -> "completed"
      [] context = "deadline" -> "timed_out"
      [] context = "canceled" -> "cancelled"
      [] OTHER -> "failed"

RunReturns(c) ==
    /\ op[c] = "run" /\ pc[c] = "wait"
    /\ leader = "reaped" /\ watch # "waiting"
    /\ \A s \in Streams : Drained(s)
    /\ runReply' = [status |-> RunStatus, truncated |-> truncatedFlag]
    /\ Return(c)
    /\ UNCHANGED <<processVars, watchVars, streamVars, limiterVars>>

\* The command cannot be started, or the context has ended before.
StartFails ==
    /\ leader = "none" /\ runReply = NoReply
    /\ Failure /\ UNCHANGED <<pc, op, calls>>
    /\ \E status \in {"failed", "timed_out", "cancelled"} :
         runReply' = [status |-> status, truncated |-> FALSE]
    /\ UNCHANGED <<processVars, watchVars, streamVars, limiterVars>>

RunNext ==
    \/ \E c \in Callers : Start(c) \/ RunReturns(c)
    \/ StartFails \/ LeaderEnds \/ ContextEnds \/ KillGroup \/ ReapLeader \/ Dismiss
    \/ \E k \in Kin : Fork(k) \/ KinEnds(k)
    \/ \E s \in Streams :
         \/ LockLimiter(s) \/ KeepShare(s)
         \/ \E n \in 1..MaxSent : WriteOutput(s, n) \/ ReadPipe(s, n)

RunSpec == CallersInit /\ RunInit /\ [][RunNext]_<<callers, runVars>>

-----------------------------------------------------------------------------
(* Properties.                                                             *)

Kept == Cardinality(buffer["stdout"]) + Cardinality(buffer["stderr"])

\* However the two streams interleave at the budget: of each a prefix is kept,
\* together no more than the budget, nothing is lost before it is used up, and
\* the answer says "truncated" exactly when something was lost.
OutputIsFaithful ==
    /\ \A s \in Streams : buffer[s] = 1..Cardinality(buffer[s])
    /\ Kept <= MaxOutputBytes
    /\ truncatedFlag => Kept + share >= MaxOutputBytes
    /\ leader # "none" /\ runReply # NoReply =>
         (runReply.truncated <=> \E s \in Streams : buffer[s] # 1..sent[s])

\* The end of the context races the end of the command.  A call that is
\* "completed" has had nothing killed, and once the group was killed only a
\* descendant that has left it can hold up the answer.
OutcomeIsHonest ==
    /\ runReply.status = "completed" => outcome = "ok" /\ victims = {}
    /\ watch = "fired" => leader # "running" /\ kin["group"] # "alive"
=============================================================================
