------------------------------ MODULE Terminals ------------------------------
(***************************************************************************)
(* Persistent terminals (terminal.go, terminal_runner.go): sessions of one *)
(* tmux server, which lives in the scope unit hec-tmux.scope and outlives  *)
(* the service, and their directories under /var/lib/hec/terminals.        *)
(*                                                                         *)
(* terminal.open launches in two stages: the runner in the new pane reads  *)
(* and removes the launch specification, then waits at a tmux channel until*)
(* the session is configured.  Only the start of a server is under a lock; *)
(* terminal.close and the end of the last session, with which the server   *)
(* exits, are not.                                                         *)
(*                                                                         *)
(* The output, the geometry and names of terminals are left out, and so is *)
(* the restart of the host, which ends every terminal.  tmux and systemctl *)
(* are commands that may fail, or not be run, whatever the state of their  *)
(* servers.  A failure that only makes terminal.open go to its cleanup has *)
(* the effect of an ended context (Cancel); the actions say what else it   *)
(* may lead to.  A terminal.write that fails and files that cannot be      *)
(* removed are left out.                                                   *)
(***************************************************************************)
EXTENDS Callers

CONSTANTS
    Terminals, NoTerminal   \* identifiers: newTerminalID never repeats

ASSUME TerminalsAssumption == NoTerminal \notin Terminals /\ "free" \notin Callers

VARIABLES
    files,      \* durable: each terminal's directory and what it holds
    home,       \* the tmux server that holds the session of a terminal
    pane,       \* what runs in the session's pane
    kept,       \* sessions with remain-on-exit
    released,   \* terminals whose wait channel was signalled
    typed,      \* terminals that input was pasted into
    socket,     \* who listens at /run/hec/tmux.sock
    scope,      \* systemd's state of hec-tmux.scope
    strayOf,    \* the process in whose control group a stray server runs
    tmuxLock,   \* holder of the flock of .tmux.lock
    target,     \* the terminal of each call
    canceled,   \* callers whose context has ended
    allocated,  \* terminals whose identifier was given out
    opened,     \* history: terminals that an open reported
    refused,    \* history: terminals whose open reported a failure
    closing,    \* history: terminals that a close was called for
    missed      \* history: terminals that a command should have found, and
                \* failed

sessionVars == <<home, pane, kept, released, typed>>
serverVars  == <<socket, scope, strayOf>>
tHistory    == <<opened, refused, closing, missed>>
terminalVars == <<files, sessionVars, serverVars, tmuxLock, target, canceled,
                  allocated, tHistory>>

-----------------------------------------------------------------------------

Unlocked == "free"
Nobody   == "nobody"

TerminalsTypeOK ==
    /\ files \in [Terminals -> SUBSET {"directory", "metadata", "spec"}]
    /\ home \in [Terminals -> {"none", "scope", "stray"}]
    /\ pane \in [Terminals -> {"none", "launch", "gate", "waiting", "command",
                               "dead"}]
    /\ {kept, released, typed, allocated, opened, refused, closing, missed}
         \subseteq SUBSET Terminals
    /\ socket \in {"none", "stale", "scope", "stray"}
    /\ scope \in {"absent", "active", "failed"}
    /\ strayOf \in Callers \cup {Nobody}
    /\ tmuxLock \in Callers \cup {Unlocked}
    /\ target \in [Callers -> Terminals \cup {NoTerminal}]
    /\ canceled \subseteq Callers

TerminalsInit ==
    /\ files = [t \in Terminals |-> {}]
    /\ home = [t \in Terminals |-> "none"]
    /\ pane = [t \in Terminals |-> "none"]
    /\ kept = {} /\ released = {} /\ typed = {}
    /\ socket = "none" /\ scope = "absent" /\ strayOf = Nobody
    /\ tmuxLock = Unlocked
    /\ target = [c \in Callers |-> NoTerminal]
    /\ canceled = {} /\ allocated = {}
    /\ opened = {} /\ refused = {} /\ closing = {} /\ missed = {}

-----------------------------------------------------------------------------
(* tmux.  A server exits with its last session and leaves its socket file. *)

\* tmux has-session: the server at the socket has the session.
Reachable(t) == home[t] # "none" /\ socket = home[t]

\* tmux list-sessions: some server listens at the socket.
Listening == socket \in {"scope", "stray"}

\* The sessions ts end, and with them the servers that have no other.
EndSessions(ts) ==
    LET lasts(s) == /\ \E t \in ts : home[t] = s
                    /\ \A t \in Terminals \ ts : home[t] # s
    IN  /\ home' = [t \in Terminals |-> IF t \in ts THEN "none" ELSE home[t]]
        /\ pane' = [t \in Terminals |-> IF t \in ts THEN "none" ELSE pane[t]]
        /\ kept' = kept \ ts
        /\ released' = released \ ts
        /\ typed' = typed \ ts
        /\ socket' = IF Listening /\ lasts(socket) THEN "stale" ELSE socket
        /\ strayOf' = IF lasts("stray") THEN Nobody ELSE strayOf
        \* A process that a terminal left behind keeps the scope active.
        /\ scope' \in IF lasts("scope") THEN {"absent", "active", "failed"}
                      ELSE {scope}

\* What ran in the pane has ended.
EndPane(t) ==
    IF t \in kept
    THEN /\ pane' = [pane EXCEPT ![t] = "dead"]
         /\ UNCHANGED <<home, kept, released, typed, serverVars>>
    ELSE EndSessions({t})

\* The last process left in the scope ends.
ScopeEnds ==
    /\ scope = "active" /\ \A t \in Terminals : home[t] # "scope"
    /\ scope' \in {"absent", "failed"}
    /\ UNCHANGED <<callers, files, sessionVars, socket, strayOf, tmuxLock, target,
                   canceled, allocated, tHistory>>

-----------------------------------------------------------------------------
(* terminal-run, the process in a new pane (RunTerminal).                  *)

RunnerOnly == UNCHANGED <<callers, tmuxLock, target, canceled, allocated, tHistory>>

\* The specification is read and removed; without one the runner exits.
ReadSpec(t) ==
    /\ pane[t] = "launch"
    /\ IF "spec" \in files[t]
       THEN /\ files' = [files EXCEPT ![t] = @ \ {"spec"}]
            /\ pane' = [pane EXCEPT ![t] = "gate"]
            /\ UNCHANGED <<home, kept, released, typed, serverVars>>
       ELSE EndPane(t) /\ UNCHANGED files
    /\ RunnerOnly

\* tmux wait-for: the channel remembers a signal that came first.  The runner
\* exits when its directory or environment is not usable or tmux fails.
WaitGate(t) ==
    /\ pane[t] = "gate"
    /\ \/ /\ Reachable(t)
          /\ pane' = [pane EXCEPT ![t] = IF t \in released THEN "command"
                                         ELSE "waiting"]
          /\ UNCHANGED <<home, kept, released, typed, serverVars>>
       \/ EndPane(t)
    /\ UNCHANGED files /\ RunnerOnly

Woken(t) ==
    /\ pane[t] = "waiting" /\ t \in released
    /\ pane' = [pane EXCEPT ![t] = "command"]
    /\ UNCHANGED <<files, home, kept, released, typed, serverVars>> /\ RunnerOnly

CommandEnds(t) ==
    /\ pane[t] = "command"
    /\ EndPane(t)
    /\ UNCHANGED files /\ RunnerOnly

-----------------------------------------------------------------------------
(* terminal.open                                                           *)

NoEffect == UNCHANGED <<files, sessionVars, serverVars, allocated, tHistory>>

\* createTerminalState: the directory, metadata.json, the specification.
MakeDirectory(c, t) ==
    /\ t \notin allocated
    /\ Enter(c, "open", "metadata")
    /\ allocated' = allocated \cup {t}
    /\ target' = [target EXCEPT ![c] = t]
    /\ files' = [files EXCEPT ![t] = {"directory"}]
    /\ UNCHANGED <<sessionVars, serverVars, tmuxLock, canceled, tHistory>>

\* A call that failed before it had a session.
GiveUp(c) ==
    /\ files' = [files EXCEPT ![target[c]] = {}]
    /\ refused' = refused \cup {target[c]}
    /\ target' = [target EXCEPT ![c] = NoTerminal]
    /\ canceled' = canceled \ {c}

\* A close of another process may have removed the directory meanwhile.
WriteFile(c, file, step) ==
    /\ op[c] = "open" /\ pc[c] = file
    /\ \/ /\ "directory" \in files[target[c]]
          /\ files' = [files EXCEPT ![target[c]] = @ \cup {file}]
          /\ Goto(c, step)
          /\ UNCHANGED <<refused, target, canceled>>
       \/ /\ "directory" \notin files[target[c]]
          /\ GiveUp(c) /\ Return(c)
       \/ GiveUp(c) /\ ReturnFailing(c)
    /\ UNCHANGED <<sessionVars, serverVars, tmuxLock, allocated, opened, closing,
                   missed>>

\* Mutant of LockTmux: servers are started under no lock.
LockNothing(c) ==
    /\ pc[c] = "lock"
    /\ tmuxLock' = c
    /\ Goto(c, "alive")
    /\ NoEffect /\ UNCHANGED <<target, canceled>>

\* The call waits for the flock whether or not its context has ended.
LockTmux(c) ==
    /\ pc[c] = "lock" /\ tmuxLock = Unlocked
    /\ tmuxLock' = c
    /\ Goto(c, "alive")
    /\ NoEffect /\ UNCHANGED <<target, canceled>>

\* tmuxServerAlive: a tmux command that cannot be run counts as no server.
CheckServer(c) ==
    /\ pc[c] = "alive"
    /\ \/ Goto(c, IF Listening /\ c \notin canceled THEN "join" ELSE "scope")
       \/ GotoFailing(c, "scope")
    /\ NoEffect /\ UNCHANGED <<tmuxLock, target, canceled>>

\* tmuxScopeState and reset-failed, whose failure is ignored.  A server that
\* cannot be reached must not be in the way of a new one.
SeeScope(c) ==
    IF scope = "active"
    THEN Goto(c, "cleanup") /\ tmuxLock' = Unlocked /\ UNCHANGED scope
    ELSE Goto(c, "unlink") /\ scope' \in {"absent", scope} /\ UNCHANGED tmuxLock

\* A systemctl that prints nothing, because it cannot be run, is killed with the
\* context or does not reach systemd, counts as no such scope.
MissScope(c) ==
    /\ IF c \in canceled THEN Goto(c, "unlink") ELSE GotoFailing(c, "unlink")
    /\ missed' = missed \cup {t \in Terminals : home[t] = "scope"}
    /\ UNCHANGED <<scope, tmuxLock>>

\* It may also fail after it has printed a state.
CheckScope(c) ==
    /\ pc[c] = "scope"
    /\ \/ c \notin canceled /\ SeeScope(c) /\ UNCHANGED missed
       \/ MissScope(c)
       \/ /\ GotoFailing(c, "cleanup") /\ tmuxLock' = Unlocked
          /\ UNCHANGED <<scope, missed>>
    /\ UNCHANGED <<files, sessionVars, socket, strayOf, target, canceled, allocated,
                   opened, refused, closing>>

\* os.Remove of the socket, which is taken to be stale
RemoveSocket(c) ==
    /\ pc[c] = "unlink"
    /\ socket' = "none"
    /\ Goto(c, "create")
    /\ UNCHANGED <<files, sessionVars, scope, strayOf, tmuxLock, target, canceled,
                   allocated, tHistory>>

\* A new session in server s.
NewSession(t, s) ==
    /\ home' = [home EXCEPT ![t] = s]
    /\ pane' = [pane EXCEPT ![t] = "launch"]
    /\ UNCHANGED <<kept, released, typed>>

\* systemd-run --scope tmux new-session
CreateServer(c) ==
    /\ pc[c] = "create" /\ c \notin canceled /\ scope = "absent"
    /\ NewSession(target[c], "scope")
    /\ scope' = "active" /\ socket' = "scope"
    /\ Goto(c, "check")
    /\ UNCHANGED <<files, strayOf, tmuxLock, target, canceled, allocated, tHistory>>

\* tmux new-session starts a server of its own when that at the socket has
\* exited since.  It runs in the control group of the caller.
JoinServer(c) ==
    /\ pc[c] = "join" /\ c \notin canceled
    /\ IF Listening
       THEN NewSession(target[c], socket) /\ UNCHANGED serverVars
       ELSE /\ \A t \in Terminals : home[t] # "stray"
            /\ NewSession(target[c], "stray")
            /\ socket' = "stray" /\ strayOf' = c /\ UNCHANGED scope
    /\ Goto(c, "check")
    /\ UNCHANGED <<files, tmuxLock, target, canceled, allocated, tHistory>>

\* The lock, the removal of the socket or the launch fails: the launch also when
\* its context has ended, and when the name of the scope is taken.
LaunchFails(c) ==
    /\ \/ pc[c] \in {"create", "join"} /\ c \in canceled /\ Goto(c, "cleanup")
       \/ pc[c] = "create" /\ scope # "absent" /\ Goto(c, "cleanup")
       \/ pc[c] \in {"lock", "unlink", "create", "join"} /\ GotoFailing(c, "cleanup")
    /\ tmuxLock' = IF tmuxLock = c THEN Unlocked ELSE tmuxLock
    /\ NoEffect /\ UNCHANGED <<target, canceled>>

CheckSession(c) ==
    /\ pc[c] = "check"
    /\ Goto(c, IF Reachable(target[c]) /\ c \notin canceled THEN "consume"
               ELSE "cleanup")
    /\ tmuxLock' = Unlocked
    /\ NoEffect /\ UNCHANGED <<target, canceled>>

\* waitForTerminalSpecConsumption, and its three seconds
WaitSpec(c) ==
    /\ pc[c] = "consume"
    /\ Goto(c, IF "spec" \in files[target[c]] THEN "cleanup" ELSE "configure")
    /\ NoEffect /\ UNCHANGED <<tmuxLock, target, canceled>>

Configure(c) ==
    /\ pc[c] = "configure"
    /\ IF Reachable(target[c]) /\ c \notin canceled
       THEN kept' = kept \cup {target[c]} /\ Goto(c, "release")
       ELSE Goto(c, "cleanup") /\ UNCHANGED kept
    /\ UNCHANGED <<files, home, pane, released, typed, serverVars, tmuxLock, target,
                   canceled, allocated, tHistory>>

\* Mutant of Release: only a runner that waits already is released.
ReleaseWaiting(c) ==
    /\ pc[c] = "release"
    /\ released' = IF pane[target[c]] = "waiting" THEN released \cup {target[c]}
                   ELSE released
    /\ Goto(c, "inspect")
    /\ UNCHANGED <<files, home, pane, kept, typed, serverVars, tmuxLock, target,
                   canceled, allocated, tHistory>>

\* tmux wait-for -S.  When it is killed with the context, the signal may have
\* been sent.
Release(c) ==
    /\ pc[c] = "release"
    /\ \/ /\ Reachable(target[c])
          /\ released' = released \cup {target[c]}
          /\ Goto(c, IF c \in canceled THEN "cleanup" ELSE "inspect")
       \/ /\ ~Reachable(target[c]) \/ c \in canceled
          /\ Goto(c, "cleanup") /\ UNCHANGED released
    /\ UNCHANGED <<files, home, pane, kept, typed, serverVars, tmuxLock, target,
                   canceled, allocated, tHistory>>

\* inspectTerminal: "lost" is a status like another, and a tmux that cannot
\* be run finds no session.  Only what display-message says of a session that is
\* there may be missing.
Inspect(c) ==
    LET t == target[c]
        here == Reachable(t) /\ c \notin canceled
        unusable == \/ files[t] = {} /\ ~here
                    \/ files[t] # {} /\ "metadata" \notin files[t]
    IN  /\ pc[c] = "inspect"
        /\ \/ /\ unusable /\ Goto(c, "cleanup")
              /\ UNCHANGED <<opened, target, canceled>>
           \/ /\ here /\ GotoFailing(c, "cleanup")
              /\ UNCHANGED <<opened, target, canceled>>
           \/ /\ ~unusable /\ Return(c)
              /\ opened' = opened \cup {t}
              /\ target' = [target EXCEPT ![c] = NoTerminal]
              /\ canceled' = canceled \ {c}
        /\ UNCHANGED <<files, sessionVars, serverVars, tmuxLock, allocated, refused,
                       closing, missed>>

\* Mutant of Cleanup: the session is left to end by itself.
CleanupFiles(c) ==
    /\ pc[c] = "cleanup"
    /\ GiveUp(c) /\ Return(c)
    /\ UNCHANGED <<sessionVars, serverVars, tmuxLock, allocated, opened, closing,
                   missed>>

\* The deferred cleanup, under a context of its own.  Whether has-session and
\* kill-session could be run makes no difference to what it does next.
Cleanup(c) ==
    LET t == target[c] IN
    /\ pc[c] = "cleanup"
    /\ GiveUp(c)
    /\ \/ /\ Return(c)
          /\ IF Reachable(t) THEN EndSessions({t}) ELSE UNCHANGED <<sessionVars, serverVars>>
          /\ UNCHANGED missed
       \/ /\ Reachable(t) /\ ReturnFailing(c)
          /\ missed' = missed \cup {t}
          /\ UNCHANGED <<sessionVars, serverVars>>
    /\ UNCHANGED <<tmuxLock, allocated, opened, closing>>

OpenSteps == {"alive", "scope", "unlink", "create", "join", "check", "consume",
              "configure", "release", "inspect"}

\* The client cancels the call, its generation ends or its deadline passes.
Cancel(c) ==
    /\ op[c] = "open" /\ pc[c] \in OpenSteps \cup {"lock"} /\ c \notin canceled
    /\ canceled' = canceled \cup {c}
    /\ NoEffect /\ UNCHANGED <<callers, tmuxLock, target>>

-----------------------------------------------------------------------------
(* terminal.write, terminal.signal and terminal.close, for terminals that  *)
(* the caller opened or found with terminal.list.                          *)

\* inspectTerminal's status "running": a live pane without specification.
Running(t) == /\ Reachable(t) /\ pane[t] # "dead"
              /\ "spec" \notin files[t]
              /\ files[t] # {} => "metadata" \in files[t]

Use(c, t, o) ==
    /\ o \in {"write", "signal"} /\ Running(t)
    /\ o = "write" => files[t] # {}
    /\ Enter(c, o, o)
    /\ target' = [target EXCEPT ![c] = t]
    /\ NoEffect /\ UNCHANGED <<tmuxLock, canceled>>

Done(c) == Return(c) /\ target' = [target EXCEPT ![c] = NoTerminal]

\* load-buffer and paste-buffer
Paste(c) ==
    /\ pc[c] = "write"
    /\ typed' = IF Reachable(target[c]) THEN typed \cup {target[c]} ELSE typed
    /\ Done(c)
    /\ UNCHANGED <<files, home, pane, kept, released, serverVars, tmuxLock, canceled,
                   allocated, tHistory>>

\* The foreground process group of the pane, whoever that is by now, is
\* signalled: it may end, and then metadata.json is written again.
Signal(c) ==
    LET t == target[c] IN
    /\ pc[c] = "signal"
    /\ \/ UNCHANGED <<sessionVars, serverVars>>
       \/ pane[t] \in {"gate", "waiting", "command"} /\ EndPane(t)
    /\ Done(c)
    /\ UNCHANGED <<files, tmuxLock, canceled, allocated, tHistory>>

CloseLook(c, t) ==
    /\ files[t] # {} \/ Reachable(t)
    /\ Enter(c, "close", IF Reachable(t) THEN "kill" ELSE "remove")
    /\ target' = [target EXCEPT ![c] = t]
    /\ closing' = closing \cup {t}
    /\ UNCHANGED <<files, sessionVars, serverVars, tmuxLock, canceled, allocated,
                   opened, refused, missed>>

\* When tmux fails the session stays, and the call ends, or goes on because it
\* takes it for gone.
CloseKill(c) ==
    /\ pc[c] = "kill"
    /\ \/ /\ IF Reachable(target[c]) THEN EndSessions({target[c]})
             ELSE UNCHANGED <<sessionVars, serverVars>>
          /\ Goto(c, "remove") /\ UNCHANGED target
       \/ /\ Reachable(target[c])
          /\ \/ GotoFailing(c, "remove") /\ UNCHANGED target
             \/ /\ ReturnFailing(c)
                /\ target' = [target EXCEPT ![c] = NoTerminal]
          /\ UNCHANGED <<sessionVars, serverVars>>
    /\ UNCHANGED <<files, tmuxLock, canceled, allocated, tHistory>>

CloseRemove(c) ==
    /\ pc[c] = "remove"
    /\ files' = [files EXCEPT ![target[c]] = {}]
    /\ Done(c)
    /\ UNCHANGED <<sessionVars, serverVars, tmuxLock, canceled, allocated, tHistory>>

-----------------------------------------------------------------------------

\* A process dies.  systemd kills what is in the service's control group and
\* starts the service again.
CallerDies(c) ==
    LET mine == IF c = Service /\ strayOf = c
                THEN {t \in Terminals : home[t] = "stray"} ELSE {}
    IN  /\ pc[c] # "idle" \/ c = Service
        /\ ReturnFailing(c)
        /\ EndSessions(mine)
        /\ tmuxLock' = IF tmuxLock = c THEN Unlocked ELSE tmuxLock
        /\ target' = [target EXCEPT ![c] = NoTerminal]
        /\ canceled' = canceled \ {c}
        /\ UNCHANGED <<files, allocated, tHistory>>

TerminalStep(c) ==
    \/ WriteFile(c, "metadata", "spec") \/ WriteFile(c, "spec", "lock")
    \/ LockTmux(c) \/ CheckServer(c) \/ CheckScope(c) \/ RemoveSocket(c)
    \/ CreateServer(c) \/ JoinServer(c) \/ LaunchFails(c) \/ CheckSession(c)
    \/ WaitSpec(c) \/ Configure(c) \/ Release(c) \/ Inspect(c) \/ Cleanup(c)
    \/ Paste(c) \/ Signal(c) \/ CloseKill(c) \/ CloseRemove(c)

TerminalsNext ==
    \/ \E c \in Callers :
         \/ TerminalStep(c) \/ Cancel(c) \/ CallerDies(c)
         \/ \E t \in Terminals :
              \/ MakeDirectory(c, t) \/ CloseLook(c, t)
              \/ \E o \in {"write", "signal"} : Use(c, t, o)
    \/ \E t \in Terminals :
         ReadSpec(t) \/ WaitGate(t) \/ Woken(t) \/ CommandEnds(t)
    \/ ScopeEnds

TerminalsSpec ==
    CallersInit /\ TerminalsInit /\ [][TerminalsNext]_<<callers, terminalVars>>

-----------------------------------------------------------------------------
(* Properties.                                                             *)

\* HEC_V1_DESIGN.md: terminals survive reconnects as long as the tmux server
\* remains alive.  The server in the scope is found at its socket, so that no
\* other call cuts off a terminal that was opened and is not being closed.
TerminalsStayReachable ==
    \A t \in opened \ closing : home[t] = "scope" => Reachable(t)

\* So it is, whatever else goes wrong and in whatever order calls meet, unless a
\* systemctl failed to tell a call of the scope while the terminal was in it.
TerminalsSurvive ==
    \A t \in opened \ (closing \cup missed) : home[t] = "scope" => Reachable(t)

\* An open that was answered with a failure has left no command running, also
\* when it failed after the runner was released.  The exceptions are a command
\* whose cleanup could not run tmux, or whose scope a systemctl failed to tell
\* of, and one in a stray server whose socket another open has removed after a
\* tmux command failed: no cleanup finds it any more.
FailedOpenRunsNothing ==
    \A t \in refused \ missed :
        pane[t] = "command" => home[t] = "stray" /\ ~Reachable(t)

\* An open that was reported leaves no runner waiting at the gate for ever:
\* the channel was signalled, whichever of the two came first.
OpenedIsReleased ==
    \A t \in opened : pane[t] \in {"launch", "gate", "waiting"} => t \in released
=============================================================================
