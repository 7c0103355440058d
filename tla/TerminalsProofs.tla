--------------------------- MODULE TerminalsProofs ---------------------------
(***************************************************************************)
(* Terminals that were opened stay reachable and run, and those whose open *)
(* failed run nothing, for any processes and terminals and any number of   *)
(* calls and deaths.                                                       *)
(***************************************************************************)
EXTENDS Terminals, TLAPS

\* The steps of terminal.open, which has a terminal of its own from the first
\* one on and a session from "check" on.
Early   == {"metadata", "spec", "lock", "alive", "scope", "unlink", "create", "join"}
Late    == {"check", "consume", "configure", "release", "inspect", "cleanup"}
Opening == Early \cup Late
Others  == {"write", "signal", "kill", "remove"}
Locked  == {"alive", "scope", "unlink", "create", "join", "check"}

Opens(c) == pc[c] \in Opening

StepInv(c) ==
    /\ pc[c] \in {"idle"} \cup Opening \cup Others
    /\ op[c] = "open" <=> Opens(c)
    /\ pc[c] = "idle" <=> target[c] = NoTerminal
    /\ pc[c] \in Locked => tmuxLock = c
    /\ Opens(c) => target[c] \in allocated \ (opened \cup refused)
    /\ pc[c] \in Early => home[target[c]] = "none"

TargetsInv == \A c, d \in Callers : Opens(c) /\ Opens(d) /\ target[c] = target[d] => c = d

\* A terminal has a session only while something is in its pane.
SessionsInv == /\ opened \cup refused \subseteq allocated
               /\ \A t \in Terminals : home[t] = "none" <=> pane[t] = "none"
               /\ \A t \in Terminals \ allocated : home[t] = "none"

ControlInv == TargetsInv /\ SessionsInv /\ \A c \in Callers : StepInv(c)

\* The channel of a terminal that is or is about to be reported was signalled.
AtGate(t) == pane[t] \in {"launch", "gate", "waiting"}

SignalledInv == \A c \in Callers :
    pc[c] = "inspect" /\ AtGate(target[c]) => target[c] \in released

\* A call that is about to remove the socket has seen, under the lock, that the
\* scope has no terminal, or has missed those that it has.
SeenInv == \A c \in Callers : pc[c] = "unlink" =>
               \A t \in Terminals : home[t] = "scope" => t \in missed

\* The server in the scope listens at the socket, unless its terminals were
\* missed.
ServerInv ==
    /\ \A t \in Terminals : home[t] = "scope" =>
         scope = "active" /\ (t \in missed \/ socket = "scope")
    /\ socket = "scope" => \E t \in Terminals : home[t] = "scope"

ScopeInv == SeenInv /\ ServerInv

\* A refused open has left nothing, or a session that was missed or that nobody
\* can reach.
RefusedInv ==
    \A t \in refused \ missed :
        home[t] # "none" => home[t] = "stray" /\ socket # "stray"

CallersTypeOK == /\ pc \in [Callers -> {"idle"} \cup Opening \cup Others]
                 /\ op \in [Callers -> {"none", "open", "write", "signal", "close"}]
                 /\ {calls, failures} \subseteq Nat

TypesInv == CallersTypeOK /\ TerminalsTypeOK

-----------------------------------------------------------------------------
(* Types.                                                                  *)

\* The initial state is well typed.
LEMMA TypeInit == CallersInit /\ TerminalsInit => TypesInv
<1> SUFFICES ASSUME CallersInit, TerminalsInit PROVE TypesInv
  OBVIOUS
<1>1. CallersTypeOK
  BY DEF CallersInit, CallersTypeOK
<1>2. TerminalsTypeOK
  BY DEF TerminalsInit, TerminalsTypeOK, Unlocked, Nobody
<1> QED BY <1>1, <1>2 DEF TypesInv

\* A step keeps the types of the calls: it leads to a step of one of the four
\* operations and counts calls and failures upwards.
LEMMA CallersTypeNext ==
  ASSUME TypesInv, \A c \in Callers : StepInv(c), [TerminalsNext]_<<callers, terminalVars>>
  PROVE  CallersTypeOK'
<1> USE DEF TypesInv, CallersTypeOK, Opening, Early, Late, Others, Locked, StepInv
<1> USE CallersAssumption, TerminalsAssumption
<1> USE DEF callers, terminalVars, sessionVars, serverVars, tHistory, Enter, Goto, Leave,
            Return, Failure, GotoFailing, ReturnFailing, GiveUp, Done, NoEffect,
            RunnerOnly, EndPane, EndSessions, NewSession, SeeScope, MissScope
<1>1. ASSUME NEW c \in Callers, WriteFile(c, "metadata", "spec")
      PROVE  CallersTypeOK'
  BY <1>1 DEF WriteFile
<1>2. ASSUME NEW c \in Callers, WriteFile(c, "spec", "lock") PROVE CallersTypeOK'
  BY <1>2 DEF WriteFile
<1>3. ASSUME NEW c \in Callers, LockTmux(c) PROVE CallersTypeOK'
  BY <1>3 DEF LockTmux
<1>4. ASSUME NEW c \in Callers, CheckServer(c) PROVE CallersTypeOK'
  BY <1>4 DEF CheckServer
<1>5. ASSUME NEW c \in Callers, CheckScope(c) PROVE CallersTypeOK'
  BY <1>5 DEF CheckScope
<1>6. ASSUME NEW c \in Callers, RemoveSocket(c) PROVE CallersTypeOK'
  BY <1>6 DEF RemoveSocket
<1>7. ASSUME NEW c \in Callers, CreateServer(c) PROVE CallersTypeOK'
  BY <1>7 DEF CreateServer
<1>8. ASSUME NEW c \in Callers, JoinServer(c) PROVE CallersTypeOK'
  BY <1>8 DEF JoinServer
<1>9. ASSUME NEW c \in Callers, LaunchFails(c) PROVE CallersTypeOK'
  BY <1>9 DEF LaunchFails
<1>10. ASSUME NEW c \in Callers, CheckSession(c) PROVE CallersTypeOK'
  BY <1>10 DEF CheckSession
<1>11. ASSUME NEW c \in Callers, WaitSpec(c) PROVE CallersTypeOK'
  BY <1>11 DEF WaitSpec
<1>12. ASSUME NEW c \in Callers, Configure(c) PROVE CallersTypeOK'
  BY <1>12 DEF Configure
<1>13. ASSUME NEW c \in Callers, Release(c) PROVE CallersTypeOK'
  BY <1>13 DEF Release
<1>14. ASSUME NEW c \in Callers, Inspect(c) PROVE CallersTypeOK'
  BY <1>14 DEF Inspect
<1>15. ASSUME NEW c \in Callers, Cleanup(c) PROVE CallersTypeOK'
  BY <1>15 DEF Cleanup
<1>16. ASSUME NEW c \in Callers, Paste(c) PROVE CallersTypeOK'
  BY <1>16 DEF Paste
<1>17. ASSUME NEW c \in Callers, Signal(c) PROVE CallersTypeOK'
  BY <1>17 DEF Signal
<1>18. ASSUME NEW c \in Callers, CloseKill(c) PROVE CallersTypeOK'
  BY <1>18 DEF CloseKill
<1>19. ASSUME NEW c \in Callers, CloseRemove(c) PROVE CallersTypeOK'
  BY <1>19 DEF CloseRemove
<1>20. ASSUME NEW c \in Callers, Cancel(c) PROVE CallersTypeOK'
  BY <1>20 DEF Cancel
<1>21. ASSUME NEW c \in Callers, CallerDies(c) PROVE CallersTypeOK'
  BY <1>21 DEF CallerDies
<1>22. ASSUME NEW c \in Callers, NEW t \in Terminals, MakeDirectory(c, t)
      PROVE  CallersTypeOK'
  BY <1>22 DEF MakeDirectory
<1>23. ASSUME NEW c \in Callers, NEW t \in Terminals, CloseLook(c, t)
      PROVE  CallersTypeOK'
  BY <1>23 DEF CloseLook
<1>24. ASSUME NEW c \in Callers, NEW t \in Terminals, NEW o \in {"write", "signal"}, Use(c, t, o)
      PROVE  CallersTypeOK'
  BY <1>24 DEF Use
<1>25. ASSUME NEW t \in Terminals, ReadSpec(t) PROVE CallersTypeOK'
  BY <1>25 DEF ReadSpec
<1>26. ASSUME NEW t \in Terminals, WaitGate(t) PROVE CallersTypeOK'
  BY <1>26 DEF WaitGate
<1>27. ASSUME NEW t \in Terminals, Woken(t) PROVE CallersTypeOK'
  BY <1>27 DEF Woken
<1>28. ASSUME NEW t \in Terminals, CommandEnds(t) PROVE CallersTypeOK'
  BY <1>28 DEF CommandEnds
<1>29. CASE ScopeEnds
  BY <1>29 DEF ScopeEnds
<1>30. CASE UNCHANGED <<callers, terminalVars>>
  BY <1>30
<1> QED
  BY <1>1, <1>2, <1>3, <1>4, <1>5, <1>6, <1>7, <1>8, <1>9, <1>10, <1>11,
     <1>12, <1>13, <1>14, <1>15, <1>16, <1>17, <1>18, <1>19, <1>20, <1>21,
     <1>22, <1>23, <1>24, <1>25, <1>26, <1>27, <1>28, <1>29, <1>30
     DEF TerminalsNext, TerminalStep

\* Every step keeps the types of the terminals and of the server.
LEMMA TerminalsTypeNext ==
  ASSUME TypesInv, ControlInv, [TerminalsNext]_<<callers, terminalVars>>
  PROVE  TerminalsTypeOK'
<1> USE DEF TypesInv, CallersTypeOK, Opening, Early, Late, Others, Locked, TerminalsTypeOK,
            ControlInv, StepInv, Opens, Nobody, Unlocked
<1> USE CallersAssumption, TerminalsAssumption
<1> USE DEF callers, terminalVars, sessionVars, serverVars, tHistory, Enter, Goto, Leave,
            Return, Failure, GotoFailing, ReturnFailing, GiveUp, Done, NoEffect,
            RunnerOnly, EndPane, EndSessions, NewSession, SeeScope, MissScope
<1>1. ASSUME NEW c \in Callers, WriteFile(c, "metadata", "spec")
      PROVE  TerminalsTypeOK'
  BY <1>1 DEF WriteFile
<1>2. ASSUME NEW c \in Callers, WriteFile(c, "spec", "lock")
      PROVE  TerminalsTypeOK'
  BY <1>2 DEF WriteFile
<1>3. ASSUME NEW c \in Callers, LockTmux(c) PROVE TerminalsTypeOK'
  BY <1>3 DEF LockTmux
<1>4. ASSUME NEW c \in Callers, CheckServer(c) PROVE TerminalsTypeOK'
  BY <1>4 DEF CheckServer
<1>5. ASSUME NEW c \in Callers, CheckScope(c) PROVE TerminalsTypeOK'
  BY <1>5 DEF CheckScope
<1>6. ASSUME NEW c \in Callers, RemoveSocket(c) PROVE TerminalsTypeOK'
  BY <1>6 DEF RemoveSocket
<1>7. ASSUME NEW c \in Callers, CreateServer(c) PROVE TerminalsTypeOK'
  BY <1>7 DEF CreateServer
<1>8. ASSUME NEW c \in Callers, JoinServer(c) PROVE TerminalsTypeOK'
  <2>1. CASE Listening
    BY <1>8, <2>1 DEF JoinServer, Listening
  <2>2. CASE ~Listening
    BY <1>8, <2>2 DEF JoinServer
  <2> QED BY <2>1, <2>2
<1>9. ASSUME NEW c \in Callers, LaunchFails(c) PROVE TerminalsTypeOK'
  BY <1>9 DEF LaunchFails
<1>10. ASSUME NEW c \in Callers, CheckSession(c) PROVE TerminalsTypeOK'
  BY <1>10 DEF CheckSession
<1>11. ASSUME NEW c \in Callers, WaitSpec(c) PROVE TerminalsTypeOK'
  BY <1>11 DEF WaitSpec
<1>12. ASSUME NEW c \in Callers, Configure(c) PROVE TerminalsTypeOK'
  BY <1>12 DEF Configure
<1>13. ASSUME NEW c \in Callers, Release(c) PROVE TerminalsTypeOK'
  BY <1>13 DEF Release
<1>14. ASSUME NEW c \in Callers, Inspect(c) PROVE TerminalsTypeOK'
  BY <1>14 DEF Inspect
<1>15. ASSUME NEW c \in Callers, Cleanup(c) PROVE TerminalsTypeOK'
  BY <1>15 DEF Cleanup
<1>16. ASSUME NEW c \in Callers, Paste(c) PROVE TerminalsTypeOK'
  BY <1>16 DEF Paste
<1>17. ASSUME NEW c \in Callers, Signal(c) PROVE TerminalsTypeOK'
  BY <1>17 DEF Signal
<1>18. ASSUME NEW c \in Callers, CloseKill(c) PROVE TerminalsTypeOK'
  BY <1>18 DEF CloseKill
<1>19. ASSUME NEW c \in Callers, CloseRemove(c) PROVE TerminalsTypeOK'
  BY <1>19 DEF CloseRemove
<1>20. ASSUME NEW c \in Callers, Cancel(c) PROVE TerminalsTypeOK'
  BY <1>20 DEF Cancel
<1>21. ASSUME NEW c \in Callers, CallerDies(c) PROVE TerminalsTypeOK'
  BY <1>21 DEF CallerDies
<1>22. ASSUME NEW c \in Callers, NEW t \in Terminals, MakeDirectory(c, t)
      PROVE  TerminalsTypeOK'
  BY <1>22 DEF MakeDirectory
<1>23. ASSUME NEW c \in Callers, NEW t \in Terminals, CloseLook(c, t)
      PROVE  TerminalsTypeOK'
  BY <1>23 DEF CloseLook
<1>24. ASSUME NEW c \in Callers, NEW t \in Terminals, NEW o \in {"write", "signal"}, Use(c, t, o)
      PROVE  TerminalsTypeOK'
  BY <1>24 DEF Use
<1>25. ASSUME NEW t \in Terminals, ReadSpec(t) PROVE TerminalsTypeOK'
  BY <1>25 DEF ReadSpec
<1>26. ASSUME NEW t \in Terminals, WaitGate(t) PROVE TerminalsTypeOK'
  BY <1>26 DEF WaitGate
<1>27. ASSUME NEW t \in Terminals, Woken(t) PROVE TerminalsTypeOK'
  BY <1>27 DEF Woken
<1>28. ASSUME NEW t \in Terminals, CommandEnds(t) PROVE TerminalsTypeOK'
  BY <1>28 DEF CommandEnds
<1>29. CASE ScopeEnds
  BY <1>29 DEF ScopeEnds
<1>30. CASE UNCHANGED <<callers, terminalVars>>
  BY <1>30
<1> QED
  BY <1>1, <1>2, <1>3, <1>4, <1>5, <1>6, <1>7, <1>8, <1>9, <1>10, <1>11,
     <1>12, <1>13, <1>14, <1>15, <1>16, <1>17, <1>18, <1>19, <1>20, <1>21,
     <1>22, <1>23, <1>24, <1>25, <1>26, <1>27, <1>28, <1>29, <1>30
     DEF TerminalsNext, TerminalStep

-----------------------------------------------------------------------------
(* Control.                                                                *)

\* At first no call runs and no terminal exists.
LEMMA ControlInit == CallersInit /\ TerminalsInit => ControlInv
BY DEF CallersInit, TerminalsInit, ControlInv, StepInv, TargetsInv, SessionsInv, Opens,
       Opening, Early, Late, Locked

\* A call stays at a step of its own operation, holds the lock where it
\* relies on it, and opens a terminal that no answer has been given for.
LEMMA StepNext ==
  ASSUME TypesInv, ControlInv, [TerminalsNext]_<<callers, terminalVars>>, NEW d \in Callers
  PROVE  StepInv(d)'
<1> USE DEF TypesInv, CallersTypeOK, TerminalsTypeOK, Opening, Early, Late, Others, Locked,
            OpenSteps, Opens, Unlocked, ControlInv, StepInv, TargetsInv, SessionsInv
<1> USE CallersAssumption, TerminalsAssumption
<1> USE DEF callers, terminalVars, sessionVars, serverVars, tHistory, Enter, Goto, Leave,
            Return, Failure, GotoFailing, ReturnFailing, GiveUp, Done, NoEffect,
            RunnerOnly, EndPane, EndSessions, NewSession, SeeScope, MissScope
<1>1. ASSUME NEW c \in Callers, WriteFile(c, "metadata", "spec") PROVE StepInv(d)'
  BY <1>1 DEF WriteFile
<1>2. ASSUME NEW c \in Callers, WriteFile(c, "spec", "lock") PROVE StepInv(d)'
  BY <1>2 DEF WriteFile
<1>3. ASSUME NEW c \in Callers, LockTmux(c) PROVE StepInv(d)'
  BY <1>3 DEF LockTmux
<1>4. ASSUME NEW c \in Callers, CheckServer(c) PROVE StepInv(d)'
  BY <1>4 DEF CheckServer
<1>5. ASSUME NEW c \in Callers, CheckScope(c) PROVE StepInv(d)'
  BY <1>5 DEF CheckScope
<1>6. ASSUME NEW c \in Callers, RemoveSocket(c) PROVE StepInv(d)'
  BY <1>6 DEF RemoveSocket
<1>7. ASSUME NEW c \in Callers, CreateServer(c) PROVE StepInv(d)'
  BY <1>7 DEF CreateServer
<1>8. ASSUME NEW c \in Callers, JoinServer(c) PROVE StepInv(d)'
  BY <1>8 DEF JoinServer
<1>9. ASSUME NEW c \in Callers, LaunchFails(c) PROVE StepInv(d)'
  BY <1>9 DEF LaunchFails
<1>10. ASSUME NEW c \in Callers, CheckSession(c) PROVE StepInv(d)'
  BY <1>10 DEF CheckSession
<1>11. ASSUME NEW c \in Callers, WaitSpec(c) PROVE StepInv(d)'
  BY <1>11 DEF WaitSpec
<1>12. ASSUME NEW c \in Callers, Configure(c) PROVE StepInv(d)'
  BY <1>12 DEF Configure
<1>13. ASSUME NEW c \in Callers, Release(c) PROVE StepInv(d)'
  BY <1>13 DEF Release
<1>14. ASSUME NEW c \in Callers, Inspect(c) PROVE StepInv(d)'
  BY <1>14 DEF Inspect
<1>15. ASSUME NEW c \in Callers, Cleanup(c) PROVE StepInv(d)'
  BY <1>15 DEF Cleanup
<1>16. ASSUME NEW c \in Callers, Paste(c) PROVE StepInv(d)'
  BY <1>16 DEF Paste
<1>17. ASSUME NEW c \in Callers, Signal(c) PROVE StepInv(d)'
  BY <1>17 DEF Signal
<1>18. ASSUME NEW c \in Callers, CloseKill(c) PROVE StepInv(d)'
  BY <1>18 DEF CloseKill
<1>19. ASSUME NEW c \in Callers, CloseRemove(c) PROVE StepInv(d)'
  BY <1>19 DEF CloseRemove
<1>20. ASSUME NEW c \in Callers, Cancel(c) PROVE StepInv(d)'
  BY <1>20 DEF Cancel
<1>21. ASSUME NEW c \in Callers, CallerDies(c) PROVE StepInv(d)'
  BY <1>21 DEF CallerDies
<1>22. ASSUME NEW c \in Callers, NEW t \in Terminals, MakeDirectory(c, t)
      PROVE  StepInv(d)'
  BY <1>22 DEF MakeDirectory
<1>23. ASSUME NEW c \in Callers, NEW t \in Terminals, CloseLook(c, t)
      PROVE  StepInv(d)'
  BY <1>23 DEF CloseLook
<1>24. ASSUME NEW c \in Callers, NEW t \in Terminals, NEW o \in {"write", "signal"}, Use(c, t, o)
      PROVE  StepInv(d)'
  BY <1>24 DEF Use
<1>25. ASSUME NEW t \in Terminals, ReadSpec(t) PROVE StepInv(d)'
  BY <1>25 DEF ReadSpec
<1>26. ASSUME NEW t \in Terminals, WaitGate(t) PROVE StepInv(d)'
  BY <1>26 DEF WaitGate
<1>27. ASSUME NEW t \in Terminals, Woken(t) PROVE StepInv(d)'
  BY <1>27 DEF Woken
<1>28. ASSUME NEW t \in Terminals, CommandEnds(t) PROVE StepInv(d)'
  BY <1>28 DEF CommandEnds
<1>29. CASE ScopeEnds
  BY <1>29 DEF ScopeEnds
<1>30. CASE UNCHANGED <<callers, terminalVars>>
  BY <1>30
<1> QED
  BY <1>1, <1>2, <1>3, <1>4, <1>5, <1>6, <1>7, <1>8, <1>9, <1>10, <1>11,
     <1>12, <1>13, <1>14, <1>15, <1>16, <1>17, <1>18, <1>19, <1>20, <1>21,
     <1>22, <1>23, <1>24, <1>25, <1>26, <1>27, <1>28, <1>29, <1>30
     DEF TerminalsNext, TerminalStep

\* Two calls never open the same terminal: terminal.open allocates.
LEMMA TargetsNext ==
  ASSUME TypesInv, ControlInv, [TerminalsNext]_<<callers, terminalVars>>
  PROVE  TargetsInv'
<1> USE DEF TypesInv, CallersTypeOK, TerminalsTypeOK, Opening, Early, Late, Others, Locked,
            OpenSteps, Opens, Unlocked, ControlInv, StepInv, TargetsInv
<1> USE CallersAssumption, TerminalsAssumption
<1> USE DEF callers, terminalVars, sessionVars, serverVars, tHistory, Enter, Goto, Leave,
            Return, Failure, GotoFailing, ReturnFailing, GiveUp, Done, NoEffect,
            RunnerOnly, EndPane, EndSessions, NewSession, SeeScope, MissScope
<1>1. ASSUME NEW c \in Callers, WriteFile(c, "metadata", "spec") PROVE TargetsInv'
  BY <1>1 DEF WriteFile
<1>2. ASSUME NEW c \in Callers, WriteFile(c, "spec", "lock") PROVE TargetsInv'
  BY <1>2 DEF WriteFile
<1>3. ASSUME NEW c \in Callers, LockTmux(c) PROVE TargetsInv'
  BY <1>3 DEF LockTmux
<1>4. ASSUME NEW c \in Callers, CheckServer(c) PROVE TargetsInv'
  BY <1>4 DEF CheckServer
<1>5. ASSUME NEW c \in Callers, CheckScope(c) PROVE TargetsInv'
  BY <1>5 DEF CheckScope
<1>6. ASSUME NEW c \in Callers, RemoveSocket(c) PROVE TargetsInv'
  BY <1>6 DEF RemoveSocket
<1>7. ASSUME NEW c \in Callers, CreateServer(c) PROVE TargetsInv'
  BY <1>7 DEF CreateServer
<1>8. ASSUME NEW c \in Callers, JoinServer(c) PROVE TargetsInv'
  BY <1>8 DEF JoinServer
<1>9. ASSUME NEW c \in Callers, LaunchFails(c) PROVE TargetsInv'
  BY <1>9 DEF LaunchFails
<1>10. ASSUME NEW c \in Callers, CheckSession(c) PROVE TargetsInv'
  BY <1>10 DEF CheckSession
<1>11. ASSUME NEW c \in Callers, WaitSpec(c) PROVE TargetsInv'
  BY <1>11 DEF WaitSpec
<1>12. ASSUME NEW c \in Callers, Configure(c) PROVE TargetsInv'
  BY <1>12 DEF Configure
<1>13. ASSUME NEW c \in Callers, Release(c) PROVE TargetsInv'
  BY <1>13 DEF Release
<1>14. ASSUME NEW c \in Callers, Inspect(c) PROVE TargetsInv'
  BY <1>14 DEF Inspect
<1>15. ASSUME NEW c \in Callers, Cleanup(c) PROVE TargetsInv'
  BY <1>15 DEF Cleanup
<1>16. ASSUME NEW c \in Callers, Paste(c) PROVE TargetsInv'
  BY <1>16 DEF Paste
<1>17. ASSUME NEW c \in Callers, Signal(c) PROVE TargetsInv'
  BY <1>17 DEF Signal
<1>18. ASSUME NEW c \in Callers, CloseKill(c) PROVE TargetsInv'
  BY <1>18 DEF CloseKill
<1>19. ASSUME NEW c \in Callers, CloseRemove(c) PROVE TargetsInv'
  BY <1>19 DEF CloseRemove
<1>20. ASSUME NEW c \in Callers, Cancel(c) PROVE TargetsInv'
  BY <1>20 DEF Cancel
<1>21. ASSUME NEW c \in Callers, CallerDies(c) PROVE TargetsInv'
  BY <1>21 DEF CallerDies
<1>22. ASSUME NEW c \in Callers, NEW t \in Terminals, MakeDirectory(c, t)
      PROVE  TargetsInv'
  BY <1>22 DEF MakeDirectory
<1>23. ASSUME NEW c \in Callers, NEW t \in Terminals, CloseLook(c, t)
      PROVE  TargetsInv'
  BY <1>23 DEF CloseLook
<1>24. ASSUME NEW c \in Callers, NEW t \in Terminals, NEW o \in {"write", "signal"}, Use(c, t, o)
      PROVE  TargetsInv'
  BY <1>24 DEF Use
<1>25. ASSUME NEW t \in Terminals, ReadSpec(t) PROVE TargetsInv'
  BY <1>25 DEF ReadSpec
<1>26. ASSUME NEW t \in Terminals, WaitGate(t) PROVE TargetsInv'
  BY <1>26 DEF WaitGate
<1>27. ASSUME NEW t \in Terminals, Woken(t) PROVE TargetsInv'
  BY <1>27 DEF Woken
<1>28. ASSUME NEW t \in Terminals, CommandEnds(t) PROVE TargetsInv'
  BY <1>28 DEF CommandEnds
<1>29. CASE ScopeEnds
  BY <1>29 DEF ScopeEnds
<1>30. CASE UNCHANGED <<callers, terminalVars>>
  BY <1>30
<1> QED
  BY <1>1, <1>2, <1>3, <1>4, <1>5, <1>6, <1>7, <1>8, <1>9, <1>10, <1>11,
     <1>12, <1>13, <1>14, <1>15, <1>16, <1>17, <1>18, <1>19, <1>20, <1>21,
     <1>22, <1>23, <1>24, <1>25, <1>26, <1>27, <1>28, <1>29, <1>30
     DEF TerminalsNext, TerminalStep

\* A session and its pane come and go together.
LEMMA SessionsNext ==
  ASSUME TypesInv, ControlInv, [TerminalsNext]_<<callers, terminalVars>>
  PROVE  SessionsInv'
<1> USE DEF TypesInv, CallersTypeOK, TerminalsTypeOK, Opening, Early, Late, Others, Locked,
            OpenSteps, Opens, Unlocked, ControlInv, StepInv, SessionsInv
<1> USE CallersAssumption, TerminalsAssumption
<1> USE DEF callers, terminalVars, sessionVars, serverVars, tHistory, Enter, Goto, Leave,
            Return, Failure, GotoFailing, ReturnFailing, GiveUp, Done, NoEffect,
            RunnerOnly, EndPane, EndSessions, NewSession, SeeScope, MissScope
<1>1. ASSUME NEW c \in Callers, WriteFile(c, "metadata", "spec")
      PROVE  SessionsInv'
  BY <1>1 DEF WriteFile
<1>2. ASSUME NEW c \in Callers, WriteFile(c, "spec", "lock") PROVE SessionsInv'
  BY <1>2 DEF WriteFile
<1>3. ASSUME NEW c \in Callers, LockTmux(c) PROVE SessionsInv'
  BY <1>3 DEF LockTmux
<1>4. ASSUME NEW c \in Callers, CheckServer(c) PROVE SessionsInv'
  BY <1>4 DEF CheckServer
<1>5. ASSUME NEW c \in Callers, CheckScope(c) PROVE SessionsInv'
  BY <1>5 DEF CheckScope
<1>6. ASSUME NEW c \in Callers, RemoveSocket(c) PROVE SessionsInv'
  BY <1>6 DEF RemoveSocket
<1>7. ASSUME NEW c \in Callers, CreateServer(c) PROVE SessionsInv'
  BY <1>7 DEF CreateServer
<1>8. ASSUME NEW c \in Callers, JoinServer(c) PROVE SessionsInv'
  <2>1. CASE Listening
    BY <1>8, <2>1 DEF JoinServer, Listening
  <2>2. CASE ~Listening
    BY <1>8, <2>2 DEF JoinServer
  <2> QED BY <2>1, <2>2
<1>9. ASSUME NEW c \in Callers, LaunchFails(c) PROVE SessionsInv'
  BY <1>9 DEF LaunchFails
<1>10. ASSUME NEW c \in Callers, CheckSession(c) PROVE SessionsInv'
  BY <1>10 DEF CheckSession
<1>11. ASSUME NEW c \in Callers, WaitSpec(c) PROVE SessionsInv'
  BY <1>11 DEF WaitSpec
<1>12. ASSUME NEW c \in Callers, Configure(c) PROVE SessionsInv'
  BY <1>12 DEF Configure
<1>13. ASSUME NEW c \in Callers, Release(c) PROVE SessionsInv'
  BY <1>13 DEF Release
<1>14. ASSUME NEW c \in Callers, Inspect(c) PROVE SessionsInv'
  BY <1>14 DEF Inspect
<1>15. ASSUME NEW c \in Callers, Cleanup(c) PROVE SessionsInv'
  BY <1>15 DEF Cleanup
<1>16. ASSUME NEW c \in Callers, Paste(c) PROVE SessionsInv'
  BY <1>16 DEF Paste
<1>17. ASSUME NEW c \in Callers, Signal(c) PROVE SessionsInv'
  BY <1>17 DEF Signal
<1>18. ASSUME NEW c \in Callers, CloseKill(c) PROVE SessionsInv'
  BY <1>18 DEF CloseKill
<1>19. ASSUME NEW c \in Callers, CloseRemove(c) PROVE SessionsInv'
  BY <1>19 DEF CloseRemove
<1>20. ASSUME NEW c \in Callers, Cancel(c) PROVE SessionsInv'
  BY <1>20 DEF Cancel
<1>21. ASSUME NEW c \in Callers, CallerDies(c) PROVE SessionsInv'
  BY <1>21 DEF CallerDies
<1>22. ASSUME NEW c \in Callers, NEW t \in Terminals, MakeDirectory(c, t)
      PROVE  SessionsInv'
  BY <1>22 DEF MakeDirectory
<1>23. ASSUME NEW c \in Callers, NEW t \in Terminals, CloseLook(c, t)
      PROVE  SessionsInv'
  BY <1>23 DEF CloseLook
<1>24. ASSUME NEW c \in Callers, NEW t \in Terminals, NEW o \in {"write", "signal"}, Use(c, t, o)
      PROVE  SessionsInv'
  BY <1>24 DEF Use
<1>25. ASSUME NEW t \in Terminals, ReadSpec(t) PROVE SessionsInv'
  BY <1>25 DEF ReadSpec
<1>26. ASSUME NEW t \in Terminals, WaitGate(t) PROVE SessionsInv'
  BY <1>26 DEF WaitGate
<1>27. ASSUME NEW t \in Terminals, Woken(t) PROVE SessionsInv'
  BY <1>27 DEF Woken
<1>28. ASSUME NEW t \in Terminals, CommandEnds(t) PROVE SessionsInv'
  BY <1>28 DEF CommandEnds
<1>29. CASE ScopeEnds
  BY <1>29 DEF ScopeEnds
<1>30. CASE UNCHANGED <<callers, terminalVars>>
  BY <1>30
<1> QED
  BY <1>1, <1>2, <1>3, <1>4, <1>5, <1>6, <1>7, <1>8, <1>9, <1>10, <1>11,
     <1>12, <1>13, <1>14, <1>15, <1>16, <1>17, <1>18, <1>19, <1>20, <1>21,
     <1>22, <1>23, <1>24, <1>25, <1>26, <1>27, <1>28, <1>29, <1>30
     DEF TerminalsNext, TerminalStep

\* The control invariant is inductive.
LEMMA ControlNext ==
  ASSUME TypesInv, ControlInv, [TerminalsNext]_<<callers, terminalVars>>
  PROVE  ControlInv'
BY StepNext, TargetsNext, SessionsNext DEF ControlInv

-----------------------------------------------------------------------------
(* The wait channel.                                                       *)

\* Release signals the channel before inspect looks at the pane, and nothing
\* takes a signal back.
LEMMA SignalledNext ==
  ASSUME TypesInv, ControlInv, SignalledInv, [TerminalsNext]_<<callers, terminalVars>>
  PROVE  SignalledInv'
<1> USE DEF TypesInv, CallersTypeOK, TerminalsTypeOK, Opening, Early, Late, Others, Locked,
            OpenSteps, Opens, Unlocked, ControlInv, StepInv, TargetsInv,
            SignalledInv, AtGate
<1> USE CallersAssumption, TerminalsAssumption
<1> USE DEF callers, terminalVars, sessionVars, serverVars, tHistory, Enter, Goto, Leave,
            Return, Failure, GotoFailing, ReturnFailing, GiveUp, Done, NoEffect,
            RunnerOnly, EndPane, EndSessions, NewSession, SeeScope, MissScope
<1>1. ASSUME NEW c \in Callers, WriteFile(c, "metadata", "spec")
      PROVE  SignalledInv'
  BY <1>1 DEF WriteFile
<1>2. ASSUME NEW c \in Callers, WriteFile(c, "spec", "lock") PROVE SignalledInv'
  BY <1>2 DEF WriteFile
<1>3. ASSUME NEW c \in Callers, LockTmux(c) PROVE SignalledInv'
  BY <1>3 DEF LockTmux
<1>4. ASSUME NEW c \in Callers, CheckServer(c) PROVE SignalledInv'
  BY <1>4 DEF CheckServer
<1>5. ASSUME NEW c \in Callers, CheckScope(c) PROVE SignalledInv'
  BY <1>5 DEF CheckScope
<1>6. ASSUME NEW c \in Callers, RemoveSocket(c) PROVE SignalledInv'
  BY <1>6 DEF RemoveSocket
<1>7. ASSUME NEW c \in Callers, CreateServer(c) PROVE SignalledInv'
  BY <1>7 DEF CreateServer
<1>8. ASSUME NEW c \in Callers, JoinServer(c) PROVE SignalledInv'
  BY <1>8 DEF JoinServer
<1>9. ASSUME NEW c \in Callers, LaunchFails(c) PROVE SignalledInv'
  BY <1>9 DEF LaunchFails
<1>10. ASSUME NEW c \in Callers, CheckSession(c) PROVE SignalledInv'
  BY <1>10 DEF CheckSession
<1>11. ASSUME NEW c \in Callers, WaitSpec(c) PROVE SignalledInv'
  BY <1>11 DEF WaitSpec
<1>12. ASSUME NEW c \in Callers, Configure(c) PROVE SignalledInv'
  BY <1>12 DEF Configure
<1>13. ASSUME NEW c \in Callers, Release(c) PROVE SignalledInv'
  BY <1>13 DEF Release
<1>14. ASSUME NEW c \in Callers, Inspect(c) PROVE SignalledInv'
  BY <1>14 DEF Inspect
<1>15. ASSUME NEW c \in Callers, Cleanup(c) PROVE SignalledInv'
  BY <1>15 DEF Cleanup
<1>16. ASSUME NEW c \in Callers, Paste(c) PROVE SignalledInv'
  BY <1>16 DEF Paste
<1>17. ASSUME NEW c \in Callers, Signal(c) PROVE SignalledInv'
  BY <1>17 DEF Signal
<1>18. ASSUME NEW c \in Callers, CloseKill(c) PROVE SignalledInv'
  BY <1>18 DEF CloseKill
<1>19. ASSUME NEW c \in Callers, CloseRemove(c) PROVE SignalledInv'
  BY <1>19 DEF CloseRemove
<1>20. ASSUME NEW c \in Callers, Cancel(c) PROVE SignalledInv'
  BY <1>20 DEF Cancel
<1>21. ASSUME NEW c \in Callers, CallerDies(c) PROVE SignalledInv'
  BY <1>21 DEF CallerDies
<1>22. ASSUME NEW c \in Callers, NEW t \in Terminals, MakeDirectory(c, t)
      PROVE  SignalledInv'
  BY <1>22 DEF MakeDirectory
<1>23. ASSUME NEW c \in Callers, NEW t \in Terminals, CloseLook(c, t)
      PROVE  SignalledInv'
  BY <1>23 DEF CloseLook
<1>24. ASSUME NEW c \in Callers, NEW t \in Terminals, NEW o \in {"write", "signal"}, Use(c, t, o)
      PROVE  SignalledInv'
  BY <1>24 DEF Use
<1>25. ASSUME NEW t \in Terminals, ReadSpec(t) PROVE SignalledInv'
  BY <1>25 DEF ReadSpec
<1>26. ASSUME NEW t \in Terminals, WaitGate(t) PROVE SignalledInv'
  BY <1>26 DEF WaitGate
<1>27. ASSUME NEW t \in Terminals, Woken(t) PROVE SignalledInv'
  BY <1>27 DEF Woken
<1>28. ASSUME NEW t \in Terminals, CommandEnds(t) PROVE SignalledInv'
  BY <1>28 DEF CommandEnds
<1>29. CASE ScopeEnds
  BY <1>29 DEF ScopeEnds
<1>30. CASE UNCHANGED <<callers, terminalVars>>
  BY <1>30
<1> QED
  BY <1>1, <1>2, <1>3, <1>4, <1>5, <1>6, <1>7, <1>8, <1>9, <1>10, <1>11,
     <1>12, <1>13, <1>14, <1>15, <1>16, <1>17, <1>18, <1>19, <1>20, <1>21,
     <1>22, <1>23, <1>24, <1>25, <1>26, <1>27, <1>28, <1>29, <1>30
     DEF TerminalsNext, TerminalStep

\* What is reported as open was released before it was reported.
LEMMA OpenedNext ==
  ASSUME TypesInv, ControlInv, SignalledInv, OpenedIsReleased, [TerminalsNext]_<<callers, terminalVars>>
  PROVE  OpenedIsReleased'
<1> USE DEF TypesInv, CallersTypeOK, TerminalsTypeOK, Opening, Early, Late, Others, Locked,
            OpenSteps, Opens, Unlocked, ControlInv, StepInv, SessionsInv,
            SignalledInv, AtGate, OpenedIsReleased
<1> USE CallersAssumption, TerminalsAssumption
<1> USE DEF callers, terminalVars, sessionVars, serverVars, tHistory, Enter, Goto, Leave,
            Return, Failure, GotoFailing, ReturnFailing, GiveUp, Done, NoEffect,
            RunnerOnly, EndPane, EndSessions, NewSession, SeeScope, MissScope
<1>1. ASSUME NEW c \in Callers, WriteFile(c, "metadata", "spec")
      PROVE  OpenedIsReleased'
  BY <1>1 DEF WriteFile
<1>2. ASSUME NEW c \in Callers, WriteFile(c, "spec", "lock")
      PROVE  OpenedIsReleased'
  BY <1>2 DEF WriteFile
<1>3. ASSUME NEW c \in Callers, LockTmux(c) PROVE OpenedIsReleased'
  BY <1>3 DEF LockTmux
<1>4. ASSUME NEW c \in Callers, CheckServer(c) PROVE OpenedIsReleased'
  BY <1>4 DEF CheckServer
<1>5. ASSUME NEW c \in Callers, CheckScope(c) PROVE OpenedIsReleased'
  BY <1>5 DEF CheckScope
<1>6. ASSUME NEW c \in Callers, RemoveSocket(c) PROVE OpenedIsReleased'
  BY <1>6 DEF RemoveSocket
<1>7. ASSUME NEW c \in Callers, CreateServer(c) PROVE OpenedIsReleased'
  BY <1>7 DEF CreateServer
<1>8. ASSUME NEW c \in Callers, JoinServer(c) PROVE OpenedIsReleased'
  BY <1>8 DEF JoinServer
<1>9. ASSUME NEW c \in Callers, LaunchFails(c) PROVE OpenedIsReleased'
  BY <1>9 DEF LaunchFails
<1>10. ASSUME NEW c \in Callers, CheckSession(c) PROVE OpenedIsReleased'
  BY <1>10 DEF CheckSession
<1>11. ASSUME NEW c \in Callers, WaitSpec(c) PROVE OpenedIsReleased'
  BY <1>11 DEF WaitSpec
<1>12. ASSUME NEW c \in Callers, Configure(c) PROVE OpenedIsReleased'
  BY <1>12 DEF Configure
<1>13. ASSUME NEW c \in Callers, Release(c) PROVE OpenedIsReleased'
  BY <1>13 DEF Release
<1>14. ASSUME NEW c \in Callers, Inspect(c) PROVE OpenedIsReleased'
  BY <1>14 DEF Inspect
<1>15. ASSUME NEW c \in Callers, Cleanup(c) PROVE OpenedIsReleased'
  BY <1>15 DEF Cleanup
<1>16. ASSUME NEW c \in Callers, Paste(c) PROVE OpenedIsReleased'
  BY <1>16 DEF Paste
<1>17. ASSUME NEW c \in Callers, Signal(c) PROVE OpenedIsReleased'
  BY <1>17 DEF Signal
<1>18. ASSUME NEW c \in Callers, CloseKill(c) PROVE OpenedIsReleased'
  BY <1>18 DEF CloseKill
<1>19. ASSUME NEW c \in Callers, CloseRemove(c) PROVE OpenedIsReleased'
  BY <1>19 DEF CloseRemove
<1>20. ASSUME NEW c \in Callers, Cancel(c) PROVE OpenedIsReleased'
  BY <1>20 DEF Cancel
<1>21. ASSUME NEW c \in Callers, CallerDies(c) PROVE OpenedIsReleased'
  BY <1>21 DEF CallerDies
<1>22. ASSUME NEW c \in Callers, NEW t \in Terminals, MakeDirectory(c, t)
      PROVE  OpenedIsReleased'
  BY <1>22 DEF MakeDirectory
<1>23. ASSUME NEW c \in Callers, NEW t \in Terminals, CloseLook(c, t)
      PROVE  OpenedIsReleased'
  BY <1>23 DEF CloseLook
<1>24. ASSUME NEW c \in Callers, NEW t \in Terminals, NEW o \in {"write", "signal"}, Use(c, t, o)
      PROVE  OpenedIsReleased'
  BY <1>24 DEF Use
<1>25. ASSUME NEW t \in Terminals, ReadSpec(t) PROVE OpenedIsReleased'
  BY <1>25 DEF ReadSpec
<1>26. ASSUME NEW t \in Terminals, WaitGate(t) PROVE OpenedIsReleased'
  BY <1>26 DEF WaitGate
<1>27. ASSUME NEW t \in Terminals, Woken(t) PROVE OpenedIsReleased'
  BY <1>27 DEF Woken
<1>28. ASSUME NEW t \in Terminals, CommandEnds(t) PROVE OpenedIsReleased'
  BY <1>28 DEF CommandEnds
<1>29. CASE ScopeEnds
  BY <1>29 DEF ScopeEnds
<1>30. CASE UNCHANGED <<callers, terminalVars>>
  BY <1>30
<1> QED
  BY <1>1, <1>2, <1>3, <1>4, <1>5, <1>6, <1>7, <1>8, <1>9, <1>10, <1>11,
     <1>12, <1>13, <1>14, <1>15, <1>16, <1>17, <1>18, <1>19, <1>20, <1>21,
     <1>22, <1>23, <1>24, <1>25, <1>26, <1>27, <1>28, <1>29, <1>30
     DEF TerminalsNext, TerminalStep

-----------------------------------------------------------------------------
(* The server.                                                             *)

\* No terminal enters the scope between the look at it and the removal of the
\* socket.
LEMMA SeenNext ==
  ASSUME TypesInv, ControlInv, ScopeInv, [TerminalsNext]_<<callers, terminalVars>>
  PROVE  SeenInv'
<1> USE DEF TypesInv, CallersTypeOK, TerminalsTypeOK, Opening, Early, Late, Others, Locked,
            OpenSteps, Opens, Unlocked, ControlInv, StepInv, ScopeInv, SeenInv,
            ServerInv
<1> USE CallersAssumption, TerminalsAssumption
<1> USE DEF callers, terminalVars, sessionVars, serverVars, tHistory, Enter, Goto, Leave,
            Return, Failure, GotoFailing, ReturnFailing, GiveUp, Done, NoEffect,
            RunnerOnly, EndPane, EndSessions, NewSession, SeeScope, MissScope
<1>1. ASSUME NEW c \in Callers, WriteFile(c, "metadata", "spec") PROVE SeenInv'
  BY <1>1 DEF WriteFile
<1>2. ASSUME NEW c \in Callers, WriteFile(c, "spec", "lock") PROVE SeenInv'
  BY <1>2 DEF WriteFile
<1>3. ASSUME NEW c \in Callers, LockTmux(c) PROVE SeenInv'
  BY <1>3 DEF LockTmux
<1>4. ASSUME NEW c \in Callers, CheckServer(c) PROVE SeenInv'
  BY <1>4 DEF CheckServer
<1>5. ASSUME NEW c \in Callers, CheckScope(c) PROVE SeenInv'
  BY <1>5 DEF CheckScope
<1>6. ASSUME NEW c \in Callers, RemoveSocket(c) PROVE SeenInv'
  BY <1>6 DEF RemoveSocket
<1>7. ASSUME NEW c \in Callers, CreateServer(c) PROVE SeenInv'
  BY <1>7 DEF CreateServer
<1>8. ASSUME NEW c \in Callers, JoinServer(c) PROVE SeenInv'
  BY <1>8 DEF JoinServer
<1>9. ASSUME NEW c \in Callers, LaunchFails(c) PROVE SeenInv'
  BY <1>9 DEF LaunchFails
<1>10. ASSUME NEW c \in Callers, CheckSession(c) PROVE SeenInv'
  BY <1>10 DEF CheckSession
<1>11. ASSUME NEW c \in Callers, WaitSpec(c) PROVE SeenInv'
  BY <1>11 DEF WaitSpec
<1>12. ASSUME NEW c \in Callers, Configure(c) PROVE SeenInv'
  BY <1>12 DEF Configure
<1>13. ASSUME NEW c \in Callers, Release(c) PROVE SeenInv'
  BY <1>13 DEF Release
<1>14. ASSUME NEW c \in Callers, Inspect(c) PROVE SeenInv'
  BY <1>14 DEF Inspect
<1>15. ASSUME NEW c \in Callers, Cleanup(c) PROVE SeenInv'
  BY <1>15 DEF Cleanup
<1>16. ASSUME NEW c \in Callers, Paste(c) PROVE SeenInv'
  BY <1>16 DEF Paste
<1>17. ASSUME NEW c \in Callers, Signal(c) PROVE SeenInv'
  BY <1>17 DEF Signal
<1>18. ASSUME NEW c \in Callers, CloseKill(c) PROVE SeenInv'
  BY <1>18 DEF CloseKill
<1>19. ASSUME NEW c \in Callers, CloseRemove(c) PROVE SeenInv'
  BY <1>19 DEF CloseRemove
<1>20. ASSUME NEW c \in Callers, Cancel(c) PROVE SeenInv'
  BY <1>20 DEF Cancel
<1>21. ASSUME NEW c \in Callers, CallerDies(c) PROVE SeenInv'
  BY <1>21 DEF CallerDies
<1>22. ASSUME NEW c \in Callers, NEW t \in Terminals, MakeDirectory(c, t)
      PROVE  SeenInv'
  BY <1>22 DEF MakeDirectory
<1>23. ASSUME NEW c \in Callers, NEW t \in Terminals, CloseLook(c, t)
      PROVE  SeenInv'
  BY <1>23 DEF CloseLook
<1>24. ASSUME NEW c \in Callers, NEW t \in Terminals, NEW o \in {"write", "signal"}, Use(c, t, o)
      PROVE  SeenInv'
  BY <1>24 DEF Use
<1>25. ASSUME NEW t \in Terminals, ReadSpec(t) PROVE SeenInv'
  BY <1>25 DEF ReadSpec
<1>26. ASSUME NEW t \in Terminals, WaitGate(t) PROVE SeenInv'
  BY <1>26 DEF WaitGate
<1>27. ASSUME NEW t \in Terminals, Woken(t) PROVE SeenInv'
  BY <1>27 DEF Woken
<1>28. ASSUME NEW t \in Terminals, CommandEnds(t) PROVE SeenInv'
  BY <1>28 DEF CommandEnds
<1>29. CASE ScopeEnds
  BY <1>29 DEF ScopeEnds
<1>30. CASE UNCHANGED <<callers, terminalVars>>
  BY <1>30
<1> QED
  BY <1>1, <1>2, <1>3, <1>4, <1>5, <1>6, <1>7, <1>8, <1>9, <1>10, <1>11,
     <1>12, <1>13, <1>14, <1>15, <1>16, <1>17, <1>18, <1>19, <1>20, <1>21,
     <1>22, <1>23, <1>24, <1>25, <1>26, <1>27, <1>28, <1>29, <1>30
     DEF TerminalsNext, TerminalStep

\* The end of sessions ends the server in the scope with its last one.
LEMMA EndSessionsKeeps ==
  ASSUME TypesInv, ServerInv, NEW ts \in SUBSET Terminals, EndSessions(ts),
         missed \subseteq missed'
  PROVE  ServerInv'
<1> USE DEF TypesInv, TerminalsTypeOK, ServerInv
<1> DEFINE last == /\ \E t \in ts : home[t] = "scope"
                  /\ \A t \in Terminals \ ts : home[t] # "scope"
<1>1. \A t \in Terminals : home'[t] = IF t \in ts THEN "none" ELSE home[t]
  BY DEF EndSessions
<1>2. CASE last
  <2>1. \A t \in Terminals : home'[t] # "scope"
    BY <1>1, <1>2
  <2>2. socket' # "scope"
    BY <1>2 DEF EndSessions, Listening
  <2> QED BY <2>1, <2>2
<1>3. CASE ~last
  <2>1. scope' = scope
    BY <1>3 DEF EndSessions
  <2>2. socket' = "scope" <=> socket = "scope"
    BY <1>3 DEF EndSessions
  <2>3. ASSUME socket = "scope" PROVE \E t \in Terminals : home'[t] = "scope"
    <3>1. PICK t \in Terminals : home[t] = "scope" /\ t \notin ts
      BY <1>3, <2>3
    <3> QED BY <1>1, <3>1
  <2>4. \A t \in Terminals : home'[t] = "scope" => home[t] = "scope"
    BY <1>1
  <2> QED BY <2>1, <2>2, <2>3, <2>4
<1> QED BY <1>2, <1>3

\* A server that has sessions in the scope keeps its scope and its socket; the
\* last session takes both along.
LEMMA ServerNext ==
  ASSUME TypesInv, ControlInv, ScopeInv, [TerminalsNext]_<<callers, terminalVars>>
  PROVE  ServerInv'
<1> USE DEF TypesInv, CallersTypeOK, TerminalsTypeOK, Opening, Early, Late, Others, Locked,
            OpenSteps, Opens, Unlocked, ControlInv, StepInv, ScopeInv, SeenInv
<1> USE CallersAssumption, TerminalsAssumption
<1> USE DEF callers, terminalVars, sessionVars, serverVars, tHistory, Enter, Goto, Leave,
            Return, Failure, GotoFailing, ReturnFailing, GiveUp, Done, NoEffect,
            RunnerOnly, EndPane, NewSession, SeeScope, MissScope
<1>1. ASSUME NEW c \in Callers, WriteFile(c, "metadata", "spec") PROVE ServerInv'
  BY <1>1 DEF WriteFile, ServerInv
<1>2. ASSUME NEW c \in Callers, WriteFile(c, "spec", "lock") PROVE ServerInv'
  BY <1>2 DEF WriteFile, ServerInv
<1>3. ASSUME NEW c \in Callers, LockTmux(c) PROVE ServerInv'
  BY <1>3 DEF LockTmux, ServerInv
<1>4. ASSUME NEW c \in Callers, CheckServer(c) PROVE ServerInv'
  BY <1>4 DEF CheckServer, ServerInv
<1>5. ASSUME NEW c \in Callers, CheckScope(c) PROVE ServerInv'
  BY <1>5 DEF CheckScope, ServerInv
<1>6. ASSUME NEW c \in Callers, RemoveSocket(c) PROVE ServerInv'
  BY <1>6 DEF RemoveSocket, ServerInv
<1>7. ASSUME NEW c \in Callers, CreateServer(c) PROVE ServerInv'
  <2>1. /\ target[c] \in Terminals /\ home' = [home EXCEPT ![target[c]] = "scope"]
        /\ socket' = "scope" /\ scope' = "active"
    BY <1>7 DEF CreateServer
  <2>2. home'[target[c]] = "scope"
    BY <2>1
  <2> QED BY <2>1, <2>2 DEF ServerInv
<1>8. ASSUME NEW c \in Callers, JoinServer(c) PROVE ServerInv'
  <2>1. target[c] \in Terminals /\ home[target[c]] = "none"
    BY <1>8 DEF JoinServer
  <2>2. CASE Listening
    BY <1>8, <2>1, <2>2 DEF JoinServer, ServerInv
  <2>3. CASE ~Listening
    <3>1. socket # "scope"
      BY <2>3 DEF Listening
    <3>2. home' = [home EXCEPT ![target[c]] = "stray"] /\ socket' = "stray"
      BY <1>8, <2>3 DEF JoinServer
    <3>3. \A t \in Terminals : home'[t] = "scope" => home[t] = "scope"
      BY <2>1, <3>2
    <3>4. scope' = scope /\ missed' = missed
      BY <1>8, <2>3 DEF JoinServer
    <3> QED BY <3>1, <3>2, <3>3, <3>4 DEF ServerInv
  <2> QED BY <2>2, <2>3
<1>9. ASSUME NEW c \in Callers, LaunchFails(c) PROVE ServerInv'
  BY <1>9 DEF LaunchFails, ServerInv
<1>10. ASSUME NEW c \in Callers, CheckSession(c) PROVE ServerInv'
  BY <1>10 DEF CheckSession, ServerInv
<1>11. ASSUME NEW c \in Callers, WaitSpec(c) PROVE ServerInv'
  BY <1>11 DEF WaitSpec, ServerInv
<1>12. ASSUME NEW c \in Callers, Configure(c) PROVE ServerInv'
  BY <1>12 DEF Configure, ServerInv
<1>13. ASSUME NEW c \in Callers, Release(c) PROVE ServerInv'
  BY <1>13 DEF Release, ServerInv
<1>14. ASSUME NEW c \in Callers, Inspect(c) PROVE ServerInv'
  BY <1>14 DEF Inspect, ServerInv
<1>15. ASSUME NEW c \in Callers, Cleanup(c) PROVE ServerInv'
  <2>1. target[c] \in Terminals
    BY <1>15 DEF Cleanup
  <2>2. EndSessions({target[c]}) \/ UNCHANGED <<home, socket, scope>>
    BY <1>15 DEF Cleanup
  <2>3. missed \subseteq missed'
    BY <1>15 DEF Cleanup
  <2> QED BY <2>1, <2>2, <2>3, EndSessionsKeeps DEF ServerInv
<1>16. ASSUME NEW c \in Callers, Paste(c) PROVE ServerInv'
  BY <1>16 DEF Paste, ServerInv
<1>17. ASSUME NEW c \in Callers, Signal(c) PROVE ServerInv'
  <2>1. target[c] \in Terminals
    BY <1>17 DEF Signal
  <2>2. EndSessions({target[c]}) \/ UNCHANGED <<home, socket, scope>>
    BY <1>17 DEF Signal
  <2>3. missed \subseteq missed'
    BY <1>17 DEF Signal
  <2> QED BY <2>1, <2>2, <2>3, EndSessionsKeeps DEF ServerInv
<1>18. ASSUME NEW c \in Callers, CloseKill(c) PROVE ServerInv'
  <2>1. target[c] \in Terminals
    BY <1>18 DEF CloseKill
  <2>2. EndSessions({target[c]}) \/ UNCHANGED <<home, socket, scope>>
    BY <1>18 DEF CloseKill
  <2>3. missed \subseteq missed'
    BY <1>18 DEF CloseKill
  <2> QED BY <2>1, <2>2, <2>3, EndSessionsKeeps DEF ServerInv
<1>19. ASSUME NEW c \in Callers, CloseRemove(c) PROVE ServerInv'
  BY <1>19 DEF CloseRemove, ServerInv
<1>20. ASSUME NEW c \in Callers, Cancel(c) PROVE ServerInv'
  BY <1>20 DEF Cancel, ServerInv
<1>21. ASSUME NEW c \in Callers, CallerDies(c) PROVE ServerInv'
  <2>1. PICK mine \in SUBSET Terminals : EndSessions(mine)
    BY <1>21 DEF CallerDies
  <2>2. missed \subseteq missed'
    BY <1>21 DEF CallerDies
  <2> QED BY <2>1, <2>2, EndSessionsKeeps
<1>22. ASSUME NEW c \in Callers, NEW t \in Terminals, MakeDirectory(c, t)
      PROVE  ServerInv'
  BY <1>22 DEF MakeDirectory, ServerInv
<1>23. ASSUME NEW c \in Callers, NEW t \in Terminals, CloseLook(c, t)
      PROVE  ServerInv'
  BY <1>23 DEF CloseLook, ServerInv
<1>24. ASSUME NEW c \in Callers, NEW t \in Terminals, NEW o \in {"write", "signal"}, Use(c, t, o)
      PROVE  ServerInv'
  BY <1>24 DEF Use, ServerInv
<1>25. ASSUME NEW t \in Terminals, ReadSpec(t) PROVE ServerInv'
  <2>1. EndSessions({t}) \/ UNCHANGED <<home, socket, scope>>
    BY <1>25 DEF ReadSpec
  <2>2. missed \subseteq missed'
    BY <1>25 DEF ReadSpec
  <2> QED BY <2>1, <2>2, EndSessionsKeeps DEF ServerInv
<1>26. ASSUME NEW t \in Terminals, WaitGate(t) PROVE ServerInv'
  <2>1. EndSessions({t}) \/ UNCHANGED <<home, socket, scope>>
    BY <1>26 DEF WaitGate
  <2>2. missed \subseteq missed'
    BY <1>26 DEF WaitGate
  <2> QED BY <2>1, <2>2, EndSessionsKeeps DEF ServerInv
<1>27. ASSUME NEW t \in Terminals, Woken(t) PROVE ServerInv'
  BY <1>27 DEF Woken, ServerInv
<1>28. ASSUME NEW t \in Terminals, CommandEnds(t) PROVE ServerInv'
  <2>1. EndSessions({t}) \/ UNCHANGED <<home, socket, scope>>
    BY <1>28 DEF CommandEnds
  <2>2. missed \subseteq missed'
    BY <1>28 DEF CommandEnds
  <2> QED BY <2>1, <2>2, EndSessionsKeeps DEF ServerInv
<1>29. CASE ScopeEnds
  BY <1>29 DEF ScopeEnds, ServerInv
<1>30. CASE UNCHANGED <<callers, terminalVars>>
  BY <1>30 DEF ServerInv
<1> QED
  BY <1>1, <1>2, <1>3, <1>4, <1>5, <1>6, <1>7, <1>8, <1>9, <1>10, <1>11,
     <1>12, <1>13, <1>14, <1>15, <1>16, <1>17, <1>18, <1>19, <1>20, <1>21,
     <1>22, <1>23, <1>24, <1>25, <1>26, <1>27, <1>28, <1>29, <1>30
     DEF TerminalsNext, TerminalStep

\* The cleanup of a failed open ends every session that the socket reaches.
LEMMA RefusedNext ==
  ASSUME TypesInv, ControlInv, ScopeInv, RefusedInv, [TerminalsNext]_<<callers, terminalVars>>
  PROVE  RefusedInv'
<1> USE DEF TypesInv, CallersTypeOK, TerminalsTypeOK, Opening, Early, Late, Others, Locked,
            OpenSteps, Opens, Unlocked, ControlInv, StepInv, SessionsInv, ScopeInv, ServerInv,
            RefusedInv, Reachable
<1> USE CallersAssumption, TerminalsAssumption
<1> USE DEF callers, terminalVars, sessionVars, serverVars, tHistory, Enter, Goto, Leave,
            Return, Failure, GotoFailing, ReturnFailing, GiveUp, Done, NoEffect,
            RunnerOnly, EndPane, EndSessions, NewSession, SeeScope, MissScope
<1>1. ASSUME NEW c \in Callers, WriteFile(c, "metadata", "spec") PROVE RefusedInv'
  BY <1>1 DEF WriteFile
<1>2. ASSUME NEW c \in Callers, WriteFile(c, "spec", "lock") PROVE RefusedInv'
  BY <1>2 DEF WriteFile
<1>3. ASSUME NEW c \in Callers, LockTmux(c) PROVE RefusedInv'
  BY <1>3 DEF LockTmux
<1>4. ASSUME NEW c \in Callers, CheckServer(c) PROVE RefusedInv'
  BY <1>4 DEF CheckServer
<1>5. ASSUME NEW c \in Callers, CheckScope(c) PROVE RefusedInv'
  BY <1>5 DEF CheckScope
<1>6. ASSUME NEW c \in Callers, RemoveSocket(c) PROVE RefusedInv'
  BY <1>6 DEF RemoveSocket
<1>7. ASSUME NEW c \in Callers, CreateServer(c) PROVE RefusedInv'
  BY <1>7 DEF CreateServer
<1>8. ASSUME NEW c \in Callers, JoinServer(c) PROVE RefusedInv'
  BY <1>8 DEF JoinServer
<1>9. ASSUME NEW c \in Callers, LaunchFails(c) PROVE RefusedInv'
  BY <1>9 DEF LaunchFails
<1>10. ASSUME NEW c \in Callers, CheckSession(c) PROVE RefusedInv'
  BY <1>10 DEF CheckSession
<1>11. ASSUME NEW c \in Callers, WaitSpec(c) PROVE RefusedInv'
  BY <1>11 DEF WaitSpec
<1>12. ASSUME NEW c \in Callers, Configure(c) PROVE RefusedInv'
  BY <1>12 DEF Configure
<1>13. ASSUME NEW c \in Callers, Release(c) PROVE RefusedInv'
  BY <1>13 DEF Release
<1>14. ASSUME NEW c \in Callers, Inspect(c) PROVE RefusedInv'
  BY <1>14 DEF Inspect
<1>15. ASSUME NEW c \in Callers, Cleanup(c) PROVE RefusedInv'
  BY <1>15 DEF Cleanup
<1>16. ASSUME NEW c \in Callers, Paste(c) PROVE RefusedInv'
  BY <1>16 DEF Paste
<1>17. ASSUME NEW c \in Callers, Signal(c) PROVE RefusedInv'
  BY <1>17 DEF Signal
<1>18. ASSUME NEW c \in Callers, CloseKill(c) PROVE RefusedInv'
  BY <1>18 DEF CloseKill
<1>19. ASSUME NEW c \in Callers, CloseRemove(c) PROVE RefusedInv'
  BY <1>19 DEF CloseRemove
<1>20. ASSUME NEW c \in Callers, Cancel(c) PROVE RefusedInv'
  BY <1>20 DEF Cancel
<1>21. ASSUME NEW c \in Callers, CallerDies(c) PROVE RefusedInv'
  BY <1>21 DEF CallerDies
<1>22. ASSUME NEW c \in Callers, NEW t \in Terminals, MakeDirectory(c, t)
      PROVE  RefusedInv'
  BY <1>22 DEF MakeDirectory
<1>23. ASSUME NEW c \in Callers, NEW t \in Terminals, CloseLook(c, t)
      PROVE  RefusedInv'
  BY <1>23 DEF CloseLook
<1>24. ASSUME NEW c \in Callers, NEW t \in Terminals, NEW o \in {"write", "signal"}, Use(c, t, o)
      PROVE  RefusedInv'
  BY <1>24 DEF Use
<1>25. ASSUME NEW t \in Terminals, ReadSpec(t) PROVE RefusedInv'
  BY <1>25 DEF ReadSpec
<1>26. ASSUME NEW t \in Terminals, WaitGate(t) PROVE RefusedInv'
  BY <1>26 DEF WaitGate
<1>27. ASSUME NEW t \in Terminals, Woken(t) PROVE RefusedInv'
  BY <1>27 DEF Woken
<1>28. ASSUME NEW t \in Terminals, CommandEnds(t) PROVE RefusedInv'
  BY <1>28 DEF CommandEnds
<1>29. CASE ScopeEnds
  BY <1>29 DEF ScopeEnds
<1>30. CASE UNCHANGED <<callers, terminalVars>>
  BY <1>30
<1> QED
  BY <1>1, <1>2, <1>3, <1>4, <1>5, <1>6, <1>7, <1>8, <1>9, <1>10, <1>11,
     <1>12, <1>13, <1>14, <1>15, <1>16, <1>17, <1>18, <1>19, <1>20, <1>21,
     <1>22, <1>23, <1>24, <1>25, <1>26, <1>27, <1>28, <1>29, <1>30
     DEF TerminalsNext, TerminalStep

-----------------------------------------------------------------------------
(* The properties.                                                         *)

WaitInv  == TypesInv /\ ControlInv /\ SignalledInv /\ OpenedIsReleased
ReachInv == TypesInv /\ ControlInv /\ ScopeInv /\ RefusedInv

\* The signal of the channel.
LEMMA WaitInvHolds == TerminalsSpec => []WaitInv
<1>1. CallersInit /\ TerminalsInit => WaitInv
  BY TypeInit, ControlInit
     DEF WaitInv, CallersInit, TerminalsInit, SignalledInv, OpenedIsReleased
<1>2. WaitInv /\ [TerminalsNext]_<<callers, terminalVars>> => WaitInv'
  BY CallersTypeNext, TerminalsTypeNext, ControlNext, SignalledNext, OpenedNext
     DEF WaitInv, TypesInv, ControlInv
<1> QED BY <1>1, <1>2, PTL DEF TerminalsSpec

\* What the socket and the cleanup reach, except what was missed.
LEMMA ReachInvHolds == TerminalsSpec => []ReachInv
<1>1. CallersInit /\ TerminalsInit => ReachInv
  BY TypeInit, ControlInit
     DEF ReachInv, CallersInit, TerminalsInit, ScopeInv, SeenInv, ServerInv, RefusedInv
<1>2. ReachInv /\ [TerminalsNext]_<<callers, terminalVars>> => ReachInv'
  BY CallersTypeNext, TerminalsTypeNext, ControlNext, SeenNext, ServerNext,
     RefusedNext
     DEF ReachInv, TypesInv, ControlInv, ScopeInv
<1> QED BY <1>1, <1>2, PTL DEF TerminalsSpec

\* The sessions, the servers and what the calls hold of them are of their kinds.
THEOREM TerminalsTypeCorrect == TerminalsSpec => []TerminalsTypeOK
<1>1. WaitInv => TerminalsTypeOK
  BY DEF WaitInv, TypesInv
<1> QED BY <1>1, WaitInvHolds, PTL

\* A runner of a reported terminal finds its signal, whichever of terminal.open's
\* "wait-for -S" and the runner's "wait-for" tmux sees first.
THEOREM OpenedIsReleasedHolds == TerminalsSpec => []OpenedIsReleased
<1>1. WaitInv => OpenedIsReleased
  BY DEF WaitInv
<1> QED BY <1>1, WaitInvHolds, PTL

\* The lock keeps openers from taking each other's server for a dead one: the
\* socket of the scope's server stays where it is, unless a systemctl that fails,
\* or is killed with its context, does not tell of the scope.
THEOREM TerminalsSurviveHolds == TerminalsSpec => []TerminalsSurvive
<1>1. ReachInv => TerminalsSurvive
  BY DEF ReachInv, TypesInv, TerminalsTypeOK, ScopeInv, ServerInv, TerminalsSurvive, Reachable
<1> QED BY <1>1, ReachInvHolds, PTL

\* The deferred cleanup ends the session of a failed open wherever it failed,
\* except where it or a systemctl could not be run, and in a stray server that has
\* lost its socket.
THEOREM FailedOpenRunsNothingHolds == TerminalsSpec => []FailedOpenRunsNothing
<1>1. ReachInv => FailedOpenRunsNothing
  BY DEF ReachInv, TypesInv, TerminalsTypeOK, ControlInv, SessionsInv, RefusedInv,
         FailedOpenRunsNothing, Reachable
<1> QED BY <1>1, ReachInvHolds, PTL
=============================================================================
