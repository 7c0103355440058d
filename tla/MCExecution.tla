----------------------------- MODULE MCExecution -----------------------------
(***************************************************************************)
(* Terminals, jobs, artifacts and direct runs, for TLC.  They share no     *)
(* state but the callers', so that what one of them can reach does not     *)
(* depend on the others: a behaviour moves the one that it has in focus.   *)
(***************************************************************************)
EXTENDS Terminals, JobLifecycle, ArtifactStore, DirectRun, TLC

VARIABLE focus

vars == <<focus, callers, terminalVars, jobVars, artifactVars, runVars>>

TypeOK == TerminalsTypeOK /\ JobsTypeOK /\ ArtifactsTypeOK /\ RunTypeOK

Init ==
    /\ focus \in {"terminals", "jobs", "artifacts", "run"}
    /\ CallersInit /\ TerminalsInit /\ JobsInit /\ ArtifactsInit /\ RunInit
    /\ focus # "artifacts" => made = {} /\ dest = NoArtifact

Next ==
    /\ UNCHANGED focus
    /\ \/ /\ focus = "terminals" /\ TerminalsNext
          /\ UNCHANGED <<jobVars, artifactVars, runVars>>
       \/ /\ focus = "jobs" /\ JobsNext
          /\ UNCHANGED <<terminalVars, artifactVars, runVars>>
       \/ /\ focus = "artifacts" /\ ArtifactsNext
          /\ UNCHANGED <<terminalVars, jobVars, runVars>>
       \/ /\ focus = "run" /\ RunNext
          /\ UNCHANGED <<terminalVars, jobVars, artifactVars>>

Spec == Init /\ [][Next]_vars

\* Terminals are interchangeable.
TerminalSymmetry == Permutations(Terminals)
=============================================================================
