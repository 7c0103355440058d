-------------------------- MODULE AtomicArtifacts --------------------------
(***************************************************************************)
(* What the artifact store promises, without calls, temporary directories, *)
(* entries or links.  An artifact appears whole, in one step, and once;    *)
(* only a delete takes anything of it away.  A destination that exists is  *)
(* never written by a call without overwrite; and of such calls one at     *)
(* most reports a creation, which nobody takes back.                       *)
(***************************************************************************)
CONSTANTS Artifacts, Nothing, Foreign

VARIABLES artifact,      \* what is known of an artifact
          destination,   \* the artifact that lies there, a file of somebody
                         \* else's, or nothing
          reported,      \* whether a call has reported a creation
          overwritten    \* whether the destination was written with overwrite

vars == <<artifact, destination, reported, overwritten>>

Available == {a \in Artifacts : artifact[a] # "absent"}

Init ==
    /\ artifact \in [Artifacts -> {"absent", "complete"}]
    /\ destination \in {Nothing, Foreign}
    /\ reported = FALSE /\ overwritten = FALSE

Becomes(a, from, to) ==
    /\ artifact[a] = from
    /\ artifact' = [artifact EXCEPT ![a] = to]
    /\ UNCHANGED <<destination, reported, overwritten>>

Publish(a) == Becomes(a, "absent", "complete")
Spoil(a)   == Becomes(a, "complete", "removing")
Remove(a)  == Becomes(a, "removing", "removed")

Create(a) ==
    /\ destination = Nothing /\ a \in Available
    /\ destination' = a
    /\ reported' \in {reported, TRUE}
    /\ UNCHANGED <<artifact, overwritten>>

Report ==
    /\ ~reported /\ destination \in Artifacts
    /\ reported' = TRUE
    /\ UNCHANGED <<artifact, destination, overwritten>>

\* A creation that is not reported may be undone, not a file of somebody else's.
Undo ==
    /\ ~reported /\ destination \in Artifacts
    /\ destination' = Nothing
    /\ UNCHANGED <<artifact, reported, overwritten>>

Overwrite(a) ==
    /\ a \in Available
    /\ destination' = a /\ overwritten' = TRUE
    /\ UNCHANGED <<artifact, reported>>

ForeignCreates ==
    /\ destination = Nothing /\ destination' = Foreign
    /\ UNCHANGED <<artifact, reported, overwritten>>

Next ==
    \/ \E a \in Artifacts :
         \/ Publish(a) \/ Spoil(a) \/ Remove(a) \/ Create(a) \/ Overwrite(a)
    \/ Report \/ Undo \/ ForeignCreates

Spec == Init /\ [][Next]_vars
=============================================================================
