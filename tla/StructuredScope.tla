-------------------------- MODULE StructuredScope --------------------------
(***************************************************************************)
(* What an AsyncScope promises (core/async_scope.hpp, class comment): it   *)
(* owns every operation spawned into it until that operation completes,    *)
(* closing it rejects new work, and it is joined exactly when it is closed *)
(* and owns nothing.                                                       *)
(***************************************************************************)
CONSTANT Ops

VARIABLES
    phase,   \* AsyncScopeStatus
    live,    \* operations the scope owns
    done     \* operations that completed

vars == <<phase, live, done>>

Init == phase = "open" /\ live = {} /\ done = {}

\* An open scope accepts an operation it has never seen.
Spawn(o) ==
    /\ phase = "open" /\ o \notin live \cup done
    /\ live' = live \cup {o}
    /\ UNCHANGED <<phase, done>>

\* join(): joined at once when nothing is owned.
Join ==
    /\ phase = "open"
    /\ phase' = IF live = {} THEN "joined" ELSE "joining"
    /\ UNCHANGED <<live, done>>

\* An operation completes; the last one of a closed scope joins it.
Complete(o) ==
    /\ o \in live
    /\ live' = live \ {o}
    /\ done' = done \cup {o}
    /\ phase' = IF phase = "joining" /\ live' = {} THEN "joined" ELSE phase

Next == Join \/ \E o \in Ops : Spawn(o) \/ Complete(o)

\* After join() the owner provides progress, so every owned operation completes.
Fairness == \A o \in Ops : WF_vars(phase = "joining" /\ Complete(o))

SafeSpec == Init /\ [][Next]_vars

Spec == SafeSpec /\ Fairness
=============================================================================
