---------------------------- MODULE MCSimulation ----------------------------
(* The loop of the ranks and the life of a process, one at a time, for TLC. *)
EXTENDS MCSimulationLoop, RunLifecycle

VARIABLE subject  \* which of them this behaviour is about

MCPlugins == <<"openPMD", "other">>

MCSpecies == <<"Default", "Boundary">>

\* What a behaviour is not about stays in an initial state.
Idle(x) == subject # x

MCInit ==
    /\ subject \in {"ranks", "life"} /\ Init
    /\ LifeInit /\ (Idle("life") => options.status = "error")

MCNext ==
    \/ subject = "ranks" /\ Next /\ UNCHANGED <<subject, life>>
    \/ subject = "life" /\ LifeNext /\ UNCHANGED <<subject, vars>>

\* Behaviours of the ranks are fair; the others do not count for what ranks must do.
MCSpec == MCInit /\ [][MCNext]_<<subject, vars, life>> /\ Fairness
=============================================================================
