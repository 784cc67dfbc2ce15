--------------------------- MODULE CheckpointTimer ---------------------------
(***************************************************************************)
(* The thread that requests a checkpoint every checkpointPeriodMinutes,    *)
(* and the main thread that ends it                                        *)
(* (simulationControl/Checkpointing.hpp, startTimeBasedCheckpointing and   *)
(* finishTimeBasedCheckpointing).                                          *)
(*                                                                         *)
(* The timer thread holds concurrentThreadMutex whenever it is not inside  *)
(* wait_until, so each of its steps below is one critical section.         *)
(***************************************************************************)
VARIABLES
    timer,  \* where the timer thread is
    main    \* where the main thread is

vars == <<timer, main>>

\* startTimeBasedCheckpointing has created the thread, which has not run yet.
Init == timer = "spawned" /\ main = "running"

\* The thread takes the mutex and waits, which releases it.
Begin == timer = "spawned" /\ timer' = "waiting" /\ UNCHANGED main

\* The deadline passes: the thread is no longer a waiter of the condition
\* variable, but has to take the mutex again before wait_until returns.
Expire == timer = "waiting" /\ timer' = "expired" /\ UNCHANGED main

\* wait_until returns timeout: request a checkpoint and wait again.
Request == timer = "expired" /\ timer' = "waiting" /\ UNCHANGED main

\* A condition variable may wake without a notification.
SpuriousWake == timer = "waiting" /\ timer' = "woken" /\ UNCHANGED main

\* wait_until returns no_timeout: the loop ends.
Exit == timer = "woken" /\ timer' = "exited" /\ UNCHANGED main

\* finishTimeBasedCheckpointing: notify_all under the mutex reaches the thread
\* only while it is waiting.
Finish ==
    /\ main = "running"
    /\ timer' = IF timer = "waiting" THEN "woken" ELSE timer
    /\ main' = "joining"

\* ... and joins the thread.
Join == main = "joining" /\ timer = "exited" /\ main' = "joined" /\ UNCHANGED timer

Over == main = "joined" /\ UNCHANGED vars

Next == Begin \/ Expire \/ Request \/ SpuriousWake \/ Exit \/ Finish \/ Join \/ Over

\* Both threads run and deadlines pass.
Fairness == WF_vars(Begin \/ Expire \/ Request \/ Exit) /\ WF_vars(Join)

Spec == Init /\ [][Next]_vars /\ Fairness

-----------------------------------------------------------------------------
\* Checkpointing.hpp: "notify all concurrent threads to exit", then "wait for
\* time triggered checkpoint thread".  finishTimeBasedCheckpointing returns.
FinishReturns == main = "joining" ~> main = "joined"

\* Checkpointing.hpp: "perform checkpointing periodically after a user defined
\* time".  The thread does not end while the simulation runs.
TimerLivesOn == timer = "exited" => main # "running"
=============================================================================
