--------------------------- MODULE SimulationLoop ---------------------------
(***************************************************************************)
(* pmacc::SimulationHelper on every MPI rank: the time step loop, the      *)
(* agreement on user signals and the step-based checkpoints                *)
(* (simulationControl/SimulationHelper.cpp, signal.cpp, Checkpointing.hpp, *)
(* pluginSystem/containsStep.hpp).                                         *)
(*                                                                         *)
(* Processes: the control thread of each rank (variable pc), the signal    *)
(* handlers and timer threads that raise counters, and MPI, which finishes *)
(* a reduction or a barrier once every rank has entered it.  The control   *)
(* thread runs the result of a reduction only while it pumps its loop: in  *)
(* checkSignals and in the waits.                                          *)
(*                                                                         *)
(* runOneStep is local: spearhed::Simulation::runOneStep makes no MPI call,*)
(* so nothing but the barriers couples the ranks.  External: the MPI       *)
(* library, the plugins' own work, the master file's file system.          *)
(***************************************************************************)
EXTENDS Integers, Sequences, FiniteSets, FiniteSetsExt

CONSTANTS
    Ranks,         \* MPI ranks
    Root,          \* global rank 0
    Checkpointing, \* CheckpointingAvailability::ENABLED
    RunSteps,      \* --steps
    Period,        \* steps selected by --checkpoint.period
    SoftRestarts,  \* --checkpoint.restart.loop
    Signalled,     \* ranks the environment sends signals to
    MaxCheckpoints,\* bound: checkpoint signals sent to one rank
    MaxStops,      \* bound: stop signals sent to one rank
    MaxRounds      \* bound: signal reductions a rank takes part in

ASSUME SimulationConstants ==
    /\ IsFiniteSet(Ranks) /\ Root \in Ranks
    /\ Checkpointing \in BOOLEAN
    /\ RunSteps \in Nat /\ SoftRestarts \in Nat
    /\ MaxCheckpoints \in Nat /\ MaxStops \in Nat /\ MaxRounds \in Nat
    /\ Period \subseteq Nat /\ Signalled \subseteq Ranks

VARIABLES
    pc,        \* where the control thread of a rank is
    step,      \* currentStep
    runSteps,  \* SimulationDescription::runSteps
    attempts,  \* nthSoftRestart
    slices,    \* single steps addCheckpoint appended to seqCheckpointPeriod
    ckpt,      \* gStatusCreateCheckpoint
    stop,      \* gStatusStopSimulation
    locked,    \* gSignalLocked
    contrib,   \* what a rank gave to each of its signal reductions
    result,    \* signalCompletion: "none", "pending", or "posted" to the control loop
    barriers,  \* the barriers a rank has entered, each with its call site and step
    saved,     \* steps whose checkpointPlugins a rank has run
    file,      \* the checkpoint master file
    raised     \* signals sent to a rank so far

signalVars == <<ckpt, stop, locked, contrib, result>>
planVars   == <<runSteps, slices>>
vars == <<pc, step, runSteps, attempts, slices, ckpt, stop, locked, contrib, result,
          barriers, saved, file, raised>>

Init ==
    /\ pc = [r \in Ranks |-> "restart"]
    /\ step = [r \in Ranks |-> 0]
    /\ runSteps = [r \in Ranks |-> RunSteps]
    /\ attempts = [r \in Ranks |-> 0]
    /\ slices = [r \in Ranks |-> {}]
    /\ ckpt = [r \in Ranks |-> 0] /\ stop = [r \in Ranks |-> 0]
    /\ locked = [r \in Ranks |-> FALSE]
    /\ contrib = [r \in Ranks |-> <<>>]
    /\ result = [r \in Ranks |-> "none"]
    /\ barriers = [r \in Ranks |-> <<>>]
    /\ saved = [r \in Ranks |-> {}]
    /\ file = <<>>
    /\ raised = [r \in Ranks |-> [ckpt |-> 0, stop |-> 0]]

-----------------------------------------------------------------------------
(* MPI.                                                                    *)

\* Every rank has entered the n-th signal reduction, or the n-th barrier.
reduced(n) == \A q \in Ranks : Len(contrib[q]) >= n
allEntered(r) == \A q \in Ranks : Len(barriers[q]) >= Len(barriers[r])

\* communicator.barrier() is spawned.
enterBarrier(r, site, s) ==
    barriers' = [barriers EXCEPT ![r] = Append(@, <<site, s>>)]

\* Both reductions of the rank's round finish; whenAll posts the result to the
\* rank's control loop.
ReductionDone(r) ==
    /\ result[r] = "pending" /\ reduced(Len(contrib[r]))
    /\ result' = [result EXCEPT ![r] = "posted"]
    /\ UNCHANGED <<pc, step, planVars, attempts, ckpt, stop, locked, contrib, barriers, saved,
                   file, raised>>

-----------------------------------------------------------------------------
(* Signals.                                                                *)

\* setCreateCheckpoint: SIGUSR1, the time-based checkpoint thread, and the first
\* half of SIGALRM.
RaiseCheckpoint(r) ==
    /\ r \in Signalled /\ raised[r].ckpt < MaxCheckpoints /\ pc[r] # "gone"
    /\ raised' = [raised EXCEPT ![r].ckpt = @ + 1]
    /\ ckpt' = [ckpt EXCEPT ![r] = @ + 1]
    /\ UNCHANGED <<pc, step, planVars, attempts, stop, locked, contrib, result, barriers, saved,
                   file>>

\* setStopSimulation: SIGHUP, SIGINT, SIGTERM..., and the second half of SIGALRM.
RaiseStop(r) ==
    /\ r \in Signalled /\ raised[r].stop < MaxStops /\ pc[r] # "gone"
    /\ raised' = [raised EXCEPT ![r].stop = @ + 1]
    /\ stop' = [stop EXCEPT ![r] = @ + 1]
    /\ UNCHANGED <<pc, step, planVars, attempts, ckpt, locked, contrib, result, barriers, saved,
                   file>>

\* The reduced values of round n: the maximum step, and whether every rank asked.
agreed(n) ==
    [step |-> Max({contrib[q][n].step : q \in Ranks}),
     stop |-> \A q \in Ranks : contrib[q][n].stop,
     ckpt |-> \A q \in Ranks : contrib[q][n].ckpt]

\* Mutant: the rank acts on what it sent instead of what was reduced.
decision_Local(r) ==
    LET n == Len(contrib[r]) IN
    IF result[r] = "posted" THEN [agreed(n) EXCEPT !.ckpt = contrib[r][n].ckpt]
    ELSE [step |-> 0, stop |-> FALSE, ckpt |-> FALSE]

\* What the result of the rank's round tells it, if it is there to be run.
decision(r) ==
    IF result[r] = "posted" THEN agreed(Len(contrib[r]))
    ELSE [step |-> 0, stop |-> FALSE, ckpt |-> FALSE]

\* addCheckpoint and setRunSteps on the agreed step.
applied(r, d) ==
    /\ slices' = [slices EXCEPT ![r] = IF d.ckpt /\ Checkpointing THEN @ \cup {d.step} ELSE @]
    /\ runSteps' = [runSteps EXCEPT ![r] = IF d.stop THEN d.step ELSE @]

\* signal::release: the counters without the signals that were handled.
released(r, d) ==
    [ckpt |-> ckpt[r] - (IF d.ckpt THEN 1 ELSE 0),
     stop |-> stop[r] - (IF d.stop THEN 1 ELSE 0)]

\* The continuation of the reductions runs on the control thread.
runResult(r) ==
    LET d == decision(r) IN
    /\ result[r] = "posted"
    /\ applied(r, d)
    /\ ckpt' = [ckpt EXCEPT ![r] = released(r, d).ckpt]
    /\ stop' = [stop EXCEPT ![r] = released(r, d).stop]
    /\ locked' = [locked EXCEPT ![r] = FALSE]
    /\ result' = [result EXCEPT ![r] = "none"]
    /\ UNCHANGED contrib

\* signal::received, when gSignalLocked is free; createCheckpoint; stopSimulation,
\* which is put off while more than one checkpoint signal is outstanding.  A signal
\* between two of these loads has the effect of one before or after them all.
received(c, s) == c # 0 \/ s # 0
createCheckpoint(c) == c # 0
stopSimulation(c, s) == s # 0 /\ c <= 1

\* checkSignals: runReady runs a posted result; return while a round is pending;
\* otherwise, if received(), start a round with the flags of this moment.
checkSignals(r) ==
    LET d == decision(r)
        c == released(r, d).ckpt
        s == released(r, d).stop
        start == result[r] # "pending" /\ received(c, s)
    IN  /\ start => Len(contrib[r]) < MaxRounds
        /\ applied(r, d)
        /\ ckpt' = [ckpt EXCEPT ![r] = c] /\ stop' = [stop EXCEPT ![r] = s]
        /\ contrib' = IF start
                      THEN [contrib EXCEPT ![r] = Append(@, [step |-> step[r] + 1,
                                                             stop |-> stopSimulation(c, s),
                                                             ckpt |-> createCheckpoint(c)])]
                      ELSE contrib
        /\ locked' = [locked EXCEPT ![r] = start \/ result[r] = "pending"]
        /\ result' = [result EXCEPT ![r] = CASE start -> "pending"
                                             [] result[r] = "posted" /\ ~start -> "none"
                                             [] OTHER -> @]

-----------------------------------------------------------------------------
(* The control thread: SimulationHelper::startSimulation.                  *)

\* hasSoftRestartAttemptsLeft; resetAll and fillSimulation begin at step 0, and
\* the barrier after the initialization is entered.
Restart(r) ==
    /\ pc[r] = "restart"
    /\ IF attempts[r] <= SoftRestarts
         THEN /\ attempts' = [attempts EXCEPT ![r] = @ + 1]
              /\ step' = [step EXCEPT ![r] = 0]
              /\ enterBarrier(r, "init", 0)
              /\ pc' = [pc EXCEPT ![r] = "init"]
         ELSE /\ pc' = [pc EXCEPT ![r] = "destroy"]
              /\ UNCHANGED <<attempts, step, barriers>>
    /\ UNCHANGED <<planVars, signalVars, saved, file, raised>>

\* The waits for the initial barrier and for the two of a checkpoint end.
LeaveBarrier(r) ==
    /\ pc[r] \in {"init", "same step", "all saved"} /\ allEntered(r)
    /\ pc' = [pc EXCEPT ![r] = CASE @ = "init" -> "notify"
                                 [] @ = "same step" -> "save"
                                 [] @ = "all saved" -> "write"]
    /\ UNCHANGED <<step, planVars, attempts, signalVars, barriers, saved, file, raised>>

\* A wait of the control thread pumps the loop and runs a posted result.
Pump(r) ==
    /\ pc[r] \in {"init", "same step", "all saved", "destroy"}
    /\ runResult(r)
    /\ UNCHANGED <<pc, step, attempts, barriers, saved, file, raised>>

\* notifyPlugins.
NotifyPlugins(r) ==
    /\ pc[r] = "notify"
    /\ checkSignals(r)
    /\ pc' = [pc EXCEPT ![r] = "dump"]
    /\ UNCHANGED <<step, attempts, barriers, saved, file, raised>>

\* containsStep on the period and the appended single steps.
containsStep(period, s) == s \in period

\* Mutant: the barrier is inside the block of rank 0 that creates the directory.
DumpOneStep_RootBarrier(r) ==
    /\ pc[r] = "dump"
    /\ checkSignals(r)
    /\ IF Checkpointing /\ containsStep(Period \cup slices'[r], step[r])
         THEN IF r = Root
                THEN enterBarrier(r, "same step", step[r]) /\ pc' = [pc EXCEPT ![r] = "same step"]
                ELSE UNCHANGED barriers /\ pc' = [pc EXCEPT ![r] = "save"]
         ELSE UNCHANGED barriers /\ pc' = [pc EXCEPT ![r] = "loop"]
    /\ UNCHANGED <<step, attempts, saved, file, raised>>

\* dumpOneStep: checkSignals, then Checkpointing::dump enters its first barrier
\* when the step is due.
DumpOneStep(r) ==
    /\ pc[r] = "dump"
    /\ checkSignals(r)
    /\ IF Checkpointing /\ containsStep(Period \cup slices'[r], step[r])
         THEN enterBarrier(r, "same step", step[r]) /\ pc' = [pc EXCEPT ![r] = "same step"]
         ELSE UNCHANGED barriers /\ pc' = [pc EXCEPT ![r] = "loop"]
    /\ UNCHANGED <<step, attempts, saved, file, raised>>

\* Mutant: the second barrier is entered before the plugins have run, so rank 0 may write.
CheckpointPlugins_NoBarrier(r) ==
    /\ pc[r] = "save"
    /\ saved' = [saved EXCEPT ![r] = @ \cup {step[r]}]
    /\ pc' = [pc EXCEPT ![r] = "write"]
    /\ UNCHANGED <<step, planVars, attempts, signalVars, barriers, file, raised>>

\* checkpointPlugins, then the second barrier is entered.
CheckpointPlugins(r) ==
    /\ pc[r] = "save"
    /\ saved' = [saved EXCEPT ![r] = @ \cup {step[r]}]
    /\ enterBarrier(r, "all saved", step[r])
    /\ pc' = [pc EXCEPT ![r] = "all saved"]
    /\ UNCHANGED <<step, planVars, attempts, signalVars, file, raised>>

\* writeCheckpointStep on rank 0.
WriteCheckpoint(r) ==
    /\ pc[r] = "write"
    /\ file' = IF r = Root THEN Append(file, step[r]) ELSE file
    /\ pc' = [pc EXCEPT ![r] = "loop"]
    /\ UNCHANGED <<step, planVars, attempts, signalVars, barriers, saved, raised>>

\* The condition of the time step loop; after the loop the final barrier is entered.
Loop(r) ==
    /\ pc[r] = "loop"
    /\ IF step[r] < runSteps[r]
         THEN pc' = [pc EXCEPT ![r] = "run"] /\ UNCHANGED barriers
         ELSE pc' = [pc EXCEPT ![r] = "progress"] /\ enterBarrier(r, "final", step[r])
    /\ UNCHANGED <<step, planVars, attempts, signalVars, saved, file, raised>>

\* Mutant: currentStep is not advanced.
RunOneStep_NoIncrement(r) ==
    /\ pc[r] = "run"
    /\ pc' = [pc EXCEPT ![r] = "notify"]
    /\ UNCHANGED <<step, planVars, attempts, signalVars, barriers, saved, file, raised>>

\* runOneStep, currentStep++, movingWindowCheck.
RunOneStep(r) ==
    /\ pc[r] = "run"
    /\ step' = [step EXCEPT ![r] = @ + 1]
    /\ pc' = [pc EXCEPT ![r] = "notify"]
    /\ UNCHANGED <<planVars, attempts, signalVars, barriers, saved, file, raised>>

\* wait(barrier, progress): the hook runs before each runOne.
Progress(r) ==
    /\ pc[r] = "progress"
    /\ checkSignals(r)
    /\ pc' = [pc EXCEPT ![r] = "final"]
    /\ UNCHANGED <<step, attempts, barriers, saved, file, raised>>

\* ... runOne runs a posted result while the barrier is pending.
FinalPump(r) ==
    /\ pc[r] = "final"
    /\ runResult(r)
    /\ pc' = [pc EXCEPT ![r] = "progress"]
    /\ UNCHANGED <<step, attempts, barriers, saved, file, raised>>

\* ... and the barrier completes.
LeaveFinal(r) ==
    /\ pc[r] = "final" /\ allEntered(r)
    /\ pc' = [pc EXCEPT ![r] = "restart"]
    /\ UNCHANGED <<step, planVars, attempts, signalVars, barriers, saved, file, raised>>

\* ~SimulationHelper: wait(signalCompletion) returns.
Destroy(r) ==
    /\ pc[r] = "destroy" /\ result[r] = "none"
    /\ pc' = [pc EXCEPT ![r] = "gone"]
    /\ UNCHANGED <<step, planVars, attempts, signalVars, barriers, saved, file, raised>>

\* Every rank is gone.
Over == (\A r \in Ranks : pc[r] = "gone") /\ UNCHANGED vars

Control(r) == \/ Restart(r) \/ LeaveBarrier(r) \/ Pump(r) \/ NotifyPlugins(r) \/ DumpOneStep(r)
              \/ CheckpointPlugins(r) \/ WriteCheckpoint(r) \/ Loop(r) \/ RunOneStep(r)
              \/ Progress(r) \/ FinalPump(r) \/ LeaveFinal(r) \/ Destroy(r)

Next ==
    \/ \E r \in Ranks : RaiseCheckpoint(r) \/ RaiseStop(r) \/ ReductionDone(r) \/ Control(r)
    \/ Over

\* Every rank's control thread runs, and MPI finishes what every rank has entered.
\* No signal need ever be sent.
Fairness == \A r \in Ranks : WF_vars(Control(r)) /\ WF_vars(ReductionDone(r))

Spec == Init /\ [][Next]_vars /\ Fairness

-----------------------------------------------------------------------------
\* Rounds whose result a rank has run.
handled(r) == Len(contrib[r]) - (IF result[r] = "none" THEN 0 ELSE 1)

\* A contribution to a round, and a call of a barrier.
Flags == [step : Nat, stop : BOOLEAN, ckpt : BOOLEAN]

Entered == {"init", "same step", "all saved", "final"} \X Nat

\* The counters never go below zero (signal::release takes off only what was
\* counted), and gSignalLocked is held exactly while a round is under way.
TypeOK ==
    /\ pc \in [Ranks -> {"restart", "init", "notify", "dump", "same step", "save", "all saved",
                         "write", "loop", "run", "progress", "final", "destroy", "gone"}]
    /\ step \in [Ranks -> Nat] /\ runSteps \in [Ranks -> Nat]
    /\ attempts \in [Ranks -> 0 .. SoftRestarts + 1]
    /\ slices \in [Ranks -> SUBSET Nat]
    /\ ckpt \in [Ranks -> Nat] /\ stop \in [Ranks -> Nat]
    /\ locked \in [Ranks -> BOOLEAN] /\ result \in [Ranks -> {"none", "pending", "posted"}]
    /\ \A r \in Ranks : locked[r] = (result[r] # "none")
    /\ contrib \in [Ranks -> Seq(Flags)]
    /\ barriers \in [Ranks -> Seq(Entered)]
    /\ saved \in [Ranks -> SUBSET Nat]
    /\ file \in Seq(Nat)
    /\ raised \in [Ranks -> [ckpt : Nat, stop : Nat]]

\* The agreement: ranks that have run the results of the same number of rounds
\* have planned the same checkpoints and the same last step.
PlansAgree ==
    \A r, q \in Ranks :
        handled(r) = handled(q) => slices[r] = slices[q] /\ runSteps[r] = runSteps[q]

\* SimulationHelper.hpp: "If signals of the same action will be sent multiple
\* times they will be handled after ongoing registered action resulting from
\* previous signals are executed."  Every signal is counted until a round in
\* which every rank had one takes it off: none is dropped, none is handled twice.
SignalsAccounted ==
    \A r \in Ranks :
        LET H == 1 .. handled(r) IN
        /\ ckpt[r] + Cardinality({n \in H : agreed(n).ckpt}) = raised[r].ckpt
        /\ stop[r] + Cardinality({n \in H : agreed(n).stop}) = raised[r].stop

\* Whatever signals reach whichever ranks when, the ranks act on the same ones.
SignalsAgreed == PlansAgree /\ SignalsAccounted

\* Checkpointing.hpp: "Ensure that all MPI ranks are in the same time step."  The
\* ranks that meet in a barrier called it at the same place and in the same step.
BarriersMatch ==
    \A r, q \in Ranks : \A n \in 1 .. Len(barriers[r]) :
        n <= Len(barriers[q]) => barriers[r][n] = barriers[q][n]

\* A step in the master file, from which --checkpoint.restart selects, was saved
\* by the plugins of every rank.
CheckpointComplete ==
    \A i \in DOMAIN file : \A r \in Ranks : file[i] \in saved[r]

\* SimulationHelper.hpp: runSteps is the "number of simulation steps to compute".
NeverPastRunSteps == \A r \in Ranks : step[r] <= RunSteps

\* signal.cpp: "Whoever called received() and got true must call release() after
\* handling the signal."
LockReleased == \A r \in Ranks : locked[r] ~> ~locked[r]

\* Every rank's simulation is eventually torn down.
EveryRankEnds == <>(\A r \in Ranks : pc[r] = "gone")
=============================================================================
