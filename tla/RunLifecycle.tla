---------------------------- MODULE RunLifecycle ----------------------------
(***************************************************************************)
(* One rank's process from main to exit, and the next process started in   *)
(* the same directory: parsing, the environment and its device, loading    *)
(* and unloading of plugins, the datasets of the DataConnector, soft       *)
(* restarts, checkpoints and the choice of the step to restart from.       *)
(*                                                                         *)
(* An exception unwinds to main wherever the code throws; a process may    *)
(* also crash.  A checkpoint of a plugin is named by the dump it was       *)
(* written in.  The agreement of ranks is in SimulationLoop.               *)
(***************************************************************************)
EXTENDS Integers, Sequences, FiniteSets, SequencesExt

CONSTANTS
    UserPlugins,     \* plugins the controller creates, in order
    Species,         \* species the setup has blocks for
    NumDevices,      \* compute devices of the node
    LastStep,        \* --steps
    CheckpointSteps, \* steps of --checkpoint.period
    Loops,           \* --checkpoint.restart.loop
    MemorySizes,     \* free device memory the driver reports
    StepSize,        \* by which freeDeviceMemory reduces what it tries
    Reserved,        \* reservedGpuMemorySize
    MaxProcesses     \* bound: processes run one after the other

ASSUME LifecycleAssumption ==
    /\ UserPlugins \in Seq(ToSet(UserPlugins)) /\ UserPlugins # <<>>
    /\ NumDevices \in Nat \ {0} /\ LastStep \in Nat /\ Loops \in Nat
    /\ MemorySizes \subseteq Nat /\ StepSize \in Nat /\ Reserved \in Nat

VARIABLES
    at,       \* where the process is
    options,  \* its command line
    env,      \* EnvironmentContext: MPI attached, device and queue pool
    datasets, \* DataConnector
    plugins,  \* PluginConnector: registered, and loaded ones in the order they were loaded
    notified, \* objects of the notification list
    sim,      \* restartState, step, runs begun, frame indices in use
    disk,     \* master file and each plugin's checkpoints, shared by all processes
    dump,     \* the dump under way: plugins that have not written theirs
    history   \* processes and dumps begun, loads and unloads of this process

life == <<at, options, env, datasets, plugins, notified, sim, disk, dump, history>>

None == -1

registered == ToSet(UserPlugins)

Options ==
    [status : {"error", "success", "successExit"}, skip : BOOLEAN, resumes : BOOLEAN,
     restart : {"DISABLED", "TRY", "FORCE"}, step : {None} \cup 0 .. LastStep]

\* A device that is not there, options that are not read.
Meaningful(o) ==
    /\ o.status # "success" => ~o.skip /\ ~o.resumes /\ o.restart = "DISABLED"
    /\ o.skip \/ ~o.resumes => o.restart = "DISABLED"
    /\ o.restart = "DISABLED" => o.step = None

Fresh == [restart |-> "DISABLED", step |-> 0, begun |-> 0, indices |-> FALSE, from |-> None,
          memory |-> [most |-> 0, largest |-> 0, by |-> 0, found |-> 0]]

\* Static objects are constructed and main begins.
Begin(o, d, n) ==
    /\ at = "parse" /\ options = o /\ disk = d
    /\ env = [mpi |-> FALSE, device |-> None, pool |-> FALSE]
    /\ datasets = <<>> /\ plugins = [list |-> UserPlugins, loaded |-> <<>>] /\ notified = <<>>
    /\ sim = [Fresh EXCEPT !.restart = o.restart] /\ dump = <<>>
    /\ history = [processes |-> n, dumps |-> 0, loads |-> <<>>, unloads |-> <<>>]

\* torn, for the properties alone: steps that only some plugins have written in the last dump.
NoCheckpoints == [lines |-> <<>>, torn |-> {}, of |-> [p \in registered |-> [s \in 0 .. LastStep |-> None]]]

LifeInit == \E o \in {x \in Options : Meaningful(x)} : Begin(o, NoCheckpoints, 1)

-----------------------------------------------------------------------------
(* main, the parser and the environment.                                   *)

go(from, to) == at = from /\ at' = to

\* An exception leaves runSimulation; the starter and the finalizer are destroyed.
throw == at' = "unwind"

parse ==
    /\ go("parse", CASE options.status = "success" -> "load" [] OTHER -> "unwind")
    /\ UNCHANGED <<options, env, datasets, plugins, notified, sim, disk, dump, history>>

\* setDevice: the first usable device from that of the host rank on; one try if it is shared.
firstUsable(rank, tries, usable) ==
    LET candidates == {k \in 0 .. tries - 1 : (k + rank) % NumDevices \in usable}
    IN  IF candidates = {} THEN None
        ELSE ((CHOOSE k \in candidates : \A l \in candidates : k <= l) + rank) % NumDevices

\* Simulation::pluginLoad, initDevices; a wrong number of device counts throws.
load(valid, rank, tries, usable) ==
    LET device == firstUsable(rank, tries, usable)
    IN  /\ at = "load"
        /\ IF ~valid THEN throw /\ UNCHANGED env ELSE
           /\ env' = [mpi |-> TRUE, device |-> device, pool |-> device # None]
           /\ IF device = None THEN throw ELSE at' = "plugins"
        /\ UNCHANGED <<options, datasets, plugins, notified, sim, disk, dump, history>>

\* loadPlugins: the next one that is not loaded, which may throw, or the simulation starts.
loadPlugin(fails, period) ==
    LET left == SelectSeq(plugins.list, LAMBDA p : ~Contains(plugins.loaded, p))
    IN  /\ at = "plugins" /\ left # <<>>
        /\ IF fails
           THEN throw /\ UNCHANGED <<plugins, notified, history>>
           ELSE /\ plugins' = [plugins EXCEPT !.loaded = Append(@, Head(left))]
                /\ notified' = IF period > 0 THEN Append(notified, Head(left)) ELSE notified
                /\ history' = [history EXCEPT !.loads = Append(@, Head(left))]
                /\ UNCHANGED at
        /\ UNCHANGED <<options, env, datasets, sim, disk, dump>>

-----------------------------------------------------------------------------
(* The DataConnector.                                                      *)

hasId(ds, id) == Contains(ds, id)

\* share throws when the id exists.
share(id, next) ==
    IF hasId(datasets, id) THEN throw /\ UNCHANGED datasets
    ELSE at' = next /\ datasets' = Append(datasets, id)

\* What the driver reports less a step, in equal shares for the ranks on the device.
share_of(free, ranks) == (IF free >= StepSize THEN free - StepSize ELSE free) \div ranks

\* startSimulation: the id provider; largest is the largest allocation that will succeed.
start(free, ranks, largest) ==
    /\ at = "plugins" /\ ToSet(plugins.list) = ToSet(plugins.loaded)
    /\ IF options.skip THEN at' = "unload" /\ UNCHANGED <<sim, datasets>>
       ELSE /\ sim' = [sim EXCEPT !.memory = [most |-> share_of(free, ranks), largest |-> largest,
                                              by |-> StepSize, found |-> share_of(free, ranks)]]
            /\ share("globalId", "probe")
    /\ UNCHANGED <<options, env, plugins, notified, disk, dump, history>>

smaller(size, by) == IF size >= by THEN by ELSE IF size < by \div 2 THEN size ELSE by \div 2

\* freeDeviceMemory: a test allocation fails, the next one tries less.
testAllocation ==
    LET m  == sim.memory
        by == smaller(m.found, m.by)
    IN  /\ at = "probe" /\ m.found > m.largest
        /\ sim' = [sim EXCEPT !.memory = [m EXCEPT !.by = by, !.found = @ - by]]
        /\ UNCHANGED <<at, options, env, datasets, plugins, notified, disk, dump, history>>

\* init, once freeDeviceMemory has returned: the heap; too little memory throws.
init ==
    /\ at = "probe" /\ sim.memory.found <= sim.memory.largest
    /\ IF sim.memory.found < Reserved THEN throw /\ UNCHANGED datasets ELSE share("heap", "loop")
    /\ UNCHANGED <<options, env, plugins, notified, sim, disk, dump, history>>

\* InitRegions: a buffer that is shared already is used again.
missing == SelectSeq(Species, LAMBDA s : ~hasId(datasets, s))

-----------------------------------------------------------------------------
(* Restart.                                                                *)

readCheckpointMasterFile == disk.lines

\* The asked step or else the last one of the file.
restartStep == LET steps == readCheckpointMasterFile
               IN  IF options.step # None THEN options.step ELSE IF steps = <<>> THEN None ELSE Last(steps)

available == Contains(readCheckpointMasterFile, restartStep)

checkRestart ==
    IF sim.restart \notin {"TRY", "FORCE"} THEN [restart |-> sim.restart, step |-> None, throws |-> FALSE]
    ELSE [restart |-> IF available THEN "SUCCESS" ELSE "FAILED", step |-> IF available THEN restartStep ELSE None,
          throws  |-> ~available /\ sim.restart = "FORCE"]

\* One round of the soft restart loop up to its first step.  A simulation that resumes
\* calls checkRestart and restartPlugins while it fills, and starts from the member
\* restartStep that checkRestart sets (it leaves its argument step alone); spearhed's does
\* not and starts from 0.
fillSimulation ==
    LET r == IF options.resumes THEN checkRestart ELSE [restart |-> sim.restart, step |-> None, throws |-> FALSE]
    IN  /\ at = "loop" /\ sim.begun <= Loops
        /\ IF r.throws THEN throw /\ UNCHANGED <<sim, datasets, dump>>
           ELSE /\ at' = "step"
                /\ sim' = [restart |-> r.restart, step |-> IF r.step = None THEN 0 ELSE r.step,
                           begun |-> sim.begun + 1, indices |-> TRUE, from |-> r.step, memory |-> Fresh.memory]
                /\ datasets' = datasets \o missing
                /\ dump' = IF r.restart # "SUCCESS" /\ 0 \in CheckpointSteps THEN plugins.list ELSE <<>>
        /\ history' = IF ~r.throws /\ dump' # <<>> THEN [history EXCEPT !.dumps = @ + 1] ELSE history
        /\ UNCHANGED <<options, env, plugins, notified, disk>>

-----------------------------------------------------------------------------
(* Steps and their checkpoints.                                            *)

\* checkpointPlugins: the next plugin writes, or throws; after the last one the ranks meet,
\* the device has no error, and the line is to be written.
checkpointPlugin_LineFirst(fails) ==
    LET p == Head(dump) IN
    /\ at = "step" /\ dump # <<>>
    /\ IF fails THEN throw /\ dump' = <<>> /\ UNCHANGED disk
       ELSE /\ at' = IF Len(dump) = 1 THEN "line" ELSE "step"
            /\ disk' = [lines |-> IF dump = plugins.list THEN Append(disk.lines, sim.step) ELSE disk.lines,
                        torn  |-> IF Len(dump) = 1 THEN disk.torn \ {sim.step} ELSE disk.torn \cup {sim.step},
                        of    |-> [disk.of EXCEPT ![p][sim.step] = history.dumps]]
            /\ dump' = Tail(dump)
    /\ UNCHANGED <<options, env, datasets, plugins, notified, sim, history>>

checkpointPlugin(fails) ==
    LET p == Head(dump) IN
    /\ at = "step" /\ dump # <<>>
    /\ IF fails THEN throw /\ dump' = <<>> /\ UNCHANGED disk
       ELSE /\ at' = IF Len(dump) = 1 THEN "line" ELSE "step"
            /\ disk' = [lines |-> disk.lines,
                        torn  |-> IF Len(dump) = 1 THEN disk.torn \ {sim.step} ELSE disk.torn \cup {sim.step},
                        of    |-> [disk.of EXCEPT ![p][sim.step] = history.dumps]]
            /\ dump' = Tail(dump)
    /\ UNCHANGED <<options, env, datasets, plugins, notified, sim, history>>

\* The master file gets the step's line, or cannot be opened and the run ends.
writeCheckpointStep(fails) ==
    /\ at = "line"
    /\ IF fails THEN throw /\ UNCHANGED disk
       ELSE at' = "step" /\ disk' = [disk EXCEPT !.lines = Append(@, sim.step)]
    /\ UNCHANGED <<options, env, datasets, plugins, notified, sim, dump, history>>

runOneStep ==
    /\ at = "step" /\ dump = <<>> /\ sim.step < LastStep
    /\ sim' = [sim EXCEPT !.step = @ + 1]
    /\ dump' = IF sim.step + 1 \in CheckpointSteps THEN plugins.list ELSE <<>>
    /\ history' = IF dump' # <<>> THEN [history EXCEPT !.dumps = @ + 1] ELSE history
    /\ UNCHANGED <<at, options, env, datasets, plugins, notified, disk>>

endRound ==
    /\ at = "step" /\ dump = <<>> /\ sim.step >= LastStep
    /\ at' = IF sim.begun <= Loops THEN "loop" ELSE "unload"
    /\ UNCHANGED <<options, env, datasets, plugins, notified, sim, disk, dump, history>>

-----------------------------------------------------------------------------
(* The way out.                                                            *)

unloadOrder(loaded) == Reverse(loaded)

\* SimulationStarter::pluginUnload: the plugins, the controller's objects, then the simulation,
\* which drops its frame indices and cleans the DataConnector from the back.
unload ==
    /\ go("unload", "unwind")
    /\ history' = [history EXCEPT !.unloads = unloadOrder(plugins.loaded)]
    /\ plugins' = [list |-> <<>>, loaded |-> <<>>]
    /\ sim' = [sim EXCEPT !.indices = FALSE]
    /\ datasets' = <<>>
    /\ UNCHANGED <<options, env, notified, disk, dump>>

\* The starter is destroyed, then the environment is finalized.
finalize ==
    /\ go("unwind", "exit")
    /\ sim' = [sim EXCEPT !.indices = FALSE]
    /\ env' = IF env.mpi THEN [env EXCEPT !.mpi = FALSE, !.pool = FALSE] ELSE env
    /\ UNCHANGED <<options, datasets, plugins, notified, disk, dump, history>>

\* The next process starts in the same directory after an exit or a crash.
again(o) ==
    /\ at \in {"exit", "step", "line"}
    /\ history.processes < MaxProcesses
    /\ at' = "parse" /\ options' = o /\ UNCHANGED disk
    /\ env' = [mpi |-> FALSE, device |-> None, pool |-> FALSE]
    /\ datasets' = <<>> /\ plugins' = [list |-> UserPlugins, loaded |-> <<>>] /\ notified' = <<>>
    /\ sim' = [Fresh EXCEPT !.restart = o.restart] /\ dump' = <<>>
    /\ history' = [processes |-> history.processes + 1, dumps |-> history.dumps, loads |-> <<>>, unloads |-> <<>>]

\* No further process.
LifeOver == at = "exit" /\ history.processes = MaxProcesses /\ UNCHANGED life

LifeNext ==
    \/ LifeOver \/ parse \/ testAllocation \/ init \/ unload \/ finalize \/ fillSimulation \/ runOneStep \/ endRound
    \/ \E fails \in BOOLEAN : checkpointPlugin(fails) \/ writeCheckpointStep(fails)
    \/ \E free \in MemorySizes, ranks \in {1, 2}, largest \in MemorySizes : largest <= free /\ start(free, ranks, largest)
    \/ \E valid \in BOOLEAN, rank \in 0 .. NumDevices, tries \in {1, NumDevices}, usable \in SUBSET (0 .. NumDevices - 1) :
          load(valid, rank, tries, usable)
    \/ \E fails \in BOOLEAN, period \in {0, 1} : (fails => period = 1) /\ loadPlugin(fails, period)
    \/ \E o \in {x \in Options : Meaningful(x)} : again(o)

LifeSpec == LifeInit /\ [][LifeNext]_life

-----------------------------------------------------------------------------
\* A step the master file lists has the checkpoint of every plugin, and all of them from
\* the same dump unless a later dump of that step was cut short: the file's line is the
\* last thing a dump writes, so that a crash or an exception between two plugins, or
\* between the last one and the line, leaves no line without its checkpoints.
CheckpointsUsable ==
    \A s \in ToSet(readCheckpointMasterFile) :
        LET dumps == {disk.of[p][s] : p \in registered}
        IN  None \notin dumps /\ (s \notin disk.torn => Cardinality(dumps) = 1)

\* A process asked to restart never runs from scratch instead when it may not: it resumes
\* the step it was asked for, or the last of the file, or it is gone.
RestartsAsAsked ==
    options.resumes /\ sim.begun = 1 =>
        /\ options.restart = "FORCE" => sim.from # None
        /\ sim.from # None => /\ options.restart # "DISABLED"
                              /\ options.step \in {None, sim.from}
                              /\ \A p \in registered : disk.of[p][sim.from] # None

\* Plugins are unloaded in the reverse of the order they were loaded in, each once, and when
\* the queue pool goes after a run that did not fail, nothing is left that was on its device.
LeavesInOrder ==
    at = "exit" /\ history.unloads # <<>> => history.unloads = Reverse(history.loads) /\ datasets = <<>> /\ ~sim.indices

\* A process uses its device's queues only while it has them.
DeviceWhileUsed == datasets # <<>> /\ at # "exit" => env.pool /\ env.device \in 0 .. NumDevices - 1

\* The memory taken as free could really be allocated, and is less than one step below
\* the most that could.
MemoryProbed ==
    LET m == sim.memory
    IN  at # "probe" => m.found <= m.most /\ m.found <= m.largest /\ (m.found = m.most \/ m.found > m.largest - StepSize)

\* What a later process relies on and an ending one owes: usable checkpoints, restarts as
\* asked, memory that is there, and a shutdown in reverse while the device lives.
LifecycleSound == MemoryProbed /\ CheckpointsUsable /\ RestartsAsAsked /\ LeavesInOrder /\ DeviceWhileUsed
=============================================================================
