# A TLA+ model of spearhed

spearhed is a smoothed particle hydrodynamics code on top of PMacc and of
`caravan`, a sender/receiver library with a control loop, an MPI owner thread
and a device completion thread. Most of what is hard to get right in it is not
the physics but what runs at the same time: threads that complete each other's
work, blocks of a kernel that share lists of frames, ranks that have to meet in
the same barrier, buffers that several communications use in turn. This project
models that machinery in TLA+, model-checks it with TLC and proves the core of
it with TLAPS.

Paths below are relative to the repository; `caravan/` stands for
`packages/pmacc/libs/caravan/include/caravan/`, `pmacc/` and `spmacc/` for
`packages/pmacc/include/pmacc/` and `.../spmacc/`.

## 1. Inventory

| part | state | operations | what makes it correct |
|---|---|---|---|
| control context (`caravan/core`) | task queue and `m_finished` of the `RunLoop`; status and count of the `AsyncScope`; events and their continuations | `post`, `runOne`, `runReady`, `finish`; `spawn`, completion, `join`; `wait`, destruction | a task posted is run; a joined scope owns nothing that can still run; nobody posts to a finished loop (`std::terminate`); a waiting control thread is woken; the destructor returns |
| sender algebra (`caravan/core/sender`) | operation states nested as the expression is, atomics that children share | `start`, completion and destruction of every adaptor, `syncWait` | each operation starts, completes and is destroyed once and in this order, whichever thread comes last |
| MPI context (`caravan/mpi`) | command queue, `m_outstanding`, flags, a lane of tickets per communicator, the table of requests | `submit`, reserve/commit/abandon, the owner's loop, shutdown | native calls in ticket order per communicator; exact counts; the table survives compaction; the owner never sleeps on work; a shutdown loses nothing |
| MPI operations (`caravan/mpi/operations.*`, `communicator.cpp`) | registered communicators, requests with the memory they own | every point-to-point and collective operation | every call MPI sees is legal, or refused by an exception; memory lives until MPI is done with it |
| device submission (`caravan/alpaka`) | queues with mutexes or leases, pooled events, fences, lists of the completion thread | lowering of `sequence`, `whenAll`, `graph`; connect, start, poll, deliver, stop | the device keeps the order the expression means; receivers are called when their graph is quiescent; no submission blocks another for ever |
| simulation control (`pmacc/simulationControl`) | step, plan, signal counters and lock, reduction under way, soft restarts; the master file | the time step loop, `checkSignals`, `dump`, restart | ranks agree on what to do when; their barriers pair; the master file names complete checkpoints only; every rank ends |
| time-based checkpoint thread | a thread, a mutex, a condition variable | start, time out, finish | it asks for checkpoints and ends when told to |
| plugin system (`pmacc/pluginSystem`) | registered periods, loaded plugins | parse, register, notify, load, checkpoint, restart, unload | a plugin is notified at exactly the steps its text stands for; failures unload what was loaded |
| communication and topology (`pmacc/communication`, `mappings/simulation`, `mpi`, `device`) | coordinates, neighbours, slides; partial reductions | slide, restore, reduce, gather | all ranks compute the same topology; each element is reduced or gathered once |
| buffers and exchanges (`pmacc/memory`, `pmacc/fields`) | host and device buffers, views, sizes; exchanges with tags, staging buffers, events | copy, fill, resize; `addExchange`, `spawnCommunication` | copies move the elements they name; a guard holds the neighbour's border of the same round |
| particle containers (`pmacc/particles`) | frame lists per supercell, exchange stacks | shift, fill gaps, send, insert, load, concatenate | every particle is in the list of its cell once; lists stay well formed while blocks change them concurrently |
| kernel mappings (`pmacc/mappings/kernel`) | none | the mappers and the loop over `next()` | every supercell of the area is visited once; strided launches keep blocks apart |
| lockstep and kernel launch (`pmacc/lockstep`, `exec`, `kernel`) | shared memory and variables of a block | configure, `forEach`, counters | every index is taken by one worker once |
| data management and ids (`pmacc/dataManagement`, `IdProvider`) | datasets, device memory, id counters | get, share, consume; next id, overflow test, restart | nothing outlives what it needs; no id is given twice |
| spearhed's time step (`include/spearhed`, `spmacc/particles`) | regions with frame lists, frame index, attributes | init, refresh, push, bounds, neighbour search, interactions | frame index and lists agree; each particle is pushed once a step; each pair in reach counts once |
| physics and setups (`include/spearhed/sph`, `share/spearhed`) | none | spline kernels, pair forces, lattices, shock tube | conserved momentum and energy, normalised kernels, equal masses in a tiled domain |
| output (`openPMD` plugin), llamaLite | rows on the host; columns of a structure of arrays | pack and write; resize, views, copies | each row is written once at its place; columns stay together when an allocation fails |

**Interactions.** The time step runs on the control thread and waits through
`ControlContext::wait`. MPI and device completions are events set on the owner
or completion thread that continue on the control loop. `checkSignals` spawns its
reductions into the control context, and barriers pump the control loop while
they wait. The time-based thread asks for checkpoints through the signal
counters. Exchanges chain device copies, MPI requests and kernels by events.

**What is hard** is listed, at its line and with the properties that would catch
it, under `hazards` in `PROJECT.json`: notifications after an unlock,
publication before dispatch, order across threads and ranks, values read before
a reduction and used after it, staging buffers and events that are reused,
blocks that race for a list, stacks that overflow, shutdown decided on counts that
other threads change, crashes between two files of a checkpoint, boundaries of
unsigned numbers and of chunk sizes.

## 2. Modules

| module | models |
|---|---|
| `StructuredScope` | what `AsyncScope` promises (abstract) |
| `ControlContext`, `ControlContext_proofs` | run loop, scope, events, control thread; refines `StructuredScope` |
| `Senders` | one `syncWait` over an expression of every adaptor, on several threads |
| `MpiContext`, `MpiContext_proofs`, `MCMpiContext` | MPI context, owner thread, shutdown of the runtime |
| `MpiOperations`, `MpiOperations_proofs` | argument checks, native calls, communicators of one rank |
| `DeviceSubmission`, `DeviceSubmission_proofs` | lowering, pools, fences, completion thread, device |
| `Buffers`, `Lockstep` | host and device buffers on one queue; one block of a kernel |
| `MCDeviceSubmission` | the three above, one at a time |
| `SimulationLoop`, `MCSimulationLoop` | the ranks' step loop, signals, checkpoints |
| `RunLifecycle`, `MCSimulation` | a process from `main` to exit and the next one in the same directory; together with the ranks' loop |
| `Simulation_proofs` | proofs about both |
| `IdProvider` | particle ids of all ranks |
| `CheckpointTimer` | the time-based checkpoint thread |
| `PluginSchedule`, `PluginSchedule_proofs`, `MCPluginSchedule` | period texts and notification |
| `Topology`, `Reduction` | the grid of ranks and its slides; reductions and gathered slices |
| `Mappings`, `MapperWalk`, `Mappings_proofs` | block to supercell indices, directions of exchanges; the loop over a mapper; proofs about it and about `Topology` |
| `MCAlgorithms` | plugin schedule, mapper loop, senders, MPI operations, topology, reductions, ids, one at a time |
| `ParticlesBox`, `ParticleShift`, `ParticleLoad`, `MCParticleShift` | frame lists; the shift between supercells; loading, counting, concatenating |
| `ParticleExchange`, `FieldExchange`, `FieldExchange_proofs`, `MCParticleExchange` | particles sent in chunks; the guard of a field exchanged between ranks |
| `SphTimestep`, `FrameSweep`, `Records`, `SplineKernels`, `ShockTube`, `MCSphTimestep` | the time step, walks over frames and output, record containers, kernels and forces, the shock tube |

An `MC` module extends the modules of a run, gives them finite instances and, where
several are checked together, picks the one a behaviour is about in its initial
state; the others rest. `PROJECT.json` maps each definition to the lines it
models.

A step of a model is one critical section of a mutex, one access to memory that
blocks of a kernel share, or a stretch of one thread no other can observe.
Reading an atomic, deciding and sleeping are kept apart where the code keeps them
apart. Data is abstracted to identity: an operation, a request, a stage or a
particle is a model value or a number, and what a buffer holds is where and in
which round it was written.

**ControlContext.** `pc` is the control thread; `thread` is one completing thread
per operation and per external event; `dispatch` is the gap between publishing an
event and dispatching its continuations, `notify` the one between the unlock and
`notify_one`. `post` on a finished loop sets `terminated`. Operations may repost
themselves (`Repeating`) and have several stages (`letValue`). `spawn` is called by the
application and by the tasks it runs; a closed scope rejects it.

**Senders.** Every thread has a stack of calls; a step is what the call on top does
up to its next lock, atomic operation or call. Operation states are alive or
destroyed, and a call into a destroyed one shows.

**MpiContext.** `place` follows each operation from the client to `retired`;
`owner` is the owner's position in its loop. MPI is external: a request is done at
some time, and `TestSome` reports any of the done ones. An exception in a callback
ends in `abortMpi`, which is not modelled.

**MpiOperations.** Memory is a row of bytes. Each callback checks, narrows and
calls, or throws. Every call may be refused; which checks refuse it is modelled for
memory, counts and communicators, not for peers, tags and roots, which are passed on to
MPI unchanged. That segments of `gatherV` may overlap unchecked, and that
`MPI_IN_PLACE` or a collective that other ranks do not enter is the caller's
contract, is as in the code.

**DeviceSubmission.** The operators that lower an expression are pure;
`before` carries what an expression means next to its lowering, so that
`DeviceOrder` compares the two. Queues and events are external: a queue executes
in order and a wait waits for the record that was the latest when it was
enqueued. Graphs on the pool's queues lease their events; those on the caller's own
queues make theirs, which never enter the pool. A connection takes the locks of the
queue and of the event pool in turn and is one step: what it takes is nobody else's
from then on. `QueueCount` stands for any sequence of `addQueues` before the first
connection.

**SimulationLoop.** `barriers[r]` records place and step of each barrier rank `r`
entered; `contrib` is what it gave to each reduction. Reads of the signal counters
within one call are one step: a signal between two of them acts like one before
or after. `Checkpointing` is the template parameter; spearhed uses `FALSE`.

**RunLifecycle.** Every call may throw where the code does and a process may crash
between any two steps of a run; the next process finds what the last one left. Each
plugin's checkpoint is a step that may fail, and so is the line in the master file. Each
test allocation of `freeDeviceMemory` is a step. Ranks fail
together. `options` choose what the command line asked for; `resumes` is a simulation that
calls `checkRestart` while it fills and starts from the step it found, which spearhed
itself does not: its `fillSimulation` returns 0.

**Topology, Reduction, Mappings.** Pure operators over small grids, with actions
only for what happens in steps: slides, launches, blocks.

**ParticleShift, ParticleExchange, ParticleLoad.** A block takes one step per
access to what it shares with others. `ParticleExchange` has one periodic rank,
which is its own neighbour in every direction. `getEmptyFrame` always finds a frame: the
retries and the abort on an exhausted heap are left out.

**FieldExchange.** Rounds are calls of `spawnCommunication`; `stage` says how far the
send and the receive of each direction and round are, and the contents of
buffers are round numbers. `chained` calls follow a kernel that follows the event
of the call before; unchained ones only follow each other per exchange. Additive
exchanges without that chain race on `+=`, which is the caller's contract.

**SphTimestep and companions.** Space is one axis of integers. A frame index remembers the
buffer it was built from and its version; filling again replaces the buffers. Densities
and accelerations are bags of the pair terms added since they were seeded or zeroed, so
that a term added twice or left over from the last step shows. `computeSCNumCells` may
give the root or, where `std::pow` falls short of an integer, one less. Kernels and forces are
checked with exact integers, and fractions modulo three primes; floating point
rounding is left out, except where a lattice is truncated to whole cells.

## 3. Runs

Run `tlc -config <cfg> <module>` in this directory. "States" are distinct states.

| run | module, configuration | instance | what it shows | states |
|---|---|---|---|---|
| `control_owned` | `ControlContext`, `ControlContextOwned.cfg` | 3 operations, 1 further round | type, quiescence after join, no terminate, no lost task, refinement of `StructuredScope` with its fairness, the destructor returns | 153,306 |
| `control_external` | `ControlContext`, `ControlContextExternal.cfg` | 2 operations, one reposting for ever, 1 external event | a waiting control thread is always going to be woken; `runReady` returns although the loop never empties | 34,147 |
| `mpi` | `MCMpiContext`, `MpiContext.cfg` | 1 invocation, 2 collectives on one communicator, one with two requests, batches of 1 | lane order, request table and completion, clean shutdown; every accepted operation completes and a shutdown ends the owner | 300,202 |
| `device` | `MCDeviceSubmission`, `DeviceSubmission.cfg` | 3 graphs on 2 shared, up to 5 leased or the caller's queues, the third started by a receiver; buffers in 1 to 3 dimensions; blocks of 1 to 4 workers | order, quiescence, recycling of events, drained stop; every start ends; copies and fills are exact, indices of a block are taken once | 385,453 |
| `sim_periodic` | `MCSimulation`, `SimulationPeriodic.cfg` | 3 ranks, 2 steps, a checkpoint at step 1, a soft restart; up to 3 processes in a row | barriers pair, checkpoints are complete, every rank ends; restarts, memory and shutdown of a process | 1,036,481 |
| `sim_signals` | `MCSimulationLoop`, `SimulationSignals.cfg` | 2 ranks, 1 step, 2 checkpoint and 1 stop signals each, 3 rounds | plans agree, no signal is lost or handled twice | 2,387,725 |
| `algorithms` | `MCAlgorithms`, `Algorithms.cfg` | see `MCAlgorithms` | plugins notified as documented; mappers exact; senders start, complete and are destroyed once and `syncWait` returns; native calls, topology, reductions and ids | 265,286 |
| `particle_shift` | `MCParticleShift`, `ParticleShift.cfg` | a row of 4 supercells, frames of 2, up to 3 particles a cell | lists stay consistent, every particle arrives once, survives loading and is visited once; the shift ends | 138,863 |
| `particle_exchange` | `MCParticleExchange`, `ParticleExchange.cfg` | 2 by 2 supercells, stacks of several sizes, MPI buffering or not; a field on 1 or 2 ranks in 7 modes, 2 rounds | chunks pair and tile the stack, borders receive the neighbour's particles, halos are exact; communications end | 112,635 |
| `sph_step` | `MCSphTimestep`, `SphTimestep.cfg` | 3 setups of up to 8 particles, 2 steps | lists and frame index agree, one push a step, each pair in reach once; walks, output, records, forces and the shock tube; steps end | 88,725 |
| `sim_unusable` | `MCSimulationLoop`, `SimulationUnusable.cfg` | 2 ranks, a checkpoint signal each | **violation**: the master file names a step a rank has not saved | |
| `timer_exit` | `CheckpointTimer`, `CheckpointTimerExit.cfg` | the two threads | **violation**: the join does not return | |

Every property of a passing run has a mutant: a plausible bug in the definition it
is about, kept next to it as `<definition>_<what>` and marked as mutant.

### Bounds and why they are enough

- Three operations of a context: one can be live, one queued and one completing at
  once; the proof removes the bound for the safety part. `MaxRounds` and
  `MaxBacklog` bound the continuations of an operation and the backlog `wait` is
  called with; the proof holds for every value of both.
- Two collectives on one lane are the least for which order, abandonment in front of
  a commit and a moving front matter; a batch of one makes the owner leave work
  behind in each round; two requests make a group partly done. The proofs remove
  these bounds.
- Two shared queues and graphs with two or three lanes make lanes wrap. Without the
  sort, the locks of two graphs are crossed when a one-lane graph was connected in
  between. `MaxQueues` is the sum of all lanes, so that the bound never holds a
  connection back. `SendersOf <- MCSendersOfWide` with `MaxQueues = 6` covers every
  shape of three stages, for safety alone. The proofs remove these bounds.
- Three ranks: two can be in a barrier while the third is elsewhere. Two signals of
  a kind make one arrive while the first is handled. `MaxRounds` ends the retries of
  ranks that signal different things for ever; a rank at the bound stops, hence no
  deadlock check there. The runs of device, particle exchange and time step have
  none either: the application owes no further call.
- Three processes: one that leaves a checkpoint, one that restarts and is cut short,
  one that has to live with both. The proof removes the bound.
- Components 0, 2, 3 tell apart start, end and period; `Top` stands for the unsigned
  value of -1 and is above every step. The proof removes both bounds.
- Supercell grids of 3 to 9 a side contain every relation of guard, border and core
  and every residue of the strides 2 and 3. The proof removes these bounds, for mappers
  and for the grid of ranks.
- Frames of two particles are full, half full or empty; three particles need two
  frames. Stacks of several capacities overflow, fit exactly or are never full; a stack of
  two emptied in one chunk is followed by the empty chunk that ends the communication.
- Two rounds of an exchange are the least in which a staging buffer is reused; the
  proof removes the bound.
- `Width = 4` lets id counters run into the next rank's share within the bound of `MaxIds`;
  a count that wraps through all shares, which the code's comment concedes, is beyond it.

### Fairness

Weak fairness of the control thread, the MPI owner, the completion thread and the
timer; of a thread that unlocked and is about to notify, and of a submitter inside
`start`; of the device working off its queues and the blocks of a kernel; and of MPI
completing what all ranks entered. In `FieldExchange` MPI need not move a message
nobody waits for. These are the operating system's scheduling of a runnable thread
and the progress guarantees of MPI and of the device. The application owes no call,
no signal need be sent, nobody need start a graph.

## 4. Proofs

Run `tlapm <module>_proofs.tla`. The theorems hold for all values of the constants
that satisfy the assumption named in the component's module; TLC evaluates that
assumption in the runs. Each theorem rests on an inductive invariant that TLC checked
on a small instance before it was proved.

**ControlContext_proofs** (`ConstantsAssumption`: finitely many operations, names
apart). `TypeCorrect`, `JoinedScopeIsQuiescent`, `NoTaskIsLost`,
`WaitIsAlwaysWoken`, `ScopeImplementsStructuredScope` (the safety part of the
refinement) and, without external events, `OwnedWorkNeverTerminates`; with them, TLC
refutes `NoTerminate` (section 5). That a joined scope is quiescent is not
inductive: a task in the queue must belong to an operation that is queued, exactly
once (`TaskInv`); `m_operations` must be the number of live operations and agree with
the status (`CountInv`); the position of the control thread must say what status the
scope has (`PhaseInv`); an operation must have published its output before it is
destroyed (`OutputInv`). `IInv` is their conjunction with `TypeOK`. `WakeInv` is proved
relative to it: an event waited for is pending with the wake registered, or the wake
is queued, or about to be dispatched by the thread that completed the event.

**MpiContext_proofs** (`MpiConstants`: finitely many operations, any communicators,
any number of requests each, any batch size above zero). `TypeCorrect`,
`LanesKeepOrder`, `RequestsAccounted`, `OutstandingCounts`,
`OwnerSleepsThroughNoWork` and, for an application that joins its collectives before
it returns (`Drained`, what `MpiRuntime` asks of it), `ShutdownIsClean`. The invariant
`IInv` says: `m_outstanding` is the number of operations and tickets owned
(`CountInv`), the queue holds each submitted operation once (`QueueInv`), the two halves
of the request table are parallel and hold null requests only between
`MPI_Testsome` and the compaction, where the reported indices are still to be retired
(`TableInv`), a group counts its requests in the table and among the reported ones
(`GroupInv`), the tickets of a lane are contiguous from its front and find their
entries (`LaneInv`, `TokenInv`), and the collectives of a communicator pass from
the lane through the queue to MPI in the order of their tickets (`OrderInv`). Completion in the middle of the scan is why the
table alone is not inductive: a receiver may submit, reserve or abandon while indices
that refer to the uncompacted table are pending.

**Simulation_proofs**, about `SimulationLoop` (`SimulationConstants`: finitely many
ranks, any steps, periods, restarts and signals). `TypeCorrect` (the signal counters never go below
zero, the lock is held exactly during a round) and `RanksActOnTheSameSignals`, for any
signals, from `SInv`: the result of a round reaches a rank only when every rank has
entered it, and a flag it contributed is still in its counters (`RoundInv`); its plan follows from the rounds it has handled (`PlanInv`); its counters are the
signals it received less those agreed on (`AccountInv`). `RanksMeetInTheSameStep`,
`ListedCheckpointsAreSaved` and `NoStepBeyondTheLast` are proved for runs without
signals (`Signalled = {}`), from `BInv`: the barriers of a rank form one chain that
depends on the constants only (`ChainInv`), its position determines how far along the
chain it is (`PlaceInv`), and whoever has passed the barrier after its plugins has saved
the step (`SavedInv`). The hypothesis is needed: with signals TLC refutes all three
(`sim_unusable` and section 5), because a rank may be beyond the agreed step when it
handles the result.

About `RunLifecycle` (`LifecycleAssumption`: at least one plugin, one device, any memory
sizes, steps, soft restarts, command lines and number of processes) it proves
`RunsCanBeRestarted`, all of `LifecycleSound`. `CheckpointsUsable` compares the dumps of a
listed step and is not inductive: a crash may leave any prefix of the plugins with a new
dump. `LifeInv` follows the dump under way: the plugins in front of those still to write
have this dump's number at this step, and the step is torn from the first to the last of
them (`DumpInv`); a listed step that is not torn has one number everywhere (`LineInv`);
until the first round the restart to be done is the one asked for (`AskedInv`); the test
allocation under way is less than a step below one that failed (`MemoryInv`); what is
shared exists only while the device does (`DeviceInv`).

**PluginSchedule_proofs** (`ScheduleConstants`). `PluginsNotifiedAsDocumented`, for all
plugins, texts and steps: `containsStep` on the slices a text is turned into selects
the steps of the documented reading (`SliceAsDocumented`, `ContainsAsDocumented`,
from `ModDivides`). The invariant adds that a plugin's list is the translation of its
text (`ListInv`) and that no registered period is zero once a step was notified
(`PeriodInv`): a zero would have stopped the program in the first step.

**FieldExchange_proofs** (`FieldConstants`: any number of rounds, any calls of
`addExchange` over the 26 directions, any topology in which neighbours are mutual,
any mode). `HalosExact`: guards in step, sums complete, exchanges paired. That
neighbours are mutual in the topology `CommunicatorMPI::updateCoordinates` computes is
proved of `Topology` (`RanksAgreeOnTopology`, below). `HaloExact` speaks of finished rounds; the invariant has to follow
those under way. The rounds of one exchange advance one after the other, each after
the kernel before it (`RoundInv`); so a device or staging buffer is used by one round
at a time and holds its number (`BufferInv`); the messages of a lane are the rounds
sent and not yet received, in order (`LaneInv`), which needs that two lanes with the
same end ranks differ in their tag (`LanesDiffer`, from `GridInv` and the arithmetic of
mirrored directions); the guard is the last round that reached it (`GuardInv`); and
additive receives of a round take turns, so that a kernel that adds has seen all that
was added (`SumInv`).

**DeviceSubmission_proofs** (`DeviceConstants`; `SendersWellFormed`: every graph is
connected from an expression whose stages follow their predecessors and whose
predecessors imply what it means). `TypeCorrect`, `StagesInOrder`,
`PoolSubmissionsSerialize`, `GraphsDeliveredQuiescent` and, for callers that do not
share a queue of their own (`CallersQueuesApart`), `DeviceOrdered`. A caller's queue has
no mutex (`Binding::start` locks those of the pool only), so that two callers on one
queue may alternate; the order of the stages needs no such hypothesis. That the
assumption on the expressions is what the adaptors build is proved too:
`ComposedWellFormed` for `sequence` and `whenAll`, `GraphDependencies` for the edges of a
graph. `IInv` follows an event and a queue through their leases: no event and no leased
queue has two users (`EventInv`, `QueueInv`); a graph on shared queues submits under all
its mutexes (`LockInv`); an event has one outstanding record, and a queued wait is for it
(`RecordInv`), so that recycling cannot satisfy it early; behind every task there is its
fence's record, once submitted (`BehindInv`), which is why polling the fences finds
all stages over; before every task there is, for each predecessor, the task on the same
queue or a wait for its event (`OrderInv`); the commands of a graph that still submits
are the last of their queue (`SerialInv`); and the lists of the completion thread hold
each published graph once (`WorkInv`, `StopInv`).

**MpiOperations_proofs** (`OperationsConstants`). `NativeCallsAreSound`: every call is
within the bytes it was given and within `int`, on a communicator that exists, and what a
request uses is kept until MPI has completed it. The invariant adds that a batch exists
between the call and `trackNative` only (`BatchInv`) and owns its request until then
(`OwnsInv`). The bounds of `gatherV` need that the loop's sum of segments does not wrap
around in a `std::size_t` (`OperationsConstants` has `INT_MAX` squared below it).

**Mappings_proofs** (`WalkConstants`, `TopologyConstants`: two or three dimensions, as the
code is built for). `MappersAreExact` from `LoopsCoverTheirArea` and `ExchangesMeet`: a
block number and a supercell of an area correspond one to one, shown for each mapper from
the uniqueness of mixed-radix numbers, with the unrolled guard and border as slabs
that are disjoint and cover it. The invariant of the loop (`WInv`) says that a supercell
has been processed exactly when the walk has passed the residue of its index by the
stride. What the two ends of an exchange mean is compared digit by digit of the
direction. The constructor accepts domains whose two border layers meet or reach into
the other side's guard. There the loops over CORE and BORDER and the border mapper do not
have their area (`AcceptedVisitedOnce`, section 5), and the theorem says exactly this: loops
over these two areas under `roomForBorder`, the border mapper under `bordersOwned`, every
other mapper and both ends of every exchange in all accepted domains (`layersFit`).
`RanksAgreeOnTopology` from `TInv`: the offset of a rank is minus the number of
slides, modulo the ranks along y, whether `slide` counted it down or a restart set it again;
numbering and sliding are inverse to each other. It is what `FieldExchange_proofs` assumes
of its topology (`mutual`).

Some of these lemmas are inductions over numbers. They are proved by a least
counterexample, from the well-foundedness of the natural numbers (`LeastNat`), since the
library's induction theorems cannot be instantiated here.

Two attempts at proofs showed a `CASE` with overlapping guards, in `SubmitStage` and in
the receive of `FieldExchange`. TLC takes the first guard that holds, TLA+ any of them;
both are now written without overlap.

**Only model-checked**, and why:

- all liveness (`DestructionReturns`, `RunReadyReturns`, `OwnerProgresses`,
  `SubmissionsEnd`, `EveryRankEnds`, `SyncWaitReturns`, `ShiftEnds`,
  `CommunicationsEnd`, `StepsEnd`) and the fairness part of `ScopeRefinement`:
  liveness under fairness and `ENABLED` are out of this prover's reach;
- `ListsIndexed`, `MovedOncePerStep`, `InteractionsExact`,
  `ContainersExact`, `PhysicsExact`: their modules compute with `RECURSIVE` operators,
  in whose presence the prover has no SMT backend, and what a recursion computes for
  every input needs induction over data;
- `SendersSound`, `DeviceMemoryExact` and, of `RanksCooperate`, `CollectivesExact` and
  `IdsUnique`: algorithms compared with a reference definition over bounded inputs, the
  ids by recursion over their bits;
- `BoxConsistent`, `ParticlesArrive`, `FramesComplete`, `ChunksExact`, `BorderExact`:
  they rest on folds over lists of frames, which need induction as well.

## 5. Where code and documentation disagree

The two violation runs, with the quoted lines, are under `findings`:

1. `sim_unusable`: ranks go on stepping while the signal reduction is under way. One
   can be beyond the agreed step when it handles the result, barriers of different
   steps pair, and the master file names an incomplete checkpoint.
2. `timer_exit`: the notification that ends the timer thread has no flag behind it
   and is lost when the thread is not waiting.

More disagreements are stated as properties in the modules. TLC refutes each of them
when it takes the place of the properties in the configuration:

| configuration | property | what happens |
|---|---|---|
| `ControlContextExternal.cfg` | `NoTerminate` | a late wake of another owner's event posts to a finished loop |
| `ControlContextOwned.cfg` | `LoopOutlivesPosts` | the loop is destroyed between a post and its notification |
| `MpiContext.cfg` | `ContextOutlivesCalls` | the context is destroyed between an unlock and a notification |
| `MpiContextUndrained.cfg` | `CommittedCollectivesDrain` | a committed collective is started after submissions were closed |
| `SimulationUnusable.cfg` | `BarriersMatch` | barriers of different steps pair |
| `SimulationOverrun.cfg` | `NeverPastRunSteps`; `LockReleased`, `EveryRankEnds` (as PROPERTY, with `MaxRounds = 2`) | a stop signal near the end adds a step; a signal that reaches only some ranks is never released, and the destructor of the rank that got it waits for ever for a reduction the others do not enter (`SimulationHelper.cpp:56`) |
| `CheckpointTimerExit.cfg` | `TimerLivesOn` | a spurious wake-up ends the timer |
| `Algorithms.cfg` | `AcceptedVisitedOnce` | `MappingDescription.hpp:77` accepts two guards and one supercell, where two border layers coincide |
| `Algorithms.cfg` | `SyncStateOutlives` | `syncWait` returns and its state is gone before the completing thread has notified (`eager.hpp:547`) |
| `Algorithms.cfg`, `Texts <- MCSingles`, `Spec` of `MCPluginSchedule` | `NoZeroPeriod` | a single 0 is accepted as a period, and the step test divides by it |
| `ParticleExchange.cfg` | `TagsUnique` | only the first direction's tag of a buffer is registered (`GridBuffer.hpp:213`) |
| `DeviceSubmission.cfg` | `ResetStaysInside` | `reset(false)` on a view fills beyond it, although "we can not assume that that the physical memory is contiguous" |
| `DeviceSubmission.cfg` | `SizeMatchesData` | the size the device gets is read when the queue comes to it and may be that of a copy submitted later |
| `ParticleShift.cfg` | `CountsWithHoles` | `CountParticles` is "allowed ... on frames with holes", where it counts wrongly |

Observations made while modelling, without a property of their own:

- `Environment::initGrids` is never called although `SubGrid()` asserts it
  (`Environment.tpp:113`). spearhed never calls `checkRestart` or `restartPlugins`, so
  `--checkpoint.restart` is ignored; `checkRestart` never sets its `step`. A second soft
  restart after success starts from scratch without dumping step 0. After an exception
  `sim.unload()` is skipped and datasets outlive the queue pool. Dumping a listed step
  again and crashing leaves files of two dumps under an existing line. The notification
  list is never cleared.
- `IdProvider::isOverflown` shifts by 64 for one process. A restart on fewer and then on
  more ranks reuses ids; the model restarts on at least as many.
- `setStateAfterSlides(n)` returns false when `n % dims[1] = 0`, against its comment.
- `GlobalReduce.hpp` calls an `operator()` that `device::Reduce` lacks;
  `GatherSlice::participate` a second time leaks the former communicator.
- A split grid is sized by `T_SrcFrame::frameSize` while blocks take
  `T_DestBox::frameSize`; the legacy frame batch traversal does not loop uniformly
  across workers.
- Buffers: a host sub-view of more than one dimension keeps `isMemoryContiguous`;
  copies of non-contiguous buffers cover whole rows beyond the size;
  `as1DBufferNElem` asserts `<` where `<=` is meant; `setValue` reads the size when the
  sender is made.
- `AtomicAllIncKepler<long long int>` takes a template parameter twice and could not be
  called. `PushDataBox` does not check `maxSize`; its index stays below it because every
  entry holds a particle.
- `sub_record_t` with an empty `TagPath` yields the empty record, `makeAccessSet` with it
  selects everything. `writeStep` writes `iter.particles["fluid"]`
  (`OpenPMDOutput.hpp:72`) for every species with the role that
  `OpenPMDPlugin.x.cpp:82` promises. `gradWScalar`'s comment says coincident particles
  give NaN; the caller passes 0, and both give zero.

## 6. Not modelled

Vector and matrix mathematics, meta programming and random number generators have no
state. `MPI_Abort` after an error ends the process. MPI datatypes are byte counts,
the openPMD library's files are external. Of particle containers the reflecting
filters, of llamaLite `reserve` and the iterators, of setups all but the shock tube are
left out; relative positions are abstracted. `DomainAdjuster.hpp` is used by nothing.
`PROJECT.json` says for each component what is covered.

## 7. Plan

Done: the control context with refinement and proofs, since all other parts complete
into it; the MPI context and operations, device submission, simulation loop and the life
of a process, plugin
schedule, field exchange, mappers and topology with proofs; all other modules of
section 2 with their runs.

Left: the list structure of `BoxConsistent` and the tiling part of `ChunksExact`, which
need the frame lists as an inductive invariant; `LiveAccess` of `Senders` for every
expression.
