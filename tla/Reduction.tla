----------------------------- MODULE Reduction -----------------------------
(***************************************************************************)
(* Reductions of a device array, launch by launch and block by block       *)
(* (device/Reduce.hpp, device/reduce/Kernel.hpp), and the reductions and   *)
(* gathered slices of the ranks that take part                             *)
(* (mpi/MPIReduce.hpp, mpi/GatherSlice.hpp).                               *)
(*                                                                         *)
(* A value is how often each element of the source is in it; index 0       *)
(* counts what was never written.  Threads of a block are separated by     *)
(* barriers, blocks of a launch by nothing, launches by the queue.         *)
(***************************************************************************)
EXTENDS Integers, Sequences, FiniteSets, FiniteSetsExt

CONSTANTS
    Problems,  \* [n |-> elements, nBuffer |-> scratch slots, border |-> elements in shared memory]
    Planes     \* by world rank, the slice it gathers: [offset, extent], or NoSlice

VARIABLES
    problem,   \* the reduction
    scratch,   \* reduceBuffer, by slot
    kernel,    \* the launch under way: blocks, threads, where it reads, how it writes
    running,   \* its blocks that have not run
    left,      \* slots that still hold parts of the result
    result,    \* what reached the host
    plane,     \* the slices of the ranks
    comm,      \* the communicator of the ranks that take part, in rank order
    gathered,  \* by gather rank, what the collectives have brought to the master
    globalField \* the master's buffer, by cell

reduction == <<problem, scratch, kernel, running, left, result>>

gathering == <<plane, comm, gathered, globalField>>

NoSlice == [offset |-> <<0, 0>>, extent |-> <<0, 0>>]

-----------------------------------------------------------------------------
(* Values.                                                                 *)

Junk == [i \in 0 .. problem.n |-> IF i = 0 THEN 1 ELSE 0]

element(i) == [j \in 0 .. problem.n |-> IF j = i + 1 THEN 1 ELSE 0]

func(a, b) == [i \in 0 .. problem.n |-> a[i] + b[i]]

combined(S, v(_)) == [i \in 0 .. problem.n |-> MapThenSumSet(LAMBDA x : v(x)[i], S)]

-----------------------------------------------------------------------------
(* Reduce: how many threads and blocks.                                    *)

\* A launch that reads the caller's array and not the scratch buffer.
Src == -1

\* The largest power of two in reach, one at least.
getThreadsPerBlock(threads) ==
    LET Known == {512, 256, 128, 64, 32, 16, 8, 4, 2} IN Max({t \in Known : t <= threads} \cup {1})

optimalThreadsPerBlock(n) == getThreadsPerBlock(IF problem.border < n THEN problem.border ELSE n)

\* The first launch reads the source with no more blocks than the scratch buffer has slots.
firstLaunch ==
    LET threads == optimalThreadsPerBlock(problem.n)
        most    == problem.nBuffer * threads * 2
        used    == IF most > problem.n THEN problem.n ELSE most
        blocks  == (used \div 2) \div threads
    IN  [blocks |-> IF blocks = 0 THEN 1 ELSE blocks, threads |-> threads,
         source |-> Src, size |-> problem.n, assign |-> TRUE]

\* The launch over n slots: the last ones are reduced into the first ones, as long as more
\* than one block is worth it, and what is left goes on.
laterLaunch(n) ==
    LET threads == optimalThreadsPerBlock(n)
        blocks  == (n \div 2) \div threads
        offset  == (blocks + threads - 1) \div threads
    IN  IF blocks > 1
        THEN [blocks |-> blocks - offset, threads |-> threads, source |-> offset * threads,
              size |-> n - offset * threads, assign |-> FALSE, left |-> offset * threads]
        ELSE [blocks |-> IF n > 1 THEN 1 ELSE 0, threads |-> threads, source |-> 0,
              size |-> n, assign |-> TRUE, left |-> 1]

-----------------------------------------------------------------------------
(* reduce::Kernel.                                                         *)

srcBuffer(i) == IF kernel.source = Src THEN element(i) ELSE scratch[kernel.source + i]

\* A thread's share: every numReduceThreads-th element from its own; nothing beyond the end.
loaded(b, t) ==
    LET mine   == b * kernel.threads + t
        Strided == {i \in 0 .. kernel.size - 1 : i >= mine /\ (i - mine) % (kernel.blocks * kernel.threads) = 0}
    IN  IF mine < kernel.size THEN combined(Strided, srcBuffer) ELSE Junk

\* Chunks of shared memory that still count after k rounds.
chunks[k \in Nat] == IF k = 0 THEN kernel.threads ELSE (chunks[k - 1] + 1) \div 2

\* Shared memory after k rounds; the upper half is added to the lower one.
sharedMem(b) ==
    LET mem[k \in Nat] ==
          IF k = 0 THEN [t \in 0 .. kernel.threads - 1 |-> loaded(b, t)]
          ELSE [t \in 0 .. kernel.threads - 1 |->
                  IF b * kernel.threads + t < kernel.size /\ (t = 0 \/ t < chunks[k - 1] \div 2)
                  THEN func(mem[k - 1][t], mem[k - 1][t + chunks[k]]) ELSE mem[k - 1][t]]
        rounds == CHOOSE k \in 0 .. 10 : chunks[k] = 1 /\ \A j \in 0 .. k - 1 : chunks[j] # 1
    IN  mem[rounds]

-----------------------------------------------------------------------------
(* enqueueReduction, one queue.                                            *)

ReduceInit ==
    /\ problem \in Problems
    /\ scratch = [i \in 0 .. problem.nBuffer - 1 |-> Junk]
    /\ kernel = firstLaunch /\ running = 0 .. kernel.blocks - 1
    /\ left = kernel.blocks /\ result = <<>>

RunBlock(b) ==
    /\ b \in running /\ running' = running \ {b}
    /\ LET value == sharedMem(b)[0]
       IN  scratch' = [scratch EXCEPT ![b] = IF kernel.assign THEN value ELSE func(@, value)]
    /\ UNCHANGED <<problem, kernel, left, result>>

NextKernel ==
    LET next == laterLaunch(left)
    IN  /\ running = {} /\ result = <<>> /\ next.blocks > 0
        /\ kernel' = [blocks |-> next.blocks, threads |-> next.threads, source |-> next.source,
                      size |-> next.size, assign |-> next.assign]
        /\ running' = 0 .. next.blocks - 1 /\ left' = next.left
        /\ UNCHANGED <<problem, scratch, result>>

\* deviceToHost and the first slot.
Deliver ==
    /\ running = {} /\ result = <<>> /\ laterLaunch(left).blocks = 0
    /\ result' = <<scratch[0]>>
    /\ UNCHANGED <<problem, scratch, kernel, running, left>>

ReduceNext == (\E b \in running : RunBlock(b)) \/ NextKernel \/ Deliver

-----------------------------------------------------------------------------
(* GatherSlice, and the participation of MPIReduce.                        *)

planeRanks(p) == 0 .. Len(p) - 1

GatherInit == plane \in Planes /\ comm = <<>> /\ gathered = <<>> /\ globalField = <<>>

\* splitCommunicator with the world rank as the key: the members in rank order.
participate ==
    /\ comm = <<>> /\ gathered = <<>>
    /\ comm' = SelectSeq([i \in 1 .. Len(plane) |-> i - 1], LAMBDA r : plane[r + 1] # NoSlice)
    /\ UNCHANGED <<plane, gathered, globalField>>

elements(e) == e[1] * e[2]

\* Extents and offsets of every member, by gather rank.
gatherExtents ==
    /\ comm # <<>> /\ gathered = <<>>
    /\ gathered' = [g \in DOMAIN comm |-> plane[comm[g] + 1]]
    /\ UNCHANGED <<plane, comm, globalField>>

displs(g) == MapThenSumSet(LAMBDA h : elements(gathered[h].extent), 1 .. g - 1)

\* A member's slice, x fastest: the rank and the cell of each element.
localSlice(g) ==
    [k \in 0 .. elements(gathered[g].extent) - 1 |->
        <<comm[g], k % gathered[g].extent[1], k \div gathered[g].extent[1]>>]

\* gatherV: the members' slices at their displacements.
allData ==
    LET Owner(k) == {g \in DOMAIN comm : k >= displs(g) /\ k < displs(g) + elements(gathered[g].extent)}
        total == MapThenSumSet(LAMBDA g : elements(gathered[g].extent), DOMAIN comm)
    IN  [k \in 0 .. total - 1 |->
            IF Owner(k) = {} THEN <<>> ELSE LET g == Max(Owner(k)) IN localSlice(g)[k - displs(g)]]

cellsOf(g) == {<<x, y>> : x \in 0 .. gathered[g].extent[1] - 1, y \in 0 .. gathered[g].extent[2] - 1}

at(g, c) == <<c[1] + gathered[g].offset[1], c[2] + gathered[g].offset[2]>>

\* gatherV and the master's loop over the data sets, in rank order.
gatherSlices ==
    /\ gathered # <<>> /\ globalField = <<>>
    /\ LET data == allData
           Cells == UNION {{at(g, c) : c \in cellsOf(g)} : g \in DOMAIN comm}
           from(cell) == Max({g \in DOMAIN comm : \E c \in cellsOf(g) : at(g, c) = cell})
       IN  globalField' = [cell \in Cells |->
               LET g == from(cell)
                   x == cell[1] - gathered[g].offset[1]
                   y == cell[2] - gathered[g].offset[2]
               IN  data[displs(g) + y * gathered[g].extent[1] + x]]
    /\ UNCHANGED <<plane, comm, gathered>>

GatherNext == participate \/ gatherExtents \/ gatherSlices

-----------------------------------------------------------------------------
\* Whatever the number of elements, scratch slots and shared memory, and in whatever order
\* blocks run: between two kernels the slots still in use hold every element exactly once
\* and nothing that was never written, no block writes outside the scratch buffer or into
\* what others of its launch read, and the host receives the sum of all.
ReductionExact ==
    /\ \A b \in running : b < problem.nBuffer
    /\ kernel.source # Src =>
          /\ kernel.source + kernel.size <= problem.nBuffer
          /\ kernel.blocks > 1 => kernel.blocks <= kernel.source
    /\ running = {} /\ problem.n > 0 =>
          combined(0 .. left - 1, LAMBDA i : scratch[i]) = [i \in 0 .. problem.n |-> IF i = 0 THEN 0 ELSE 1]
    /\ result # <<>> => result[1] = [i \in 0 .. problem.n |-> IF i = 0 THEN 0 ELSE 1]

\* The master's field holds every member's slice at its offset, however ranks and slices are
\* ordered.
GatherExact ==
    globalField # <<>> =>
        \A r \in planeRanks(plane) : \A x \in 0 .. plane[r + 1].extent[1] - 1, y \in 0 .. plane[r + 1].extent[2] - 1 :
            globalField[<<x + plane[r + 1].offset[1], y + plane[r + 1].offset[2]>>] = <<r, x, y>>

CollectivesExact == ReductionExact /\ GatherExact
=============================================================================
