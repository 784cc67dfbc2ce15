----------------------------- MODULE FrameSweep -----------------------------
(***************************************************************************)
(* Walks over the frames a time step keeps in its lists: the frames and    *)
(* slots the blocks and threads of a launch take under every schedule and  *)
(* grid (FrameSchedule.hpp, FrameDispatch.hpp, LaunchForEach.hpp), the     *)
(* sequential walk of the hierarchy on the device and through the host's   *)
(* copy of its heap (HierarchyForEach.hpp), and the openPMD plugin that    *)
(* packs the particles into a DynSoA (CopyParticlesToDynSoA.hpp).          *)
(*                                                                         *)
(* Blocks, threads and frame slots count from 0; a host address is the     *)
(* device address, marked.                                                 *)
(***************************************************************************)
EXTENDS SphTimestep

CONSTANTS
    ProcessThreads,  \* threads of a block
    FixedGrids       \* the grid sizes of FixedGrid

VARIABLE output  \* what the plugin's last notification has written, and from which copy of the heap

-----------------------------------------------------------------------------
(* Launches.                                                               *)

OneToOne(b, n, total) == {f \in {b} : f < total}

GridStride(b, n, total) == {f \in 0 .. total - 1 : f % n = b}

\* alpaka's balanced ranges: the first total % n blocks take one more.
Contiguous(b, n, total) ==
    LET most == total % n
        first(c) == c * (total \div n) + (IF c < most THEN c ELSE most)
    IN  first(b) .. first(b + 1) - 1

\* Grids: 0 is OneBlockPerFrame, the only one for OneToOne.
numBlocks(grid, total) == IF grid = 0 \/ grid >= total THEN total ELSE grid

Configs == {<<"OneToOne", 0>>} \cup ({"GridStride", "Contiguous"} \X (FixedGrids \cup {0}))

blockFrames(cfg, b, total) ==
    LET n == numBlocks(cfg[2], total)
    IN  CASE cfg[1] = "OneToOne"   -> OneToOne(b, n, total)
          [] cfg[1] = "GridStride" -> GridStride(b, n, total)
          [] cfg[1] = "Contiguous" -> Contiguous(b, n, total)

forEachFrameSlot(t, threads) == {j \in 0 .. FrameSize - 1 : j % threads = t}

occupied(f, j) == j + 1 \in DOMAIN heap[f].ps

lockstepForEachParticle(t, threads, f) == {<<f, j + 1>> : j \in {k \in forEachFrameSlot(t, threads) : occupied(f, k)}}

\* <<block, thread, index slot, particle>> of every call of the body.
launchForEach(s, cfg, threads) ==
    LET total == indices[s].total
    IN  UNION {{<<b, t, g, p>> : p \in lockstepForEachParticle(t, threads, indices[s].ptrs[g + 1])} :
               <<b, t, g>> \in {<<b, t, g>> \in (0 .. numBlocks(cfg[2], total) - 1) \X (0 .. threads - 1) \X (0 .. total - 1) :
                                   g \in blockFrames(cfg, b, total)}}

-----------------------------------------------------------------------------
(* The walk of the hierarchy, with native pointers or the host's.          *)

mapToHost(f) == IF f = Null THEN Null ELSE <<"host", f>>

\* What is followed of a particle in copies of the heap.
attributes(p) == [pos |-> p.pos, vel |-> p.vel, pushes |-> p.pushes]

\* MallocMCBuffer::synchronize: next pointers are still the device's.
syncHeapToHost == [h \in {mapToHost(f) : f \in DOMAIN heap} |->
    LET f == heap[h[2]] IN [next |-> f.next, ps |-> [j \in DOMAIN f.ps |-> attributes(f.ps[j])]]]

RECURSIVE hostFrom(_, _)
hostFrom(mirror, h) == IF h = Null THEN <<>> ELSE <<h>> \o hostFrom(mirror, mapToHost(mirror[h].next))

\* hostIterable
hostFrames(mirror, first) == hostFrom(mirror, mapToHost(first))

\* Every frame of a species, region after region, and every particle of its frames.
forEachDevice(s) == FlattenSeq([r \in regionsOf(s) |-> listOf(s, r)])

forEachHost(mirror, s) == FlattenSeq([r \in regionsOf(s) |-> hostFrames(mirror, buf[s].regions[r].first)])

-----------------------------------------------------------------------------
(* Output.                                                                 *)

OpenPMDOutput == {"Default"}

RECURSIVE hostTasks(_, _, _)
hostTasks(mirror, f, n) == IF n = 0 THEN <<>> ELSE <<mapToHost(f)>> \o hostTasks(mirror, mirror[mapToHost(f)].next, n - 1)

\* As many frames of a region as its number of particles needs.
tasks(mirror, s) ==
    FoldLeft(LAMBDA ts, region : ts \o hostTasks(mirror, region.first, numFrames(region.num)), <<>>, buf[s].regions)

liveParticles(mirror, h) == Len(mirror[h].ps)

\* Mutant: only the last frame of a region is not full.
writeOffset_Packed(mirror, ts, k) == (k - 1) * FrameSize

writeOffset(mirror, ts, k) == sum([i \in 1 .. k - 1 |-> liveParticles(mirror, ts[i])])

\* The rows of the DynSoA; the ones no task writes stay uninitialized.
CopyParticlesToDynSoA(mirror, s) ==
    LET ts     == tasks(mirror, s)
        total  == sum([r \in regionsOf(s) |-> buf[s].regions[r].num])
        stores == UNION {LET first == writeOffset(mirror, ts, k)
                         IN  {<<first + i, <<ts[k][2], i>>, mirror[ts[k]].ps[i]>> :
                                 i \in 1 .. liveParticles(mirror, ts[k])} : k \in DOMAIN ts}
    IN  [row \in 1 .. total |-> {<<w[2], w[3]>> : w \in {v \in stores : v[1] = row}}]

NotNotified == [phase |-> "none", mirror |-> <<>>, fluid |-> <<>>]

\* The plugin first copies the heap to the host.
notify ==
    /\ stage = "idle" /\ fills > 0 /\ output.phase = "none"
    /\ output' = [output EXCEPT !.phase = "synced", !.mirror = syncHeapToHost]
    /\ UNCHANGED vars

\* Each species' rows go to the same openPMD species of the step; none for no particles.
writeStep ==
    LET present == SelectSeq(AllSpecies, LAMBDA s : s \in selectBuffers(OpenPMDOutput))
        write(s, fluid) == LET rows == CopyParticlesToDynSoA(output.mirror, s) IN IF rows = <<>> THEN fluid ELSE rows
    IN  /\ output.phase = "synced"
        /\ output' = [output EXCEPT !.phase = "written", !.fluid = FoldSeq(write, <<>>, present)]
        /\ UNCHANGED vars

\* The simulation goes on when the notification is over.
SweepNext == notify \/ writeStep \/ (output.phase # "synced" /\ Next /\ output' = NotNotified)

-----------------------------------------------------------------------------
\* With every valid schedule, grid and number of threads, a launch of the last stage
\* of a step, over the index refreshed before its first, calls its body exactly once for
\* each live particle of the species and for nothing else.
LaunchesCover ==
    stage = "integrate" =>
        \A s \in relevant, cfg \in Configs, threads \in ProcessThreads :
            LET calls == launchForEach(s, cfg, threads)
                live  == UNION {particlesOf(s, r) : r \in regionsOf(s)}
            IN  {c[4] : c \in calls} = live /\ Cardinality(calls) = Cardinality(live)

\* Right after a notification the host's walk sees the frames the device's walk sees, in
\* the same order, and what was written has exactly one row for each live particle of the
\* species, wherever in its list the partial frame of a region has come to lie.
OutputExact ==
    output.phase = "written" =>
        /\ \A s \in DOMAIN buf : forEachHost(output.mirror, s) = [i \in DOMAIN forEachDevice(s) |-> mapToHost(forEachDevice(s)[i])]
        /\ LET live == UNION {UNION {particlesOf(s, r) : r \in regionsOf(s)} : s \in OpenPMDOutput \cap DOMAIN buf}
           IN  /\ Len(output.fluid) = Cardinality(live)
               /\ \A p \in live : \E row \in DOMAIN output.fluid : output.fluid[row] = {<<p, attributes(at(p))>>}

SweepsExact == LaunchesCover /\ OutputExact
=============================================================================
