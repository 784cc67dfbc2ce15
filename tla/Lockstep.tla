------------------------------ MODULE Lockstep ------------------------------
(***************************************************************************)
(* One block of a lockstep kernel: how a launch is configured, which       *)
(* indices of a domain each worker takes, their context variables, shared  *)
(* memory, and counters that the threads of a warp advance together        *)
(* (lockstep/, exec/, kernel/atomic.hpp, memory/boxes/, mappings/threads/).*)
(*                                                                         *)
(* Workers run in any order; those of a warp that are at the same index of *)
(* their share may take it together.                                       *)
(***************************************************************************)
EXTENDS Mappings, FiniteSetsExt

CONSTANTS
    Launches,   \* [own, asked, grid, simd, tile, counts]: a kernel and how it is launched
    MaxWorkers, \* currentMaxWorkers, the most threads of a block
    WarpSize

VARIABLES
    launch,   \* the launch
    at,       \* by worker, indices of its share it has been through
    var,      \* by worker, its part of a lockstep::Variable
    cache,    \* shared memory: the index that wrote each element
    counter,  \* the integer the functor increments
    counted   \* by index, what atomicAllInc returned

lockstepVars == <<launch, at, var, cache, counter, counted>>

Blank == -1

-----------------------------------------------------------------------------
(* Launching.                                                              *)

\* A kernel that has a block size of its own takes no other; one without needs one.
makeBlockCfg(own, asked) ==
    IF own # <<>> /\ asked = <<>> THEN own ELSE IF own = <<>> THEN asked ELSE <<>>

blockDomSize(l) == productOfComponents(makeBlockCfg(l.own, l.asked))

\* The backend may have fewer threads than a block has indices.
numWorkers(l) == Min({blockDomSize(l), MaxWorkers})

kernelLauncher(grid, block) == [gridExtent |-> grid, blockExtent |-> block]

\* config: blocks of workers along x, one dimension for each of the grid.
config(l) == kernelLauncher(l.grid, [d \in dims(l.grid) |-> IF d = 1 THEN numWorkers(l) ELSE 1])

\* toAlpakaKernelVec, and back in the kernel: alpaka counts dimensions the other way.
revert(v) == [d \in dims(v) |-> v[Len(v) + 1 - d]]

threadSpec(l) == [grid |-> revert(config(l).gridExtent), block |-> revert(config(l).blockExtent)]

\* getWorkerAssume1DThreads, and getWorker for a block of any extent.
workerOf(thread) == revert(thread)[1]

workerOfAny(l, thread) == linearize(revert(threadSpec(l).block), revert(thread))

Workers(l) == 0 .. numWorkers(l) - 1

-----------------------------------------------------------------------------
(* ForEach.                                                                *)

peeledIterations(domainSize, workers, simd) == domainSize \div (simd * workers)

\* An index of the domain, and where its worker keeps what belongs to it.
Idx(domElemIdx, workerElemIdx) == [dom |-> domElemIdx, elem |-> workerElemIdx]

maxIndicesPerWorker(domainSize, workers, simd) ==
    ((domainSize + simd * workers - 1) \div (simd * workers)) * simd

\* A worker's Idx in the order it takes them: vectors of simd neighbours in turn, then what
\* is left; one index is the master's.
share(domainSize, workers, simd, w) ==
    LET peeled == peeledIterations(domainSize, workers, simd)
        idx(i, s) == Idx(i * simd * workers + simd * w + s, i * simd + s)
        whole == [k \in 1 .. peeled * simd |-> idx((k - 1) \div simd, (k - 1) % simd)]
        left  == domainSize - peeled * workers * simd
        rest  == SelectSeq([s \in 1 .. simd |-> idx(peeled, s - 1)],
                           LAMBDA x : w * simd + (x.elem - peeled * simd) < left)
    IN  IF domainSize = 1 THEN IF w = 0 THEN <<Idx(0, 0)>> ELSE <<>>
        ELSE whole \o rest

-----------------------------------------------------------------------------
(* Shared memory.                                                          *)

\* Elements from the origin of a box, x first, then by the pitches of the other dimensions.
offsetIn(pitch, idx) ==
    LET upTo[d \in 1 .. Len(idx)] == IF d = 1 THEN idx[1] ELSE upTo[d - 1] + pitch[d - 1] * idx[d] IN upTo[Len(idx)]

\* A supercell with guards: SuperCellDescription::FullSuperCellSize.
fullSize(tile) == plus(plus(tile.origin, tile.size), tile.end)

\* SharedBox, with CalcPitch.
SharedBox(extent) == [m_ptr |-> 0, pitch |-> [d \in 1 .. Len(extent) - 1 |-> weight(extent, d + 1)]]

\* CachedBox::create: the box is used relative to the core of the supercell.
CachedBox(tile) ==
    LET box == SharedBox(fullSize(tile)) IN [box EXCEPT !.m_ptr = @ + offsetIn(box.pitch, tile.origin)]

placeIn(box, idx) == box.m_ptr + offsetIn(box.pitch, idx)

\* ThreadCollective: an element of the tile with its guards, relative to the core.
collectiveOffset(tile, linearIdx) == minus(mapToND(fullSize(tile), linearIdx), tile.origin)

volume(tile) == productOfComponents(fullSize(tile))

-----------------------------------------------------------------------------
(* A block: its functor remembers the index in a context variable, fills   *)
(* the cache and may count.                                                *)

mine(w) == share(volume(launch.tile), numWorkers(launch), launch.simd, w)

LockstepInit ==
    /\ launch \in Launches
    /\ LET domain == volume(launch.tile)
           workers == numWorkers(launch)
       IN  /\ at = [w \in Workers(launch) |-> 0]
           /\ var = [w \in Workers(launch) |->
                        [e \in 0 .. maxIndicesPerWorker(domain, workers, launch.simd) - 1 |-> Blank]]
           /\ cache = [p \in 0 .. domain - 1 |-> Blank]
           /\ counted = [i \in 0 .. domain - 1 |-> Blank]
    /\ counter = 0

warpOf(w) == w \div WarpSize

\* Lanes of the mask below a lane.
below(mask, w) == Cardinality({v \in mask : v < w})

\* The first lane of the mask adds for all, each has its own number.
atomicAllInc(mask, w) == counter + below(mask, w)

\* Workers of a warp go through their next index; some functors count.
RunFunctor(mask) ==
    LET now(w) == mine(w)[at[w] + 1]
        place(w) == placeIn(CachedBox(launch.tile), collectiveOffset(launch.tile, now(w).dom))
    IN  /\ mask # {} /\ \A v, w \in mask : warpOf(v) = warpOf(w) /\ at[v] = at[w]
        /\ \A w \in mask : at[w] < Len(mine(w))
        /\ at' = [w \in DOMAIN at |-> IF w \in mask THEN at[w] + 1 ELSE at[w]]
        /\ var' = [w \in DOMAIN var |-> IF w \in mask THEN [var[w] EXCEPT ![now(w).elem] = now(w).dom] ELSE var[w]]
        /\ cache' = [p \in DOMAIN cache |->
                        IF \E w \in mask : place(w) = p THEN now(CHOOSE w \in mask : place(w) = p).dom ELSE cache[p]]
        /\ IF launch.counts
           THEN /\ counter' = counter + Cardinality(mask)
                /\ counted' = [i \in DOMAIN counted |->
                      IF \E w \in mask : now(w).dom = i
                      THEN atomicAllInc(mask, CHOOSE w \in mask : now(w).dom = i) ELSE counted[i]]
           ELSE UNCHANGED <<counter, counted>>
        /\ UNCHANGED launch

LockstepNext == \E mask \in SUBSET Workers(launch) : RunFunctor(mask)

-----------------------------------------------------------------------------
\* Whatever the domain, the backend's threads and the vector width: workers have the index
\* of their thread, every index of the domain is one worker's, its slot of a context
\* variable is inside the array and keeps what it was given, the tile's elements have a
\* place each in shared memory, and counting in warps hands out every number once.
LockstepExact ==
    /\ makeBlockCfg(launch.own, launch.asked) # <<>>
    /\ \A t \in Blocks(threadSpec(launch).block) : workerOf(t) = workerOfAny(launch, t)
    /\ {workerOf(t) : t \in Blocks(threadSpec(launch).block)} = Workers(launch)
    /\ MapThenSumSet(LAMBDA w : Len(mine(w)), Workers(launch)) = volume(launch.tile)
    /\ \A w \in Workers(launch) : \A k \in 1 .. at[w] :
          /\ mine(w)[k].elem \in DOMAIN var[w] /\ var[w][mine(w)[k].elem] = mine(w)[k].dom
          /\ cache[placeIn(CachedBox(launch.tile), collectiveOffset(launch.tile, mine(w)[k].dom))] = mine(w)[k].dom
    /\ (\A w \in Workers(launch) : at[w] = Len(mine(w))) =>
          /\ Blank \notin {cache[p] : p \in DOMAIN cache}
          /\ launch.counts => {counted[i] : i \in DOMAIN counted} = 0 .. volume(launch.tile) - 1
=============================================================================
