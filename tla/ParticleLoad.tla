---------------------------- MODULE ParticleLoad ----------------------------
(***************************************************************************)
(* Particles from one large frame into the frame lists of a species and    *)
(* back: splitIntoListOfFrames, CountParticles, ConcatListOfFrames         *)
(* (particles/operations/), and the traversals of a supercell they use     *)
(* (particles/algorithm/ForEach.hpp, lockstep/ForEach.hpp).                *)
(*                                                                         *)
(* The blocks of the split run concurrently: a step is one access to what  *)
(* they share, the work counter and the first frame of a supercell.  The   *)
(* threads of the concatenation take a frame's worth of the output in a    *)
(* critical section.                                                       *)
(***************************************************************************)
EXTENDS ParticlesBox, Mappings

CONSTANTS
    LoadDesc,       \* the mapping description
    SuperCellSize,  \* cells of a supercell
    CellOffset,     \* cellOffsetToTotalDomain
    Sources,        \* the large frames: the total cell index of every particle
    SrcFrameSizes,  \* T_SrcFrame::frameSize, which sizes the grid
    Window,         \* setWindowPosition of the position filter: offset and size
    WorkerCounts,   \* numWorkers a kernel may be compiled for
    Domains         \* sizes of lockstep domains

VARIABLES
    species,   \* the particle box of the destination
    source,    \* the large frame
    counter,   \* counter[0..2]: work handed out, particles loaded, frames used
    split,     \* blocks of KernelSplitIntoListOfFrames
    stage,     \* which sender of the sequence runs
    packing,   \* KernelFillGaps: the supercells to do and the state of the first
    counted,   \* the result of CountParticles
    reading,   \* ConcatListOfFrames: the frame each supercell's thread is at
    dest       \* its output

load == <<species, source, counter, split, stage, packing, counted, reading, dest>>

-----------------------------------------------------------------------------
(* Cells.                                                                  *)

N == Len(source)

\* Of the particle at index i of the large frame (from 0).
cellOffset(i) == minus(source[i + 1], CellOffset)

superCellOf(i) == [d \in dims(SuperCellSize) |-> cellOffset(i)[d] \div SuperCellSize[d]]

lCellIdx(i) ==
    linearize(SuperCellSize,
              [d \in dims(SuperCellSize) |-> cellOffset(i)[d] - superCellOf(i)[d] * SuperCellSize[d]])

numSuperCells == minus(LoadDesc.grid, times(2, LoadDesc.guard))

\* The supercell in the grid with its guard.
target(i) == plus(superCellOf(i), LoadDesc.guard)

\* Position of the first cell of supercell c in the local domain.
superCellPosition(c) == [d \in dims(c) |-> (c[d] - LoadDesc.guard[d]) * SuperCellSize[d]]

\* PositionFilter::operator().
inWindow(c, lcell) ==
    LET pos == plus(superCellPosition(c), mapToND(SuperCellSize, lcell))
    IN  \A d \in dims(pos) : Window.offset[d] <= pos[d] /\ pos[d] < Window.offset[d] + Window.size[d]

-----------------------------------------------------------------------------
(* splitIntoListOfFrames.                                                  *)

Idx == 0 .. FrameSize - 1

SplitBlocks(srcFrameSize) == 1 .. (N + srcFrameSize - 1) \div srcFrameSize

LoadInit ==
    /\ species = EmptyBox /\ source \in Sources
    /\ counter = [work |-> 0, loaded |-> 0, frames |-> 0]
    /\ \E srcFrameSize \in SrcFrameSizes :
          split = [b \in SplitBlocks(srcFrameSize) |->
                     [pc |-> "apply", at |-> 0, todo |-> {}, linking |-> {}, frame |-> [i \in Idx |-> NullFrame]]]
    /\ stage = "split" /\ packing = [cells |-> {}, fill |-> fillStart(EmptyBox, CHOOSE c \in Cells : TRUE)]
    /\ counted = 0 /\ reading = <<>> /\ dest = <<>>

hasValidParticle(at, i) == at + i < N

\* sharedLinearSuperCellIds.
linearSuperCell(at, i) ==
    IF hasValidParticle(at, i) THEN linearize(numSuperCells, superCellOf(at + i)) ELSE -1

\* Mutant: the search does not stop at another supercell.
masterOf_NoBreak(at, i) == 0

\* The first of the run of particles of one supercell that i is in.
masterOf(at, i) ==
    CHOOSE k \in 0 .. i :
        /\ \A j \in k .. i : linearSuperCell(at, j) = linearSuperCell(at, i)
        /\ k = 0 \/ linearSuperCell(at, k - 1) # linearSuperCell(at, i)

\* The block takes the next particles of the large frame and finds its masters.
Apply(b) ==
    /\ stage = "split" /\ split[b].pc = "apply"
    /\ counter' = [counter EXCEPT !.work = @ + FrameSize]
    /\ split' = [split EXCEPT ![b].pc = "frames", ![b].at = counter.work,
                   ![b].todo = {i \in Idx : hasValidParticle(counter.work, i) /\ masterOf(counter.work, i) = i}]
    /\ UNCHANGED <<species, source, stage, packing, counted, reading, dest>>

\* A master gets a frame; setAsFirstFrame up to and with the atomic exchange.
ExchangeFirst(b, i) ==
    LET f == getEmptyFrame(species)
        c == target(split[b].at + i)
    IN  /\ split[b].pc = "frames" /\ i \in split[b].todo
        /\ species' = [allocate(species, f) EXCEPT !.prev[f] = NullFrame, !.next[f] = species.first[c], !.first[c] = f]
        /\ counter' = [counter EXCEPT !.frames = @ + 1]
        /\ split' = [split EXCEPT ![b].todo = @ \ {i}, ![b].linking = @ \cup {i}, ![b].frame[i] = f]
        /\ UNCHANGED <<source, stage, packing, counted, reading, dest>>

\* The rest of setAsFirstFrame.
LinkFirst(b, i) ==
    LET f == split[b].frame[i]
        old == species.next[f]
    IN  /\ split[b].pc = "frames" /\ i \in split[b].linking
        /\ species' = IF old # NullFrame THEN [species EXCEPT !.prev[old] = f]
                      ELSE [species EXCEPT !.last[target(split[b].at + i)] = f]
        /\ split' = [split EXCEPT ![b].linking = @ \ {i}]
        /\ UNCHANGED <<source, counter, stage, packing, counted, reading, dest>>

\* After the barrier every particle is copied to its own slot of its master's frame.
Copy(b) ==
    LET k == split[b]
        Valid == {i \in Idx : hasValidParticle(k.at, i)}
        copied(f, i) == i \in Valid /\ k.frame[masterOf(k.at, i)] = f
    IN  /\ k.pc = "frames" /\ k.todo = {} /\ k.linking = {}
        /\ species' = [species EXCEPT !.slot = [f \in Frames |-> [i \in Slots |->
                         IF copied(f, i) THEN Particle([src |-> k.at + i, lcell |-> lCellIdx(k.at + i)], 1) ELSE @[f][i]]]]
        /\ counter' = [counter EXCEPT !.loaded = @ + Cardinality(Valid)]
        /\ split' = [split EXCEPT ![b].pc = "done"]
        /\ UNCHANGED <<source, stage, packing, counted, reading, dest>>

\* The queue starts fillAllGaps after the last block.
FillAllGaps ==
    /\ stage = "split" /\ \A b \in DOMAIN split : split[b].pc = "done"
    /\ stage' = "fill"
    /\ packing' = [cells |-> Cells, fill |-> fillStart(species, CHOOSE c \in Cells : TRUE)]
    /\ UNCHANGED <<species, source, counter, split, counted, reading, dest>>

\* One turn of the loop of KernelFillGaps, or what follows it.  A block works on its own
\* supercell only: one after the other stands for every order.
Pack ==
    LET c == CHOOSE c \in packing.cells : TRUE
        rest == packing.cells \ {c}
    IN  /\ stage = "fill" /\ packing.cells # {}
        /\ IF fillLoops(packing.fill)
           THEN LET s == fillRound(species, c, packing.fill)
                IN  species' = s.box /\ packing' = [packing EXCEPT !.fill = s.fill]
           ELSE /\ species' = fillLast(species, c, packing.fill)
                /\ packing' = [cells |-> rest,
                               fill |-> fillStart(species', CHOOSE d \in (IF rest = {} THEN {c} ELSE rest) : TRUE)]
        /\ UNCHANGED <<source, counter, split, stage, counted, reading, dest>>

\* The counters are on the host: a load that is not complete throws.
CheckLoaded ==
    /\ stage = "fill" /\ packing.cells = {}
    /\ stage' = IF counter.loaded = N THEN "count" ELSE "failed"
    /\ UNCHANGED <<species, source, counter, split, packing, counted, reading, dest>>

-----------------------------------------------------------------------------
(* Traversals.  A visit is a frame and a slot.                             *)

\* lockstep ForEach: what worker w executes, in full rounds and what is left over: an index
\* of the domain and its place in the worker's context variables.
lockstepIdx(w, size, workers, simd) ==
    LET step == simd * workers
        peeled == size \div step
        idx(i, s) == <<i * step + simd * w + s, i * simd + s>>
        left == {s \in 0 .. simd - 1 : simd * w + s < size - peeled * step}
    IN  IF size = 1 THEN IF w = 0 THEN {<<0, 0>>} ELSE {}
        ELSE {idx(i, s) : i \in 0 .. peeled - 1, s \in 0 .. simd - 1} \cup {idx(peeled, s) : s \in left}

\* Config::maxIndicesPerWorker, the size of a context variable.
maxIndicesPerWorker(size, workers, simd) == ((size + simd * workers - 1) \div (simd * workers)) * simd

\* Forward or Reverse: the frames of supercell c in the order they are walked.
walked(b, c, order) ==
    LET l == listOf(b, c) IN [k \in DOMAIN l |-> IF order = "Forward" THEN l[k] ELSE l[Len(l) + 1 - k]]

\* remaining when the walk of the unary traversal reaches its k-th frame.
remainingAt(b, c, order, k) ==
    b.num[c] - (IF k = 1 THEN 0
                ELSE (k - 1) * FrameSize - (IF order = "Forward" THEN 0 ELSE FrameSize - getSizeLastFrame(b, c)))

activeSlots(b, c, order, k) ==
    IF order = "Forward" THEN least(remainingAt(b, c, order, k), FrameSize)
    ELSE IF k = 1 THEN getSizeLastFrame(b, c) ELSE FrameSize

\* ForEachParticle with a particle functor; the multiMask is not looked at.
unaryVisits(b, c, order) ==
    LET l == walked(b, c, order)
        Reached == {k \in DOMAIN l : \A j \in 1 .. k : remainingAt(b, c, order, j) > 0}
    IN  UNION {{<<l[k], i>> : i \in {s \in Slots : s < activeSlots(b, c, order, k)}} : k \in Reached}

frameDistance(workers) == (workers + FrameSize - 1) \div FrameSize

\* ForEachParticle with a frame functor: what worker w is handed, every frameDistance-th
\* frame from the one its index falls in.
batchVisits(b, c, order, workers, w) ==
    LET l == walked(b, c, order)
        distance == frameDistance(workers)
        index == {x[1] : x \in lockstepIdx(w, FrameSize * distance, workers, 1)}
    IN  IF b.num[c] = 0 THEN {}
        ELSE UNION {{<<l[k], i % FrameSize>> : k \in {n \in DOMAIN l : (n - 1) % distance = i \div FrameSize}} : i \in index}

\* The compiler refuses other numbers of workers.
legalWorkers(workers) == workers > FrameSize => workers % FrameSize = 0

-----------------------------------------------------------------------------
(* CountParticles and ConcatListOfFrames.                                  *)

particleAt(b, v) == b.slot[v[1]][v[2]]

\* Every supercell's block adds what it visits and the filter selects.
countParticles(b) ==
    LET selected(c) == {v \in unaryVisits(b, c, "Reverse") : inWindow(c, particleAt(b, v).who.lcell)}
    IN  Cardinality(UNION {selected(c) : c \in Cells})

Count ==
    /\ stage = "count" /\ stage' = "concat"
    /\ counted' = countParticles(species)
    /\ reading' = [c \in Cells |-> species.first[c]]
    /\ UNCHANGED <<species, source, counter, split, packing, dest>>

\* A thread counts the particles of its frame, reserves their places and copies them.
Concat(c) ==
    LET f == reading[c]
        chosen == Lanes({i \in withMask(species, f, {1}) : inWindow(c, species.slot[f][i].who.lcell)})
        copyOf(i) == LET p == species.slot[f][i].who
                     IN  [src |-> p.src,
                          cell |-> plus(CellOffset, plus(superCellPosition(c), mapToND(SuperCellSize, p.lcell)))]
    IN  /\ stage = "concat" /\ f # NullFrame
        /\ dest' = dest \o [k \in DOMAIN chosen |-> copyOf(chosen[k])]
        /\ reading' = [reading EXCEPT ![c] = species.next[f]]
        /\ UNCHANGED <<species, source, counter, split, stage, packing, counted>>

concatenated == stage = "concat" /\ \A c \in Cells : reading[c] = NullFrame

LoadOver == (concatenated \/ stage = "failed") /\ UNCHANGED load

LoadNext ==
    \/ \E b \in DOMAIN split :
          Apply(b) \/ Copy(b) \/ \E i \in Idx : ExchangeFirst(b, i) \/ LinkFirst(b, i)
    \/ FillAllGaps \/ Pack \/ CheckLoaded \/ Count \/ LoadOver
    \/ stage = "concat" /\ \E c \in Cells : Concat(c)

-----------------------------------------------------------------------------
Indices == 0 .. N - 1

Selected == {i \in Indices : inWindow(target(i), lCellIdx(i))}

\* A particle of the large frame ends in the list of its supercell, with its cell, and is
\* counted; the concatenation returns exactly those of the window, each once and with the
\* cell it came with, without a hole, whatever the order of the blocks and the threads.
LoadRoundTrip ==
    /\ stage = "count" =>
          /\ wellFormed(species)
          /\ \A c \in Cells : /\ packed(species, c)
                              /\ content(species, c) = {[src |-> i, lcell |-> lCellIdx(i)] :
                                                          i \in {j \in Indices : target(j) = c}}
    /\ stage = "concat" => counted = Cardinality(Selected)
    /\ concatenated =>
          /\ Len(dest) = Cardinality(Selected)
          /\ {dest[k] : k \in DOMAIN dest} = {[src |-> i, cell |-> source[i + 1]] : i \in Selected}

slotsOf(b, c) == {<<listOf(b, c)[k], i>> : k \in DOMAIN listOf(b, c), i \in Slots}

\* The workers share a domain without overlap, and every index has a place of its own in
\* the context variables of its worker.
DistributionExact ==
    \A size \in Domains, workers \in WorkerCounts, simd \in 1 .. 3 :
        LET of(w) == lockstepIdx(w, size, workers, simd)
            W == 0 .. workers - 1
        IN  /\ {x[1] : x \in UNION {of(w) : w \in W}} = 0 .. size - 1
            /\ \A w, v \in W : \A x \in of(w), y \in of(v) :
                  /\ x[1] = y[1] => w = v /\ x = y
                  /\ w = v /\ x[2] = y[2] => x = y
            /\ \A w \in W : \A x \in of(w) : x[2] < maxIndicesPerWorker(size, workers, simd)

\* Both traversals of a packed list, in both orders and with any number of workers, hand
\* out every particle once, and no worker touches another's.
TraversalsExact ==
    stage = "count" =>
        /\ DistributionExact
        /\ \A c \in Cells, order \in {"Forward", "Reverse"} :
             /\ unaryVisits(species, c, order) = places(species, c)
             /\ \A workers \in {n \in WorkerCounts : legalWorkers(n)} :
                   LET of(w) == batchVisits(species, c, order, workers, w)
                       W == 0 .. workers - 1
                   IN  /\ \A w, v \in W : w # v => of(w) \cap of(v) = {}
                       /\ UNION {of(w) : w \in W} = slotsOf(species, c)

\* CountParticles.hpp: "it is allowed to call this kernel on frames with holes (without
\* calling fillAllGAps before)".
CountsWithHoles ==
    (stage = "split" /\ \A b \in DOMAIN split : split[b].pc = "done") =>
        countParticles(species) = Cardinality(Selected)
=============================================================================
