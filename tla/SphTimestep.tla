----------------------------- MODULE SphTimestep -----------------------------
(***************************************************************************)
(* A rank's particles from fillSimulation to the end of a time step: the   *)
(* init kernels build one frame list per region, each step refreshes the   *)
(* frame indices, pushes the particles, updates the region bounds, finds   *)
(* the neighbour regions and runs the pairwise passes                      *)
(* (include/spearhed/control/Simulation.x.cpp, include/spearhed/particles, *)
(* packages/pmacc/include/spmacc).                                         *)
(*                                                                         *)
(* Space is one axis of integers, all region origins are zero (the only    *)
(* ones the setups use) and dt is 1.  A density is the bag of particles    *)
(* summed, an acceleration the bag of the terms its neighbours add.        *)
(***************************************************************************)
EXTENDS Integers, FiniteSets, SequencesExt

CONSTANTS
    FrameSize,    \* slots of a frame
    Radius,       \* interaction radius, supportRadius * h0
    Setups,       \* setups fillSimulation may be run with
    MaxVelocity,  \* bound: speeds in -MaxVelocity .. MaxVelocity
    MaxSteps,     \* bound: time steps of a behaviour
    MaxFills      \* bound: fillings of a behaviour

ASSUME SphConstants ==
    /\ FrameSize \in Nat \ {0} /\ Radius \in Nat
    /\ MaxVelocity \in Nat /\ MaxSteps \in Nat /\ MaxFills \in Nat

\* The registered species, in order, and the roles the time step selects on.
AllSpecies == <<"Default", "Boundary", "Tracer">>

Movable       == {"Default", "Tracer"}

Source        == {"Default", "Boundary"}

Thermodynamic == {"Default", "Boundary"}

VARIABLES
    setup,    \* the setup of the last filling
    buf,      \* per species in the DataConnector: which buffer, topology version and regions
    heap,     \* frames allocated so far: next pointer and live particles
    indices,  \* Simulation::frameIndices and the state of their refresh
    slices,   \* block slices InitParticles has still to run
    kernel,   \* the running init kernel: scan of its slice and state of each block
    neigh,    \* neighbour lists of this step, per source species
    stage,    \* position in runOneStep, "init" while filling, "idle" between steps
    step,     \* steps completed
    fills     \* fillings begun

vars == <<setup, buf, heap, indices, slices, kernel, neigh, stage, step, fills>>

Null == <<>>

Empty == <<1, 0>>   \* a default-constructed AABB contains nothing

sum(s) == FoldSeq(LAMBDA x, y : x + y, 0, s)

\* inclusiveScanHost: in place, entry i becomes the sum of the entries up to i.
inclusiveScan(s) == [i \in DOMAIN s |-> sum(SubSeq(s, 1, i))]

before(scan, i) == IF i = 1 THEN 0 ELSE scan[i - 1]

-----------------------------------------------------------------------------
(* Frame lists: a chain of frames from first, last for insertion.          *)

RECURSIVE chain(_)
chain(f) == IF f = Null THEN <<>> ELSE <<f>> \o chain(heap[f].next)

listOf(s, r) == chain(buf[s].regions[r].first)

\* A particle is a live slot of a frame.
particlesOf(s, r) == UNION {{f} \X DOMAIN heap[f].ps : f \in ToSet(listOf(s, r))}

at(p) == heap[p[1]].ps[p[2]]

regionsOf(s) == DOMAIN buf[s].regions

numFrames(n) == (n + FrameSize - 1) \div FrameSize

getSizeLastFrame(n) == IF n = 0 THEN 0 ELSE ((n - 1) % FrameSize) + 1

Unbuilt == [hasBuild |-> FALSE, buffer |-> 0, version |-> 0, target |-> 0, total |-> 0, ptrs |-> <<>>,
            owner |-> <<>>, scan |-> <<>>, pc |-> "ready"]

-----------------------------------------------------------------------------
(* Filling: InitRegions, then InitParticles, slice by slice.               *)

\* Regions of a species, one volume after the other in block order, with empty lists.
newRegions(blocks) ==
    [r \in DOMAIN FlattenSeq(blocks) |->
        [vol |-> FlattenSeq(blocks)[r].vol, num |-> 0, first |-> Null, last |-> Null]]

\* The slices of one species (the regions of each block) and the version bump after them,
\* a slice without regions.
slicesOf(su, s) ==
    LET blocks == IF s \in DOMAIN su THEN su[s] ELSE <<>>
        begin(i) == sum([k \in 1 .. i - 1 |-> Len(blocks[k])])
        all == [i \in DOMAIN blocks |-> [species |-> s, begin |-> begin(i), num |-> Len(blocks[i])]]
    IN  SelectSeq(all, LAMBDA b : b.num > 0) \o <<[species |-> s, begin |-> 0, num |-> 0]>>

\* fillSimulation, which resets the indices, or a second initialisation that does not, of the
\* registered buffers or, after dc.clean(), of new ones.
Fill(su, reset, replace) ==
    LET old(s) == IF s \in DOMAIN buf /\ ~replace THEN buf[s] ELSE [id |-> fills + 1, version |-> 0, regions |-> <<>>]
        kept == IF replace THEN {} ELSE DOMAIN buf
        new == [s \in kept \cup DOMAIN su |->
                  IF s \in DOMAIN su
                  THEN [old(s) EXCEPT !.version = @ + 1 + Len(newRegions(su[s])), !.regions = newRegions(su[s])]
                  ELSE old(s)]
    IN  /\ stage = "idle" /\ fills < MaxFills
        /\ replace => buf # <<>>
        /\ setup' = su /\ buf' = new /\ fills' = fills + 1 /\ stage' = "init"
        /\ indices' = IF reset THEN [s \in DOMAIN indices |-> Unbuilt] ELSE indices
        /\ slices' = FlattenSeq([i \in DOMAIN AllSpecies |->
                        IF AllSpecies[i] \in DOMAIN new THEN slicesOf(su, AllSpecies[i]) ELSE <<>>])
        /\ UNCHANGED <<heap, kernel, neigh, step>>

slice == Head(slices)

inSlice == slice.begin + 1 .. slice.begin + slice.num

\* numParticlesToCreate and placeParticle, the recipe of the slice's block.
recipe(r) == FlattenSeq(setup[slice.species])[r].ps

\* CalculateFramesPerRegion on the regions of the slice, and the scan of its result.
CountSlice ==
    LET frames == [i \in 1 .. slice.num |-> numFrames(Len(recipe(slice.begin + i)))]
        scan   == inclusiveScan(frames)
    IN  /\ stage = "init" /\ kernel.scan = <<>> /\ slices # <<>> /\ slice.num > 0
        /\ buf' = [buf EXCEPT ![slice.species].regions = [r \in DOMAIN @ |->
                     IF r \in inSlice THEN [@[r] EXCEPT !.num = Len(recipe(r))] ELSE @[r]]]
        /\ kernel' = [scan |-> scan, blocks |-> [b \in 0 .. scan[slice.num] - 1 |-> [pc |-> "ready", old |-> Null]]]
        /\ UNCHANGED <<setup, heap, indices, slices, neigh, stage, step, fills>>

passed(scan, mid, b) == scan[mid + 1] <= b

RECURSIVE search(_, _, _, _)
search(scan, b, left, right) ==
    LET mid == (left + right) \div 2
    IN  IF left >= right THEN left
        ELSE IF passed(scan, mid, b) THEN search(scan, b, mid + 1, right) ELSE search(scan, b, left, mid)

\* The region of the slice (from 1) and the number of the frame in it block b creates.
findFrameLocation(b) ==
    LET r == search(kernel.scan, b, 0, slice.num) + 1
    IN  [region |-> slice.begin + r, local |-> b - before(kernel.scan, r),
         inRegion |-> kernel.scan[r] - before(kernel.scan, r)]

frameOf(b) == <<fills, slice.species, b, slice.begin>>

\* getEmptyNode and the atomicExch of pushBack: the frame is the last, nothing links to it.
ExchangeLast(b) ==
    LET r == findFrameLocation(b).region
    IN  /\ kernel.blocks[b].pc = "ready"
        /\ heap' = [f \in DOMAIN heap \cup {frameOf(b)} |->
                      IF f = frameOf(b) THEN [next |-> Null, ps |-> <<>>] ELSE heap[f]]
        /\ buf' = [buf EXCEPT ![slice.species].regions[r].last = frameOf(b)]
        /\ kernel' = [kernel EXCEPT !.blocks[b] = [pc |-> "link", old |-> buf[slice.species].regions[r].last]]
        /\ UNCHANGED <<setup, indices, slices, neigh, stage, step, fills>>

\* The particles of one frame: full, but for the last one of its region.
placed(b) ==
    LET loc == findFrameLocation(b)
        num == buf[slice.species].regions[loc.region].num
        n   == IF loc.local = loc.inRegion - 1 THEN getSizeLastFrame(num) ELSE FrameSize
    IN  [j \in 1 .. n |->
           [pos |-> recipe(loc.region)[loc.local * FrameSize + j].pos,
            vel |-> recipe(loc.region)[loc.local * FrameSize + j].vel,
            born |-> step, pushes |-> 0, rho |-> <<>>, dvdt |-> <<>>]]

linkTo(old, b) ==
    IF old = Null THEN heap ELSE [heap EXCEPT ![old].next = frameOf(b)]

\* The rest of pushBack, and the particles of the frame.
LinkFrame(b) ==
    LET r   == findFrameLocation(b).region
        old == kernel.blocks[b].old
    IN  /\ kernel.blocks[b].pc = "link"
        /\ heap' = [linkTo(old, b) EXCEPT ![frameOf(b)].ps = placed(b)]
        /\ buf' = IF old = Null THEN [buf EXCEPT ![slice.species].regions[r].first = frameOf(b)] ELSE buf
        /\ kernel' = [kernel EXCEPT !.blocks[b].pc = "done"]
        /\ UNCHANGED <<setup, indices, slices, neigh, stage, step, fills>>

\* syncWait returns for this slice.
EndSlice ==
    /\ stage = "init" /\ kernel.scan # <<>>
    /\ \A b \in DOMAIN kernel.blocks : kernel.blocks[b].pc = "done"
    /\ kernel' = [scan |-> <<>>, blocks |-> <<>>]
    /\ slices' = Tail(slices)
    /\ UNCHANGED <<setup, buf, heap, indices, neigh, stage, step, fills>>

\* ++topologyVersion after the slices of a species; the filling ends with the last species.
EndSpecies ==
    /\ stage = "init" /\ slices # <<>> /\ slice.num = 0
    /\ buf' = [buf EXCEPT ![slice.species].version = @ + 1]
    /\ slices' = Tail(slices)
    /\ stage' = IF slices' = <<>> THEN "idle" ELSE stage
    /\ UNCHANGED <<setup, heap, indices, kernel, neigh, step, fills>>

ResetAll ==
    /\ stage = "idle" /\ \E s \in DOMAIN indices : indices[s].hasBuild
    /\ indices' = [s \in DOMAIN indices |-> Unbuilt]
    /\ UNCHANGED <<setup, buf, heap, slices, kernel, neigh, stage, step, fills>>

-----------------------------------------------------------------------------
(* Refreshing the indices: one sender per species, all at once.            *)

Stages == <<"refresh", "push", "volumes", "neighbours", "write", "seed", "density", "zero", "hydro",
            "integrate", "idle">>

stageAfter(n) == Stages[n + 1]

following == stageAfter(CHOOSE n \in DOMAIN Stages : Stages[n] = stage)

\* The buffers of the step whose species are in roles.
selectBuffers(roles) == roles \cap DOMAIN buf

relevant == selectBuffers(Movable \cup {"Default"})

BeginStep ==
    /\ stage = "idle" /\ step < MaxSteps /\ "Default" \in DOMAIN buf
    /\ stage' = "refresh"
    /\ indices' = [s \in DOMAIN indices |->
                     IF s \in relevant THEN [indices[s] EXCEPT !.pc = "start"] ELSE indices[s]]
    /\ UNCHANGED <<setup, buf, heap, slices, kernel, neigh, step, fills>>

fresh_AnyBuffer(s) == indices[s].hasBuild /\ indices[s].version = buf[s].version

fresh(s) == indices[s].hasBuild /\ indices[s].buffer = buf[s].id /\ indices[s].version = buf[s].version

setIndex(s, index) ==
    /\ stage = "refresh"
    /\ indices' = [indices EXCEPT ![s] = index]
    /\ UNCHANGED <<setup, buf, heap, slices, kernel, neigh, stage, step, fills>>

StartRefresh_Silent(s) ==
    /\ indices[s].pc = "start" /\ ~fresh(s)
    /\ setIndex(s, [indices[s] EXCEPT !.pc = "count", !.target = buf[s].version])

\* RefreshSender::start: nothing to do, or the version and the region count are taken.
StartRefresh(s) ==
    /\ indices[s].pc = "start"
    /\ setIndex(s, IF fresh(s) THEN [indices[s] EXCEPT !.pc = "ready"]
                   ELSE [indices[s] EXCEPT !.pc = "count", !.target = buf[s].version])

\* CountFramesKernel and the download of the counts.
CountFrames(s) ==
    /\ indices[s].pc = "count"
    /\ setIndex(s, [indices[s] EXCEPT !.pc = "scan", !.scan = [r \in regionsOf(s) |-> Len(listOf(s, r))]])

RECURSIVE doubled(_, _)
doubled(capacity, needed) == IF capacity >= needed THEN capacity ELSE doubled(2 * capacity, needed)

\* ensureFrameCapacity: the arrays keep their contents unless they are replaced.
grown(index, needed) ==
    LET capacity == Len(index.ptrs)
    IN  IF capacity >= needed THEN index
        ELSE LET size == IF capacity = 0 THEN needed ELSE doubled(capacity, needed)
             IN  [index EXCEPT !.ptrs = [g \in 1 .. size |-> Null], !.owner = [g \in 1 .. size |-> 0]]

\* The host part of rebuildSender.
ScanFrames(s) ==
    LET scan == inclusiveScan(indices[s].scan)
        n    == IF scan = <<>> THEN 0 ELSE scan[Len(scan)]
    IN  /\ indices[s].pc = "scan"
        /\ setIndex(s, [grown(indices[s], IF n = 0 THEN 1 ELSE n) EXCEPT
                          !.pc = "fill", !.scan = scan, !.total = n])

\* First slot of region r.
offset(scan, r) == before(scan, r)

\* BuildFrameIndexKernel: one block per region stores the frames of its list.
FillIndex(s) ==
    LET index == indices[s]
        slot(r, i) == offset(index.scan, r) + i
        entries == UNION {{<<r, i>> : i \in DOMAIN listOf(s, r)} : r \in regionsOf(s)}
        source(g) == {e \in entries : slot(e[1], e[2]) = g}
    IN  /\ index.pc = "fill"
        /\ setIndex(s, [index EXCEPT !.pc = "publish",
             !.ptrs  = [g \in DOMAIN @ |-> IF source(g) = {} THEN @[g]
                          ELSE LET e == CHOOSE e \in source(g) : TRUE IN listOf(s, e[1])[e[2]]],
             !.owner = [g \in DOMAIN @ |-> IF source(g) = {} THEN @[g]
                          ELSE (CHOOSE e \in source(g) : TRUE)[1]]])

Publish(s) ==
    /\ indices[s].pc = "publish"
    /\ setIndex(s, [indices[s] EXCEPT !.pc = "ready", !.version = indices[s].target, !.buffer = buf[s].id,
                                      !.hasBuild = TRUE])

\* whenAll of the refreshes completes.
Refreshed ==
    /\ stage = "refresh" /\ \A s \in relevant : indices[s].pc = "ready"
    /\ stage' = following
    /\ UNCHANGED <<setup, buf, heap, indices, slices, kernel, neigh, step, fills>>

-----------------------------------------------------------------------------
(* The stages of a step, each started when the one before it has completed.*)

\* How many blocks of a launch over the indices of the species in ss process frame f.
visits(ss, f) == Cardinality(UNION {{<<s, g>> : g \in {h \in 1 .. indices[s].total : indices[s].ptrs[h] = f}} : s \in ss})

update(f, new) == [heap[f] EXCEPT !.ps = new]

advance(st, h) ==
    /\ stage = st /\ stage' = following /\ heap' = h
    /\ step' = IF stage' = "idle" THEN step + 1 ELSE step
    /\ UNCHANGED <<setup, indices, slices, kernel, fills>>

pushed(p, n) == [p EXCEPT !.pos = @ + n * p.vel, !.pushes = @ + n]

movers_Fluid == selectBuffers(Movable \cap Thermodynamic)

movers == selectBuffers(Movable)

\* PushVelocity on every movable species.
Push ==
    /\ advance("push", [f \in DOMAIN heap |->
         update(f, [j \in DOMAIN heap[f].ps |-> pushed(heap[f].ps[j], visits(movers, f))])])
    /\ UNCHANGED <<buf, neigh>>

minOf(S) == CHOOSE x \in S : \A y \in S : x <= y

maxOf(S) == CHOOSE x \in S : \A y \in S : x >= y

bounds(S) == IF S = {} THEN Empty ELSE <<minOf(S), maxOf(S)>>

\* UpdateVolumes of the default species.
UpdateVolumes ==
    /\ advance("volumes", heap)
    /\ buf' = [buf EXCEPT !["Default"].regions = [r \in DOMAIN @ |->
                 [@[r] EXCEPT !.vol = bounds({at(p).pos : p \in particlesOf("Default", r)})]]]
    /\ UNCHANGED neigh

expand(vol) == IF vol = Empty THEN vol ELSE <<vol[1] - Radius, vol[2] + Radius>>

intersects(a, b) == a # Empty /\ b # Empty /\ ~(a[1] > b[2] \/ a[2] < b[1])

\* Regions of source s whose bounds meet the search volume of region r.
found(s, r) ==
    {o \in regionsOf(s) : intersects(expand(buf["Default"].regions[r].vol), buf[s].regions[o].vol)}

\* The count kernels, one source each, and the host scans; offsets[r] is where the list of
\* region r begins.
CountNeighbours ==
    /\ advance("neighbours", heap)
    /\ neigh' = [s \in selectBuffers(Source) |->
                   LET scan == inclusiveScan([r \in regionsOf("Default") |-> Cardinality(found(s, r))])
                       n    == IF scan = <<>> THEN 0 ELSE scan[Len(scan)]
                   IN  [offsets |-> <<0>> \o scan, list |-> [i \in 1 .. n |-> 0]]]
    /\ UNCHANGED buf

Unwritten(s) ==
    {r \in regionsOf("Default") :
        \E i \in neigh[s].offsets[r] + 1 .. neigh[s].offsets[r + 1] : neigh[s].list[i] = 0}

\* A block of the write kernel: its threads append in any order.
WriteNeighbours(s, r) ==
    /\ stage = "write" /\ r \in Unwritten(s)
    /\ \E order \in SetToSeqs(found(s, r)) :
          neigh' = [neigh EXCEPT ![s].list = [i \in DOMAIN @ |->
                      IF i - neigh[s].offsets[r] \in DOMAIN order THEN order[i - neigh[s].offsets[r]] ELSE @[i]]]
    /\ UNCHANGED <<setup, buf, heap, indices, slices, kernel, stage, step, fills>>

Written ==
    /\ \A s \in DOMAIN neigh : Unwritten(s) = {}
    /\ advance("write", heap)
    /\ UNCHANGED <<buf, neigh>>

near(p, q) == (at(p).pos - at(q).pos) * (at(p).pos - at(q).pos) < Radius * Radius

\* The particles of each entry of region r's neighbour lists, and how often q is among them.
met(r) == UNION {{<<s, m, q>> : q \in particlesOf(s, neigh[s].list[m])} :
                   <<s, m>> \in UNION {{s} \X (neigh[s].offsets[r] + 1 .. neigh[s].offsets[r + 1]) : s \in DOMAIN neigh}}

meetings(r, q) == Cardinality({x \in met(r) : x[3] = q})

sources == UNION {UNION {particlesOf(s, o) : o \in regionsOf(s)} : s \in DOMAIN neigh}

isSelf(p, q) == p = q

\* FrameInteractionKernel: the pairs target particle p, owned by region r, accumulates.
pairs(p, r) == {q \in {x[3] : x \in met(r)} : near(p, q) /\ ~isSelf(p, q)}

regionIdx(f) == indices["Default"].owner[CHOOSE g \in 1 .. indices["Default"].total : indices["Default"].ptrs[g] = f]

overDefault(f) == visits({"Default"}, f) > 0

seeded(f) == [j \in DOMAIN heap[f].ps |-> [heap[f].ps[j] EXCEPT !.rho = [q \in {<<f, j>>} |-> 1]]]

\* DensityInitSelf
SeedDensity ==
    /\ advance("seed", [f \in DOMAIN heap |-> IF overDefault(f) THEN update(f, seeded(f)) ELSE heap[f]])
    /\ UNCHANGED <<buf, neigh>>

\* The accumulator of a pass resumes from what the particle has.
summed(f) ==
    [j \in DOMAIN heap[f].ps |->
        [heap[f].ps[j] EXCEPT !.rho = @ (+) [q \in pairs(<<f, j>>, regionIdx(f)) |-> meetings(regionIdx(f), q)]]]

\* AccumulateDensity
AccumulateDensity ==
    /\ advance("density", [f \in DOMAIN heap |-> IF overDefault(f) THEN update(f, summed(f)) ELSE heap[f]])
    /\ UNCHANGED <<buf, neigh>>

zeroed_Kept(f) == heap[f].ps

zeroed(f) == [j \in DOMAIN heap[f].ps |-> [heap[f].ps[j] EXCEPT !.dvdt = <<>>]]

ZeroDerivatives ==
    /\ advance("zero", [f \in DOMAIN heap |-> IF overDefault(f) THEN update(f, zeroed(f)) ELSE heap[f]])
    /\ UNCHANGED <<buf, neigh>>

\* The term neighbour q adds: prepare reads the own density, stage the neighbour's.
term(p, q) == [of |-> q, own |-> at(p).rho, other |-> at(q).rho]

accelerated(f) ==
    [j \in DOMAIN heap[f].ps |->
        LET ps == pairs(<<f, j>>, regionIdx(f))
        IN  [heap[f].ps[j] EXCEPT !.dvdt = @ (+) [t \in {term(<<f, j>>, q) : q \in ps} |-> meetings(regionIdx(f), t.of)]]]

HydroInteraction ==
    /\ advance("hydro", [f \in DOMAIN heap |-> IF overDefault(f) THEN update(f, accelerated(f)) ELSE heap[f]])
    /\ UNCHANGED <<buf, neigh>>

sign(x) == IF x > 0 THEN 1 ELSE IF x < 0 THEN -1 ELSE 0

\* EulerIntegrate: the pressure pushes a particle away from its neighbours, by one unit.
integrated(f) ==
    [j \in DOMAIN heap[f].ps |->
        LET p == heap[f].ps[j]
            force == sign(FoldSet(LAMBDA t, x : x + p.dvdt[t] * (p.pos - at(t.of).pos), 0, DOMAIN p.dvdt))
        IN  IF p.vel + force \in -MaxVelocity .. MaxVelocity THEN [p EXCEPT !.vel = @ + force] ELSE p]

EulerIntegrate ==
    /\ advance("integrate", [f \in DOMAIN heap |->
         IF visits(selectBuffers(Movable \cap Thermodynamic), f) > 0 THEN update(f, integrated(f)) ELSE heap[f]])
    /\ neigh' = <<>>
    /\ UNCHANGED buf

-----------------------------------------------------------------------------
Init ==
    /\ setup = <<>> /\ buf = <<>> /\ heap = <<>>
    /\ indices = [s \in ToSet(AllSpecies) |-> Unbuilt]
    /\ slices = <<>> /\ kernel = [scan |-> <<>>, blocks |-> <<>>]
    /\ neigh = <<>> /\ stage = "idle" /\ step = 0 /\ fills = 0

Next ==
    \/ \E su \in Setups, reset, replace \in BOOLEAN : ~(reset /\ replace) /\ Fill(su, reset, replace)
    \/ CountSlice \/ EndSlice \/ EndSpecies
    \/ \E b \in DOMAIN kernel.blocks : ExchangeLast(b) \/ LinkFrame(b)
    \/ ResetAll \/ BeginStep
    \/ \E s \in DOMAIN indices :
          StartRefresh(s) \/ CountFrames(s) \/ ScanFrames(s) \/ FillIndex(s) \/ Publish(s)
    \/ Refreshed \/ Push \/ UpdateVolumes \/ CountNeighbours
    \/ \E s \in DOMAIN neigh : \E r \in regionsOf("Default") : WriteNeighbours(s, r)
    \/ Written \/ SeedDensity \/ AccumulateDensity \/ ZeroDerivatives \/ HydroInteraction \/ EulerIntegrate

Spec == Init /\ [][Next]_vars

\* The host waits for each sender, the device runs every block it was given.
FairSpec == Spec /\ WF_vars(Next)

-----------------------------------------------------------------------------
\* Once filled, every region's list links exactly the frames its particles need, each once
\* and reached from first, and they hold as many live particles as the recipe asked for:
\* whatever order the blocks exchanged last and linked their frames in.
ListsComplete ==
    stage # "init" => \A s \in DOMAIN buf : \A r \in regionsOf(s) :
        LET region == buf[s].regions[r]
        IN  /\ Len(listOf(s, r)) = numFrames(region.num)
            /\ IsInjective(listOf(s, r))
            /\ Cardinality(particlesOf(s, r)) = region.num
            /\ region.last = (IF region.num = 0 THEN Null ELSE Last(listOf(s, r)))

\* While a step uses an index, its slots list the frames of the buffer's current lists
\* exactly once, region by region in list order, with the region each belongs to, and the
\* scan gives the slots of a region (FrameIndex.hpp, scanBox).
IndexExact ==
    stage \notin {"init", "idle", "refresh"} => \A s \in relevant :
        LET index == indices[s]
            lists == [r \in regionsOf(s) |-> listOf(s, r)]
        IN  /\ SubSeq(index.ptrs, 1, index.total) = FlattenSeq(lists)
            /\ \A g \in 1 .. index.total :
                  LET r == index.owner[g]
                  IN  lists[r][g - before(index.scan, r)] = index.ptrs[g]

\* Kernels that follow an index reach every frame of every list, and the lists hold every
\* particle.
ListsIndexed == ListsComplete /\ IndexExact

\* Between steps, every live particle of a movable species has been pushed exactly once in
\* each step since its creation, and a frozen one never.
MovedOncePerStep ==
    stage = "idle" => \A s \in DOMAIN buf : \A r \in regionsOf(s) : \A p \in particlesOf(s, r) :
        at(p).pushes = IF s \in Movable THEN step - at(p).born ELSE 0

\* Particles within the interaction radius of p, by position alone.
inReach(p) == {q \in sources : near(p, q)}

defaultParticles == UNION {particlesOf("Default", r) : r \in regionsOf("Default")}

\* When velocities are integrated every fluid particle has summed each source particle within the
\* radius exactly once, itself included, and none beyond it: no pair is lost to the region
\* bounds, the neighbour lists or the frame index.
DensityExact ==
    stage = "integrate" =>
        \A p \in defaultParticles : at(p).rho = [q \in inReach(p) |-> 1]

\* At the same point the acceleration of a fluid particle has one term for each other
\* particle in reach, each computed from the densities of this step, and none of an earlier one.
ForcesExact ==
    stage = "integrate" =>
        \A p \in defaultParticles : at(p).dvdt = [t \in {term(p, q) : q \in inReach(p) \ {p}} |-> 1]

\* Densities and forces are those of all particles in reach, from values of this step.
InteractionsExact == DensityExact /\ ForcesExact

\* Every filling and every time step comes to its end.
StepsEnd == stage # "idle" ~> stage = "idle"
==============================================================================
