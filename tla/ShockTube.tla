------------------------------ MODULE ShockTube ------------------------------
(***************************************************************************)
(* The Sod shock tube's regions and the lattice its particles are placed   *)
(* on (share/spearhed/ValidationSetups/SodShockTube.hpp,                   *)
(* spmacc/particles/initialization/SC.hpp).                                *)
(*                                                                         *)
(* Lengths are integers.  A spacing is kept as its square, because the     *)
(* ratio of the two spacings in two dimensions is the root of eight.       *)
(***************************************************************************)
EXTENDS SplineKernels, FiniteSets

CONSTANTS
    Tubes,       \* tubes: dim, half (length of a side), across, h0 and dx (left spacing)
    Roundoff,    \* 1 / epsilon of the axis type
    MaxCells,    \* bound: cells along an axis of a quotient with rounding errors
    Boxes,       \* boxes particles are placed in by their number
    MaxPlaced    \* bound: particles placed that way

VARIABLE
    tube         \* the tube, a quotient of lengths or a box and a number of particles

-----------------------------------------------------------------------------
(* The simple cubic lattice.                                               *)

extents(vol) == [i \in DOMAIN vol.min |-> vol.max[i] - vol.min[i]]

largest(S) == CHOOSE x \in S : \A y \in S : y <= x

atLeastOne(n) == IF n = 0 THEN 1 ELSE n

\* value counts Roundoff units to the integer; just below an integer it becomes that integer.
truncateNearInteger(value) ==
    LET truncated_ == value \div Roundoff
        toNext     == (truncated_ + 1) * Roundoff - value
    IN  IF toNext * Roundoff <= 4 * largest({value, Roundoff}) THEN truncated_ + 1 ELSE truncated_

\* The n with n <= length / spacing < n + 1; the square of the spacing is s2.
rooted(length, s2) == CHOOSE n \in 0 .. length : n^2 * s2 <= length^2 /\ (n + 1)^2 * s2 > length^2

\* The first axis truncates, the others round to the nearest.
computeSCCellCounts(vol, s2) ==
    LET e == extents(vol)
    IN  [i \in DOMAIN e |->
           atLeastOne(IF i = 1 THEN truncateNearInteger(rooted(Roundoff * e[i], s2))
                      ELSE (rooted(2 * e[i], s2) + 1) \div 2)]

product(n, i) == LET upTo[j \in 0 .. Len(n)] == IF j = 0 THEN 1 ELSE upTo[j - 1] * n[j] IN upTo[i]

numSCLatticeSites(n) == product(n, Len(n))

\* Mixed-radix decomposition of a particle's number.
cellOf(g, n) == [i \in DOMAIN n |-> (g \div product(n, i - 1)) % n[i]]

\* The centre of the cell, axis i in units of 1 / (2 n[i]).
SC(vol, g, n) ==
    [i \in DOMAIN n |-> 2 * n[i] * vol.min[i] + (2 * cellOf(g, n)[i] + 1) * extents(vol)[i]]

\* The cells along the first axis for a number of particles, by the aspect ratio of the box:
\* the root, truncated.  Where it is an integer, pow may come out below it, but for the first
\* power.
computeSCNumCells(num, vol, below) ==
    LET e == extents(vol)
        power(n) == n^Len(e) * product(e, Len(e))
        root  == largest({n \in 0 .. num * e[1] : power(n) <= num * e[1]^Len(e)})
        short == below /\ Len(e) > 1 /\ power(root) = num * e[1]^Len(e)
    IN  atLeastOne(IF short THEN root - 1 ELSE root)

\* The cells of the other axes, derived from those of the first.
derivedCounts(vol, numCells) ==
    LET e == extents(vol)
    IN  [i \in DOMAIN e |-> IF i = 1 THEN numCells
                            ELSE atLeastOne((2 * numCells * e[i] + e[1]) \div (2 * e[1]))]

-----------------------------------------------------------------------------
(* The tube.                                                               *)

aabbFromArrays(lo, hi) == [min |-> lo, max |-> hi]

wallThickness(t) == 2 * t.h0

spacingLeft(t) == t.dx^2

\* The square of the ratio: 8, the root of 8, 2.
spacingRatio(t) == <<64, 8, 4>>[t.dim]

spacingRight(t) == spacingLeft(t) * spacingRatio(t)

transverseExtent(t) == t.across

\* The volumes of the tube in one, two and three dimensions.
Volumes1(t) ==
    LET H == t.half
        T == wallThickness(t)
    IN  [left |-> aabbFromArrays(<<-H>>, <<0>>), right |-> aabbFromArrays(<<0>>, <<H>>),
         fluid |-> aabbFromArrays(<<-H>>, <<H>>), full |-> aabbFromArrays(<<-H - T>>, <<H + T>>),
         walls |-> <<aabbFromArrays(<<-H - T>>, <<-H>>), aabbFromArrays(<<H>>, <<H + T>>)>>]

Volumes2(t) ==
    LET H == t.half
        T == wallThickness(t)
        L == transverseExtent(t)
    IN  [left |-> aabbFromArrays(<<-H, 0>>, <<0, L>>), right |-> aabbFromArrays(<<0, 0>>, <<H, L>>),
         fluid |-> aabbFromArrays(<<-H, 0>>, <<H, L>>), full |-> aabbFromArrays(<<-H - T, -T>>, <<H + T, L + T>>),
         walls |-> <<aabbFromArrays(<<-H - T, -T>>, <<-H, L + T>>), aabbFromArrays(<<H, -T>>, <<H + T, L + T>>),
                     aabbFromArrays(<<-H, -T>>, <<0, 0>>), aabbFromArrays(<<0, -T>>, <<H, 0>>),
                     aabbFromArrays(<<-H, L>>, <<0, L + T>>), aabbFromArrays(<<0, L>>, <<H, L + T>>)>>]

Volumes3(t) ==
    LET H == t.half
        T == wallThickness(t)
        L == transverseExtent(t)
    IN  [left |-> aabbFromArrays(<<-H, 0, 0>>, <<0, L, L>>), right |-> aabbFromArrays(<<0, 0, 0>>, <<H, L, L>>),
         fluid |-> aabbFromArrays(<<-H, 0, 0>>, <<H, L, L>>),
         full |-> aabbFromArrays(<<-H - T, -T, -T>>, <<H + T, L + T, L + T>>),
         walls |-> <<aabbFromArrays(<<-H - T, -T, -T>>, <<-H, L + T, L + T>>),
                     aabbFromArrays(<<H, -T, -T>>, <<H + T, L + T, L + T>>),
                     aabbFromArrays(<<-H, -T, -T>>, <<0, 0, L + T>>), aabbFromArrays(<<0, -T, -T>>, <<H, 0, L + T>>),
                     aabbFromArrays(<<-H, L, -T>>, <<0, L + T, L + T>>), aabbFromArrays(<<0, L, -T>>, <<H, L + T, L + T>>),
                     aabbFromArrays(<<-H, 0, -T>>, <<0, L, 0>>), aabbFromArrays(<<0, 0, -T>>, <<H, L, 0>>),
                     aabbFromArrays(<<-H, 0, L>>, <<0, L, L + T>>), aabbFromArrays(<<0, 0, L>>, <<H, L, L + T>>)>>]

volumes(t) == CASE t.dim = 1 -> Volumes1(t) [] t.dim = 2 -> Volumes2(t) [] t.dim = 3 -> Volumes3(t)

\* Densities in eighths, pressures in tenths.
InitialConditions == [densityLeft |-> 8, pressureLeft |-> 10, densityRight |-> 1, pressureRight |-> 1]

\* In units of an eighth.
particleMass(t) == InitialConditions.densityLeft * t.dx^t.dim

InteriorBlock(t) == <<volumes(t).left, volumes(t).right>>

BoundaryBlock(t) == volumes(t).walls

isLeft(vol) == vol.max[1] <= 0

spacingIn(t, vol) == IF isLeft(vol) THEN spacingLeft(t) ELSE spacingRight(t)

SpacingNumParticles(t, vol) == numSCLatticeSites(computeSCCellCounts(vol, spacingIn(t, vol)))

\* A particle at rest: density in eighths, internal energy a fraction.
SpacingPlaceParticle(t, vol, g) ==
    LET ic  == InitialConditions
        rho == IF isLeft(vol) THEN ic.densityLeft ELSE ic.densityRight
        P   == IF isLeft(vol) THEN ic.pressureLeft ELSE ic.pressureRight
    IN  [pos |-> SC(vol, g, computeSCCellCounts(vol, spacingIn(t, vol))),
         mass |-> particleMass(t), h |-> t.h0, density |-> rho,
         energy |-> times(frac(8 * P, 10 * rho), <<gammaMinus1[2], gammaMinus1[1]>>)]

-----------------------------------------------------------------------------
Quotients == {[about |-> "quotient", cells |-> k, error |-> e] :
                 k \in 1 .. MaxCells, e \in -3 * MaxCells .. 3 * MaxCells}

Placements == {[about |-> "placement", vol |-> b, num |-> n, below |-> l] :
                  b \in Boxes, n \in 1 .. MaxPlaced, l \in BOOLEAN}

TubeInit == tube \in {[about |-> "tube", t |-> t] : t \in Tubes} \cup Quotients \cup Placements

\* The unit cells of a box, by their lower corners.
inBox(c, vol) == \A i \in DOMAIN c : vol.min[i] <= c[i] /\ c[i] < vol.max[i]

cells(vol) ==
    LET lows  == {vol.min[i] : i \in DOMAIN vol.min}
        highs == {vol.max[i] : i \in DOMAIN vol.max}
    IN  {c \in [DOMAIN vol.min -> -largest({-x : x \in lows}) .. largest(highs)] : inBox(c, vol)}

regions(t) == InteriorBlock(t) \o BoundaryBlock(t)

\* The regions of the two blocks tile the domain: no two of them overlap, they leave no gap,
\* the fluid's are the fluid domain, and none straddles the contact, on whose side of which
\* a region's state depends.  The walls reach as far as a fluid particle's kernel.
RegionsTile ==
    tube.about = "tube" =>
        LET t == tube.t
            v == volumes(t)
            R == regions(t)
        IN  /\ \A c \in cells(v.full) :
                 /\ Cardinality({i \in DOMAIN R : inBox(c, R[i])}) = 1
                 /\ inBox(c, v.fluid) <=> \E i \in DOMAIN InteriorBlock(t) : inBox(c, InteriorBlock(t)[i])
            /\ \A i \in DOMAIN R, j \in 1 .. t.dim : v.full.min[j] <= R[i].min[j] /\ R[i].max[j] <= v.full.max[j]
            /\ \A i \in DOMAIN R : R[i].max[1] <= 0 \/ R[i].min[1] >= 0
            /\ \A i \in 1 .. t.dim : LET reach == supportRadius("cubic") * t.h0
                                     IN  /\ v.fluid.min[i] - reach >= v.full.min[i]
                                         /\ v.fluid.max[i] + reach <= v.full.max[i]

\* Every particle of a region gets a place of its own inside it.  All particles have one mass,
\* which on either side of the contact is the density times the volume of a cell, so that the
\* masses add up where the spacing divides the extents.  The equation of state gives back the
\* pressure a particle was placed with.
ParticlesPlaced ==
    tube.about = "tube" =>
        LET t == tube.t
        IN  \A i \in DOMAIN regions(t) :
              LET vol  == regions(t)[i]
                  s2   == spacingIn(t, vol)
                  num  == SpacingNumParticles(t, vol)
                  n    == computeSCCellCounts(vol, s2)
                  p(g) == SpacingPlaceParticle(t, vol, g)
                  size_ == product(extents(vol), t.dim)
              IN  /\ Cardinality({p(g).pos : g \in 0 .. num - 1}) = num
                  /\ \A g \in 0 .. num - 1, j \in 1 .. t.dim :
                       2 * n[j] * vol.min[j] < p(g).pos[j] /\ p(g).pos[j] < 2 * n[j] * vol.max[j]
                  /\ particleMass(t)^2 = p(0).density^2 * s2^t.dim
                  /\ (\A j \in 1 .. t.dim : n[j]^2 * s2 = extents(vol)[j]^2) =>
                       num * particleMass(t) = p(0).density * size_
                  /\ times(gammaMinus1, times(frac(p(0).density, 8), p(0).energy))
                       = IF isLeft(vol) THEN <<1, 1>> ELSE <<1, 10>>

\* A quotient that is an integer but for three roundings, of its operands and of the
\* division, is that integer, and no cell appears where a fraction of one is missing.
RoundoffForgiven ==
    tube.about = "quotient" =>
        LET value == tube.cells * Roundoff + tube.error
        IN  /\ magnitude(tube.error) <= 3 * tube.cells => truncateNearInteger(value) = tube.cells
            /\ truncateNearInteger(value - Roundoff \div 2) = tube.cells - 1

\* Placed by their number, particles stay in the box and share the sites evenly, also where the
\* root came out too small; in one dimension each has its own.
PlacedEvenly ==
    tube.about = "placement" =>
        LET vol   == tube.vol
            n     == derivedCounts(vol, computeSCNumCells(tube.num, vol, tube.below))
            sites == numSCLatticeSites(n)
            at_g(c) == {g \in 0 .. tube.num - 1 : cellOf(g, n) = c}
            used  == {cellOf(g, n) : g \in 0 .. tube.num - 1}
        IN  /\ \A g \in 0 .. tube.num - 1, j \in DOMAIN n :
                 2 * n[j] * vol.min[j] < SC(vol, g, n)[j] /\ SC(vol, g, n)[j] < 2 * n[j] * vol.max[j]
            /\ Cardinality(used) = IF tube.num < sites THEN tube.num ELSE sites
            /\ \A c \in used : Cardinality(at_g(c)) <= (tube.num + sites - 1) \div sites
            /\ Len(n) = 1 => sites = tube.num

TubeExact == RegionsTile /\ ParticlesPlaced /\ RoundoffForgiven /\ PlacedEvenly
=============================================================================
