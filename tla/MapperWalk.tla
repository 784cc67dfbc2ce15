----------------------------- MODULE MapperWalk -----------------------------
(***************************************************************************)
(* The host loop over a mapper: launch one block per index of getGridDim,  *)
(* and again while next() finds another offset                             *)
(* (particles/ParticlesBase.hpp, mappings/kernel/).                        *)
(***************************************************************************)
EXTENDS Mappings

CONSTANTS
    Descriptions,  \* mapping descriptions the constructor is called with
    Strides,       \* strides of the stride mappers
    Edge           \* cells of a supercell in every dimension

\* The code is built for two or three dimensions, and with exchanges, which need a guard.
ASSUME WalkConstants ==
    /\ \A desc \in Descriptions :
          /\ desc.grid \in Seq(Nat) /\ Len(desc.grid) \in {2, 3}
          /\ desc.guard \in Seq(Nat \ {0}) /\ Len(desc.guard) = Len(desc.grid)
    /\ Strides \subseteq Nat \ {0} /\ Edge \in Nat

VARIABLES
    m,        \* the description, NoDescription if the constructor threw
    mapper,   \* kind of mapper and its parameters
    offset,   \* StrideMapping::offset, <<>> once the loop has ended
    launch,   \* supercells of the last launch, one block each
    visits    \* how many blocks processed each supercell

walk == <<m, mapper, offset, launch, visits>>

\* PMACC_VERIFY in the constructor of MappingDescription.
accepts(desc) ==
    \A d \in dims(desc.grid) :
        \/ desc.guard[d] = 0 /\ desc.grid[d] >= 1
        \/ desc.grid[d] >= 2 * desc.guard[d] + 1

AreaMapping == [kind : {"area"}, area : {CORE, BORDER, GUARD, CORE_BORDER, ALL}]

ExchangeMapping(dim) == [kind : {"exchange"}, area : {GUARD, BORDER}, ex : ExchangeTypes(dim)]

BorderMapping(dim) == [kind : {"border"}, ex : ExchangeTypes(dim)]

\* A box of supercells the caller chose, guards included.
IntervalMapping(dim) == [kind : {"interval"}, first : {[d \in 1 .. dim |-> 1]}, num : {v \in [1 .. dim -> 1 .. 3] : v[1] # 2}]

StrideMapping == [kind : {"stride"}, area : {CORE, CORE_BORDER, ALL}, stride : Strides]

StrideIntervalMapping(dim) ==
    {[kind |-> "strideInterval", first |-> i.first, num |-> i.num, stride |-> k] : i \in IntervalMapping(dim), k \in Strides}

RangeMapping == [kind : {"range"}, area : {CORE_BORDER}, first : {0, 1, 3}, last : {-1, 2, 3}]

\* The strided mapper a factory wraps around the mapper of another factory.
StrideMapperFactory(dim) == StrideMapping \cup StrideIntervalMapping(dim)

Mappers(dim) ==
    AreaMapping \cup ExchangeMapping(dim) \cup BorderMapping(dim) \cup IntervalMapping(dim) \cup RangeMapping
        \cup StrideMapperFactory(dim)

WalkInit ==
    /\ m \in {desc \in Descriptions : accepts(desc)}
    /\ mapper \in Mappers(Len(m.grid))
    /\ offset = same(m.grid, 0) /\ launch = {}
    /\ visits = [c \in Blocks(m.grid) |-> 0]

strided == mapper.kind \in {"stride", "strideInterval"}

\* What a strided mapper walks over.
walked == IF mapper.kind = "stride" THEN strideExtent(mapper.area, m) ELSE mapper.num

\* The blocks of one launch, and the supercell each of them processes.
gridDim ==
    CASE mapper.kind \in {"area", "range"} -> areaGridDim(mapper.area, m)
      [] mapper.kind = "interval" -> mapper.num
      [] mapper.kind = "exchange" -> exchangeGridDim(mapper.area, m, mapper.ex)
      [] mapper.kind = "border"   -> borderGridDim(m, mapper.ex)
      [] strided                  -> strideGridDim(walked, mapper.stride, offset)

blocks ==
    IF mapper.kind = "range" THEN rangeBlocks(gridDim, mapper.first, mapper.last) ELSE Blocks(gridDim)

getSuperCellIndex(b) ==
    CASE mapper.kind \in {"area", "range"} -> areaIndex(mapper.area, m, b)
      [] mapper.kind = "interval" -> plus(mapper.first, b)
      [] mapper.kind = "stride"   -> strideIndex(strideShift(mapper.area, m), mapper.stride, offset, b)
      [] mapper.kind = "strideInterval" -> strideIndex(mapper.first, mapper.stride, offset, b)
      [] mapper.kind = "exchange" -> exchangeIndex(mapper.area, m, mapper.ex, b)
      [] mapper.kind = "border"   -> borderIndex(m, mapper.ex, b)

\* One launch and the call of next().
Launch ==
    /\ offset # <<>>
    /\ launch' = {getSuperCellIndex(b) : b \in blocks}
    /\ visits' = [c \in DOMAIN visits |->
                    visits[c] + Cardinality({b \in blocks : getSuperCellIndex(b) = c})]
    /\ offset' = IF strided THEN next(walked, mapper.stride, offset) ELSE <<>>
    /\ UNCHANGED <<m, mapper>>

WalkOver == offset = <<>> /\ UNCHANGED walk

WalkNext == Launch \/ WalkOver

WalkSpec == WalkInit /\ [][WalkNext]_walk

-----------------------------------------------------------------------------
(* The areas by coordinates.                                               *)

low(c, d, layers)  == c[d] < layers * m.guard[d]

high(c, d, layers) == c[d] >= m.grid[d] - layers * m.guard[d]

within(c, d, layers) == ~low(c, d, layers) /\ ~high(c, d, layers)

inArea(c, area) ==
    LET guard == \E d \in dims(c) : ~within(c, d, 1)
        core  == \A d \in dims(c) : within(c, d, 2)
    IN  CASE area = ALL -> TRUE [] area = GUARD -> guard [] area = CORE -> core
          [] area = CORE_BORDER -> ~guard [] area = BORDER -> ~guard /\ ~core

\* c lies on the side of the domain direction ex points to.
onSide(c, ex, layers) ==
    \A d \in dims(c) : /\ digit(ex, d) = 1 => high(c, d, layers)
                       /\ digit(ex, d) = 2 => low(c, d, layers)

expected(c) ==
    CASE mapper.kind \in {"area", "stride"} -> inArea(c, mapper.area)
      [] mapper.kind \in {"interval", "strideInterval"} ->
            \A d \in dims(c) : c[d] >= mapper.first[d] /\ c[d] < mapper.first[d] + mapper.num[d]
      [] mapper.kind = "exchange" ->
            LET layers == IF mapper.area = GUARD THEN 1 ELSE 2
            IN  /\ onSide(c, mapper.ex, layers)
                /\ layers = 2 => inArea(c, CORE_BORDER)
                /\ \A d \in dims(c) : digit(mapper.ex, d) = 0 => within(c, d, layers)
      [] mapper.kind = "border" -> inArea(c, CORE_BORDER) /\ onSide(c, mapper.ex, 2)
      [] mapper.kind = "range" ->
            LET n == linearize(withoutGuard(m), minus(c, m.guard))
            IN  /\ inArea(c, CORE_BORDER) /\ n >= mapper.first
                /\ mapper.last # -1 => n < mapper.last

\* The border layers of opposite sides are apart.
roomForBorder == \A d \in dims(m.grid) : m.grid[d] >= 4 * m.guard[d]

\* The border layer of one side stays out of the guard of the other, as it always does when
\* the guard is one supercell.
bordersOwned == \A d \in dims(m.grid) : m.grid[d] >= 3 * m.guard[d]

\* The constructor also accepts domains too narrow for two border layers.  Only the mappers
\* that tell the border from the core need more room than it asks for.
layersFit ==
    /\ mapper.kind \in {"area", "stride", "exchange"} /\ mapper.area \in {CORE, BORDER} => roomForBorder
    /\ mapper.kind = "border" => bordersOwned

\* Every supercell of the mapper's area is processed by exactly one block, over all
\* launches of the loop, and no other supercell is processed: the unrolled GUARD and
\* BORDER indices, the strides and their empty launches leave nothing out and run
\* nothing twice.  It holds in every accepted domain, except that the mappers of CORE and
\* BORDER need a domain with room for both border layers.
AreaVisitedOnce ==
    offset = <<>> /\ layersFit =>
        \A c \in DOMAIN visits : visits[c] = IF expected(c) THEN 1 ELSE 0

\* Two supercells of one launch of the stride mapper shiftParticles uses (stride at
\* least 3) have no common neighbour, so that no two blocks that run concurrently
\* change the same frame list.
LaunchesApart ==
    strided /\ mapper.stride >= 3 =>
        \A c, d \in launch : c # d => \E i \in dims(c) : c[i] - d[i] \notin -2 .. 2

\* Relative to its own area the supercells of CORE and of CORE + BORDER are counted from 0,
\* as fields without a guard are indexed.
OriginsFit ==
    mapper.kind = "area" /\ launch # {} =>
        LET seen(origin) == {relativeTo(origin, m, c) : c \in launch}
        IN  /\ mapper.area = CORE => seen(CORE) = Blocks(areaGridDim(CORE, m))
            /\ mapper.area = CORE_BORDER => seen(BORDER) = Blocks(withoutGuard(m))

\* A loop over a mapper whose layers fit the domain processes its area once, in launches
\* whose blocks keep apart.
LaunchesCover == AreaVisitedOnce /\ LaunchesApart /\ OriginsFit

\* A particle in a guard supercell in direction ex arrives in the border supercell of
\* the neighbour rank that covers the same place: the index the sender reduces and the
\* receiver extends from the mirrored direction is the sender's index, moved by the size
\* of the neighbour's domain (guard of one supercell; a deeper guard loses its layer).
GuardArrivesInBorder ==
    mapper.kind = "exchange" /\ mapper.area = GUARD /\ m.guard = same(m.guard, 1) =>
        LET ex    == mapper.ex
            moved == [d \in dims(m.grid) |-> getRelativeDirections(Len(m.grid), ex)[d] * withoutGuard(m)[d]]
        IN  \A c \in launch :
               extend(reduce(c, ex), getMirroredExchangeType(ex), m.grid, m.guard) = minus(c, moved)

\* The cells a rank sends in direction ex are the cells its neighbour receives from
\* the mirrored direction, in the neighbour's guard, and the boxes of two directions
\* never overlap there.  What is sent is the rank's own, no copy of another's cells, where
\* the border layers stay out of the guard.
HaloBoxesMatch ==
    mapper.kind = "exchange" /\ mapper.area = GUARD =>
        LET ex     == mapper.ex
            mirror == getMirroredExchangeType(ex)
            moved  == [d \in dims(m.grid) |-> getRelativeDirections(Len(m.grid), ex)[d] * withoutGuard(m)[d]]
            halo   == ExchangeBox(GUARD, m, m.guard, mirror)
        IN  /\ {minus(c, moved) : c \in ExchangeBox(BORDER, m, m.guard, ex)} = halo
            /\ \A c \in halo : inArea(c, GUARD)
            /\ bordersOwned => \A c \in ExchangeBox(BORDER, m, m.guard, ex) : inArea(c, CORE_BORDER)
            /\ \A other \in ExchangeTypes(Len(m.grid)) \ {mirror} :
                  ExchangeBox(GUARD, m, m.guard, other) \cap halo = {}

\* What a rank's field holds in its guard, as deep as the exchange, is added on the neighbour
\* to the border cells that cover the same place, each once, and the exchange's buffer is
\* filled completely in between.
GuardAddedOnce ==
    mapper.kind = "exchange" /\ mapper.area = GUARD =>
        \A width \in 1 .. Edge :
            LET ex    == mapper.ex
                moved == [d \in dims(m.grid) |->
                            getRelativeDirections(Len(m.grid), ex)[d] * withoutGuard(m)[d] * Edge]
                extent == [d \in dims(m.grid) |-> IF digit(ex, d) # 0 THEN width ELSE withoutGuard(m)[d] * Edge]
                sent  == copyGuardToExchange(m, Edge, width, ex)
                added == addExchangeToBorder(m, Edge, width, getMirroredExchangeType(ex))
                first(pairs)  == {pair[1] : pair \in pairs}
                second(pairs) == {pair[2] : pair \in pairs}
                target(x) == {pair[2] : pair \in {a \in added : a[1] = x}}
            IN  /\ second(sent) = Blocks(extent) /\ first(added) = Blocks(extent)
                /\ Cardinality(sent) = Cardinality(Blocks(extent)) /\ Cardinality(second(added)) = Cardinality(sent)
                /\ \A pair \in sent : target(pair[2]) = {minus(pair[1], moved)}

\* Both ends of an exchange mean the same supercells and the same cells.
ExchangeEndsMatch == GuardArrivesInBorder /\ HaloBoxesMatch /\ GuardAddedOnce

\* A loop over a mapper processes its area once where the area's layers fit the domain, and
\* both ends of an exchange agree on supercells and cells in every accepted domain.
MappersExact == LaunchesCover /\ ExchangeEndsMatch

\* MappingDescription.hpp: "each dimension needs at least one supercell for the core and
\* 2 * guardingSuperCells (one supercell for the border and one for the guard)".  In
\* every domain the constructor accepts, an area mapper processes each supercell of its
\* area once.
AcceptedVisitedOnce ==
    offset = <<>> /\ mapper.kind = "area" =>
        \A c \in DOMAIN visits : visits[c] = IF expected(c) THEN 1 ELSE 0
=============================================================================
