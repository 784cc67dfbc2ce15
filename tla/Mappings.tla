------------------------------ MODULE Mappings ------------------------------
(***************************************************************************)
(* Block index to supercell index (mappings/kernel/), and the directions   *)
(* of the exchanges (memory/dataTypes/Mask.hpp,                            *)
(* dimensions/DataSpaceOperations.hpp, memory/buffers/Exchange.hpp).       *)
(*                                                                         *)
(* A DataSpace is a sequence of integers.  A mapping description m has     *)
(* m.grid, the supercells of the local domain with its guard, and m.guard, *)
(* the guarding supercells, in every dimension.                            *)
(***************************************************************************)
EXTENDS Integers, Sequences, FiniteSets

CORE        == "CORE"
BORDER      == "BORDER"
GUARD       == "GUARD"
CORE_BORDER == "CORE + BORDER"
ALL         == "CORE + BORDER + GUARD"

dims(v) == 1 .. Len(v)

plus(v, w)   == [d \in dims(v) |-> v[d] + w[d]]

minus(v, w)  == [d \in dims(v) |-> v[d] - w[d]]

times(k, v)  == [d \in dims(v) |-> k * v[d]]

same(v, k)   == [d \in dims(v) |-> k]

productOfComponents(v) ==
    LET upTo[d \in 0 .. Len(v)] == IF d = 0 THEN 1 ELSE upTo[d - 1] * v[d] IN upTo[Len(v)]

\* The DataSpaces with 0 <= component < bound, the blocks of a launch.
Blocks(bound) ==
    LET largest == CHOOSE n \in {bound[d] : d \in dims(bound)} : \A d \in dims(bound) : n >= bound[d]
    IN  {b \in [dims(bound) -> 0 .. largest - 1] : \A d \in dims(bound) : b[d] < bound[d]}

\* The first component varies fastest.
weight(extent, d) == productOfComponents(SubSeq(extent, 1, d - 1))

linearize(extent, v) ==
    LET upTo[d \in 0 .. Len(v)] == IF d = 0 THEN 0 ELSE upTo[d - 1] + v[d] * weight(extent, d)
    IN  upTo[Len(v)]

\* The last component takes what is left.
mapToND(extent, n) ==
    [d \in dims(extent) |->
        IF d = Len(extent) THEN n \div weight(extent, d)
                           ELSE (n \div weight(extent, d)) % extent[d]]

-----------------------------------------------------------------------------
(* Directions: digits to the base 3, one per dimension; 2 stands for -1.   *)

RIGHT  == 1
LEFT   == 2
BOTTOM == 3
TOP    == 6
BACK   == 9
FRONT  == 18

digit(ex, d) == (ex \div 3^(d - 1)) % 3

ExchangeTypes(dim) == 1 .. 3^dim - 1

getRelativeDirections(dim, ex) ==
    [d \in 1 .. dim |-> IF digit(ex, d) = 2 THEN -1 ELSE digit(ex, d)]

\* Mask(ex).containsExchangeType(axis), for one of the six axis directions.
contains(ex, axis) ==
    LET d == IF axis < 3 THEN 1 ELSE IF axis < 9 THEN 2 ELSE 3
    IN  digit(ex, d) = axis \div 3^(d - 1)

getMirroredExchangeType(ex) ==
      (IF contains(ex, RIGHT) THEN LEFT ELSE 0) + (IF contains(ex, LEFT) THEN RIGHT ELSE 0)
    + (IF contains(ex, BOTTOM) THEN TOP ELSE 0) + (IF contains(ex, TOP) THEN BOTTOM ELSE 0)
    + (IF contains(ex, FRONT) THEN BACK ELSE 0) + (IF contains(ex, BACK) THEN FRONT ELSE 0)

-----------------------------------------------------------------------------
(* AreaMappingMethods: the extent of the launch and the supercell of a     *)
(* block.  GUARD is unrolled into a line of blocks for either side.        *)

guardDim2(grid, g) == <<grid[1] * g[2] + (grid[2] - 2 * g[2]) * g[1], 2>>

guardIndex2(grid, g, b) ==
    LET xArea == grid[1] * g[2]
        rest  == b[1] - xArea
    IN  IF b[1] < xArea
        THEN <<b[1] % grid[1], b[1] \div grid[1] + b[2] * (grid[2] - g[2])>>
        ELSE <<(rest % g[1]) + b[2] * (grid[1] - g[1]), rest \div g[1] + g[2]>>

xyVolume(grid, g)  == grid[1] * grid[2] * g[3]

z_yVolume(grid, g) == (grid[3] - 2 * g[3]) * grid[2] * g[1]

guardDim3(grid, g) ==
    <<xyVolume(grid, g) + z_yVolume(grid, g) + (grid[3] - 2 * g[3]) * (grid[1] - 2 * g[1]) * g[2], 2, 1>>

guardIndex3(grid, g, b) ==
    LET x_   == grid[1] - 2 * g[1]
        z_   == grid[3] - 2 * g[3]
        side == b[1] - xyVolume(grid, g)
        rest == side - z_yVolume(grid, g)
    IN  IF side < 0
        THEN <<b[1] % grid[1], (b[1] \div grid[1]) % grid[2],
               b[1] \div (grid[1] * grid[2]) + b[2] * (grid[3] - g[3])>>
        ELSE IF rest < 0
        THEN <<side \div (z_ * grid[2]) + b[2] * (grid[1] - g[1]), side % grid[2],
               ((side \div grid[2]) % z_) + g[3]>>
        ELSE <<(rest % x_) + g[1], rest \div (x_ * z_) + b[2] * (grid[2] - g[2]),
               ((rest \div x_) % z_) + g[3]>>

guardDim(grid, g) == IF Len(grid) = 2 THEN guardDim2(grid, g) ELSE guardDim3(grid, g)

guardIndex(grid, g, b) == IF Len(grid) = 2 THEN guardIndex2(grid, g, b) ELSE guardIndex3(grid, g, b)

withoutGuard(m) == minus(m.grid, times(2, m.guard))

areaGridDim(area, m) ==
    CASE area = ALL         -> m.grid
      [] area = CORE        -> minus(m.grid, times(4, m.guard))
      [] area = CORE_BORDER -> withoutGuard(m)
      [] area = GUARD       -> guardDim(m.grid, m.guard)
      [] area = BORDER      -> guardDim(withoutGuard(m), m.guard)

areaIndex(area, m, b) ==
    CASE area = ALL         -> b
      [] area = CORE        -> plus(b, times(2, m.guard))
      [] area = CORE_BORDER -> plus(b, m.guard)
      [] area = GUARD       -> guardIndex(m.grid, m.guard, b)
      [] area = BORDER      -> plus(guardIndex(withoutGuard(m), m.guard, b), m.guard)

\* The supercells a launch over the area touches.
AreaCells(area, m) == {areaIndex(area, m, b) : b \in Blocks(areaGridDim(area, m))}

-----------------------------------------------------------------------------
(* StrideMapping and StrideIntervalMapping: one launch per offset.         *)

\* Mutant: the launch is rounded down.
strideGridDim_Floor(extent, stride, offset) ==
    [d \in dims(extent) |-> (extent[d] - offset[d]) \div stride]

strideGridDim(extent, stride, offset) ==
    [d \in dims(extent) |-> (extent[d] - offset[d] + stride - 1) \div stride]

\* StrideMappingMethods: the extent of the area, and its first supercell.
strideExtent(area, m) ==
    CASE area = ALL -> m.grid [] area = CORE -> minus(m.grid, times(4, m.guard)) [] OTHER -> minus(m.grid, times(2, m.guard))

strideShift(area, m) == CASE area = ALL -> same(m.grid, 0) [] area = CORE -> times(2, m.guard) [] OTHER -> m.guard

strideIndex(begin, stride, offset, b) == plus(plus(times(stride, b), offset), begin)

StrideCells(begin, extent, stride, offset) ==
    {strideIndex(begin, stride, offset, b) : b \in Blocks(strideGridDim(extent, stride, offset))}

\* next(): the first offset after this one whose launch is not empty, <<>> if there
\* is none.
next(extent, stride, offset) ==
    LET all      == same(extent, stride)
        launches == {k \in linearize(all, offset) + 1 .. productOfComponents(all) - 1 :
                       productOfComponents(strideGridDim(extent, stride, mapToND(all, k))) # 0}
    IN  IF launches = {} THEN <<>>
        ELSE mapToND(all, CHOOSE k \in launches : \A l \in launches : k <= l)

-----------------------------------------------------------------------------
(* ExchangeMappingMethods: the guard or border supercells of a direction.  *)

exchangeGridDim(area, m, ex) ==
    LET rest == IF area = GUARD THEN withoutGuard(m) ELSE minus(m.grid, times(4, m.guard))
    IN  [d \in dims(m.grid) |-> IF digit(ex, d) # 0 THEN m.guard[d] ELSE rest[d]]

exchangeIndex(area, m, ex, b) ==
    LET layers == IF area = GUARD THEN 1 ELSE 2
    IN  [d \in dims(b) |->
            b[d] + CASE digit(ex, d) = 0 -> layers * m.guard[d]
                     [] digit(ex, d) = 1 -> m.grid[d] - layers * m.guard[d]
                     [] OTHER            -> (layers - 1) * m.guard[d]]

ExchangeCells(area, m, ex) ==
    {exchangeIndex(area, m, ex, b) : b \in Blocks(exchangeGridDim(area, m, ex))}

\* getSuperCellIndex<T_origin>: an index relative to the first supercell of an area.
relativeTo(origin, m, c) ==
    CASE origin = CORE -> minus(c, times(2, m.guard)) [] origin = BORDER -> minus(c, m.guard) [] OTHER -> c

\* BorderMapping: like a BORDER exchange, but it keeps the corners.
borderGridDim(m, ex) ==
    [d \in dims(m.grid) |-> IF digit(ex, d) # 0 THEN m.guard[d] ELSE withoutGuard(m)[d]]

borderIndex(m, ex, b) ==
    [d \in dims(b) |-> b[d] + IF digit(ex, d) = 1 THEN m.grid[d] - 2 * m.guard[d] ELSE m.guard[d]]

\* RangeMapping::clampRange, then the supercells of the linear range; last = -1 is uint32_t(-1).
rangeBlocks(gridDim, first, last) ==
    LET size  == productOfComponents(gridDim)
        end   == IF last = -1 \/ last > size THEN size ELSE last
        begin == IF first > end THEN end ELSE first
    IN  {mapToND(gridDim, begin + n) : n \in 0 .. end - begin - 1}

-----------------------------------------------------------------------------
(* The supercell a particle of a guard supercell is sent to: the sender    *)
(* drops one component, the receiver restores it from its own direction.   *)

reduce(v, ex) ==
    IF Len(v) = 2
    THEN IF digit(ex, 1) # 0 THEN <<v[2]>> ELSE IF digit(ex, 2) # 0 THEN <<v[1]>> ELSE <<0>>
    ELSE IF digit(ex, 1) # 0 THEN <<v[2], v[3]>>
         ELSE IF digit(ex, 3) # 0 THEN <<v[1], v[2]>>
         ELSE IF digit(ex, 2) # 0 THEN <<v[1], v[3]>> ELSE <<0, 0>>

\* The component of the compressed index an untouched dimension reads.
entry(dim, ex, d) ==
    IF dim = 2 THEN 1 ELSE IF d = 1 THEN 1 ELSE IF d = 3 THEN 2 ELSE IF digit(ex, 1) # 0 THEN 1 ELSE 2

extend(v, ex, target, offset) ==
    [d \in dims(target) |->
        CASE digit(ex, d) = 1 -> target[d] - offset[d] - 1
          [] digit(ex, d) = 2 -> offset[d]
          [] OTHER            -> v[entry(Len(target), ex, d)]]

-----------------------------------------------------------------------------
(* Exchange: the box of cells a halo exchange sends or receives.           *)

exchangeSize(m, cells, ex) ==
    [d \in dims(m.grid) |-> IF digit(ex, d) # 0 THEN cells[d] ELSE withoutGuard(m)[d]]

exchangeOffset(area, m, cells, ex) ==
    [d \in dims(m.grid) |->
        IF digit(ex, d) = 1 THEN m.grid[d] - m.guard[d] - (IF area = GUARD THEN 0 ELSE cells[d])
        ELSE m.guard[d] - (IF area = GUARD /\ digit(ex, d) = 2 THEN cells[d] ELSE 0)]

ExchangeBox(area, m, cells, ex) ==
    {plus(exchangeOffset(area, m, cells, ex), b) : b \in Blocks(exchangeSize(m, cells, ex))}

-----------------------------------------------------------------------------
(* fields/operations: guard cells travel to the border cells of the        *)
(* neighbour, which adds them.  A supercell has edge^dim cells, an exchange*)
(* is width cells deep.                                                    *)

\* The cells of a launch over the guard in direction ex, relative to the first of them.
launchedCells(m, edge, ex) ==
    {plus(times(edge, b), i) : b \in Blocks(exchangeGridDim(GUARD, m, ex)), i \in Blocks(same(m.grid, edge))}

guardOrigin(m, edge, ex) == times(edge, exchangeIndex(GUARD, m, ex, same(m.grid, 0)))

\* Cells of the guard the exchange does not reach.
beyond(m, edge, width, d) == m.guard[d] * edge - width

\* KernelCopyGuardToExchange: <<cell of the field, cell of the exchange>>.
copyGuardToExchange(m, edge, width, ex) ==
    LET copied(c) == \A d \in dims(c) : /\ digit(ex, d) = 2 => c[d] >= beyond(m, edge, width, d)
                                        /\ digit(ex, d) = 1 => c[d] < width
    IN  {<<plus(guardOrigin(m, edge, ex), c),
           [d \in dims(c) |-> c[d] - IF digit(ex, d) = 2 THEN beyond(m, edge, width, d) ELSE 0]>> :
         c \in {k \in launchedCells(m, edge, ex) : copied(k)}}

\* KernelAddExchangeToBorder: <<cell of the exchange, cell of the field>>.
addExchangeToBorder(m, edge, width, ex) ==
    LET added(c) == \A d \in dims(c) : /\ digit(ex, d) = 1 => c[d] >= beyond(m, edge, width, d)
                                       /\ digit(ex, d) = 2 => c[d] < width
        shift(d) == CASE digit(ex, d) = 1 -> -(m.guard[d] * edge) [] digit(ex, d) = 2 -> m.guard[d] * edge
                      [] OTHER -> 0
    IN  {<<[d \in dims(c) |-> c[d] - IF digit(ex, d) = 1 THEN beyond(m, edge, width, d) ELSE 0],
           [d \in dims(c) |-> guardOrigin(m, edge, ex)[d] + c[d] + shift(d)]>> :
         c \in {k \in launchedCells(m, edge, ex) : added(k)}}
=============================================================================
