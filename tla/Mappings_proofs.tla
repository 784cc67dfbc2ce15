-------------------------- MODULE Mappings_proofs ---------------------------
(***************************************************************************)
(* MappersExact for every domain, guard and stride, in two and three       *)
(* dimensions: the loop over a mapper whose layers fit the domain          *)
(* processes every supercell of its area exactly once, in launches whose   *)
(* blocks keep apart, and both ends of an exchange mean the same           *)
(* supercells and cells.  TopologyAgrees for every grid of ranks: each     *)
(* place has one rank, neighbours are mutual.                              *)
(***************************************************************************)
EXTENDS MapperWalk, Topology, FiniteSetTheorems, WellFoundedInduction, TLAPS

-----------------------------------------------------------------------------
(* Vectors.                                                                *)

Vec(n) == [1 .. n -> Int]

\* The dimensions of the code.
Dim == {2, 3}

\* A vector is a sequence, its dimensions are its domain.
LEMMA VecDims ==
    ASSUME NEW n \in Nat, NEW v \in Vec(n)
    PROVE  v \in Seq(Int) /\ Len(v) = n /\ dims(v) = 1 .. n /\ \A d \in 1 .. n : v[d] \in Int
<1>1. v \in Seq(Int) /\ Len(v) = n
  BY DEF Vec
<1> QED BY <1>1 DEF Vec, dims

\* Vectors that agree in every component are the same.
LEMMA VecEqual ==
    ASSUME NEW n \in Nat, NEW v \in Vec(n), NEW w \in Vec(n), \A d \in 1 .. n : v[d] = w[d]
    PROVE  v = w
BY DEF Vec

\* A sum of vectors, by components.
LEMMA PlusVec ==
    ASSUME NEW n \in Nat, NEW v \in Vec(n), NEW w \in Vec(n)
    PROVE  plus(v, w) \in Vec(n) /\ \A d \in 1 .. n : plus(v, w)[d] = v[d] + w[d]
<1>1. dims(v) = 1 .. n /\ \A d \in 1 .. n : v[d] \in Int /\ w[d] \in Int
  BY VecDims
<1> QED BY <1>1 DEF plus, Vec

\* A difference, by components.
LEMMA MinusVec ==
    ASSUME NEW n \in Nat, NEW v \in Vec(n), NEW w \in Vec(n)
    PROVE  minus(v, w) \in Vec(n) /\ \A d \in 1 .. n : minus(v, w)[d] = v[d] - w[d]
<1>1. dims(v) = 1 .. n /\ \A d \in 1 .. n : v[d] \in Int /\ w[d] \in Int
  BY VecDims
<1> QED BY <1>1 DEF minus, Vec

\* A multiple, by components.
LEMMA TimesVec ==
    ASSUME NEW n \in Nat, NEW v \in Vec(n), NEW k \in Int
    PROVE  times(k, v) \in Vec(n) /\ \A d \in 1 .. n : times(k, v)[d] = k * v[d]
<1>1. dims(v) = 1 .. n /\ \A d \in 1 .. n : v[d] \in Int
  BY VecDims
<1> QED BY <1>1 DEF times, Vec

\* A vector of equal components, by components.
LEMMA SameVec ==
    ASSUME NEW n \in Nat, NEW v \in Vec(n), NEW k \in Int
    PROVE  same(v, k) \in Vec(n) /\ \A d \in 1 .. n : same(v, k)[d] = k
<1>1. dims(v) = 1 .. n /\ \A d \in 1 .. n : v[d] \in Int
  BY VecDims
<1> QED BY <1>1 DEF same, Vec

\* The blocks of a launch: every vector between 0 and the bound.
LEMMA BlocksAre ==
    ASSUME NEW n \in Dim, NEW bound \in Vec(n)
    PROVE  \A b : b \in Blocks(bound) <=>
              b \in Vec(n) /\ \A d \in 1 .. n : 0 <= b[d] /\ b[d] < bound[d]
<1> DEFINE S == {bound[d] : d \in dims(bound)}
           largest == CHOOSE k \in S : \A d \in dims(bound) : k >= bound[d]
<1>1. n \in Nat /\ dims(bound) = 1 .. n /\ \A d \in 1 .. n : bound[d] \in Int
  BY VecDims DEF Dim
<1>2. \E j \in 1 .. n : \A d \in 1 .. n : bound[j] >= bound[d]
  <2>1. CASE n = 2
    <3>1. 1 .. n = {1, 2}
      BY <2>1
    <3>2. PICK x \in Int, y \in Int : x = bound[1] /\ y = bound[2]
      BY <1>1, <3>1
    <3>3. x >= y \/ y >= x
      OBVIOUS
    <3> QED BY <3>1, <3>2, <3>3
  <2>2. CASE n = 3
    <3>1. 1 .. n = {1, 2, 3}
      BY <2>2
    <3>2. PICK x \in Int, y \in Int, z \in Int : x = bound[1] /\ y = bound[2] /\ z = bound[3]
      BY <1>1, <3>1
    <3>3. \/ x >= y /\ x >= z
          \/ y >= x /\ y >= z
          \/ z >= x /\ z >= y
      OBVIOUS
    <3> QED BY <3>1, <3>2, <3>3
  <2> QED BY <2>1, <2>2 DEF Dim
<1>3. largest \in S /\ \A d \in 1 .. n : largest >= bound[d]
  BY <1>1, <1>2
<1>4. largest \in Int
  BY <1>1, <1>3
<1>5. Blocks(bound) = {b \in [1 .. n -> 0 .. largest - 1] : \A d \in 1 .. n : b[d] < bound[d]}
  BY <1>1 DEF Blocks
<1> HIDE DEF largest
<1>6. ASSUME NEW b, b \in Vec(n), \A d \in 1 .. n : 0 <= b[d] /\ b[d] < bound[d]
      PROVE  b \in Blocks(bound)
  <2>1. ASSUME NEW d \in 1 .. n PROVE b[d] \in 0 .. largest - 1
    <3>1. b[d] \in Int /\ bound[d] \in Int /\ 0 <= b[d] /\ b[d] < bound[d] /\ bound[d] <= largest
      BY <1>1, <1>3, <1>4, <1>6 DEF Vec
    <3> QED BY <1>4, <3>1
  <2>2. b \in [1 .. n -> 0 .. largest - 1]
    BY <1>6, <2>1 DEF Vec
  <2> QED BY <1>5, <1>6, <2>2
<1>7. ASSUME NEW b, b \in Blocks(bound)
      PROVE  b \in Vec(n) /\ \A d \in 1 .. n : 0 <= b[d] /\ b[d] < bound[d]
  <2>1. b \in [1 .. n -> 0 .. largest - 1] /\ \A d \in 1 .. n : b[d] < bound[d]
    BY <1>5, <1>7
  <2> QED BY <1>4, <2>1 DEF Vec
<1> QED BY <1>6, <1>7

-----------------------------------------------------------------------------
(* Indices that meet every supercell of a set once.                        *)

\* The blocks B and their indices idx: each supercell of E is the index of one block.
Exact(B, idx, E) ==
    /\ \A c \in E : \E b \in B : idx[b] = c
    /\ \A a, b \in B : idx[a] = idx[b] => a = b
    /\ \A b \in B : idx[b] \in E

\* How many blocks a supercell has then.
LEMMA ExactCount ==
    ASSUME NEW B, NEW idx, NEW E, Exact(B, idx, E), NEW c
    PROVE  Cardinality({b \in B : idx[b] = c}) = IF c \in E THEN 1 ELSE 0
<1>1. CASE c \in E
  <2>1. PICK b \in B : idx[b] = c
    BY <1>1 DEF Exact
  <2>2. {x \in B : idx[x] = c} = {b}
    BY <2>1 DEF Exact
  <2>3. Cardinality({b}) = 1
    BY FS_Singleton
  <2> QED BY <1>1, <2>2, <2>3
<1>2. CASE c \notin E
  <2>1. {x \in B : idx[x] = c} = {}
    BY <1>2 DEF Exact
  <2>2. Cardinality({}) = 0
    BY FS_EmptySet
  <2> QED BY <1>2, <2>1, <2>2
<1> QED BY <1>1, <1>2

\* The supercells of a box.
Box(n, origin, extent) ==
    {c \in Vec(n) : \A d \in 1 .. n : origin[d] <= c[d] /\ c[d] < origin[d] + extent[d]}

\* Blocks that are moved by a fixed vector.
Moves(B, idx, n, origin) ==
    \A b \in B : idx[b] \in Vec(n) /\ \A d \in 1 .. n : idx[b][d] = b[d] + origin[d]

\* They meet a box.
LEMMA MovedExact ==
    ASSUME NEW n \in Dim, NEW extent \in Vec(n), NEW origin \in Vec(n), NEW idx,
           Moves(Blocks(extent), idx, n, origin)
    PROVE  Exact(Blocks(extent), idx, Box(n, origin, extent))
<1>1. n \in Nat
  BY DEF Dim
<1>2. \A d \in 1 .. n : origin[d] \in Int /\ extent[d] \in Int
  BY DEF Vec
<1>3. ASSUME NEW b \in Blocks(extent)
      PROVE  /\ b \in Vec(n) /\ \A d \in 1 .. n : b[d] \in Int /\ 0 <= b[d] /\ b[d] < extent[d]
             /\ idx[b] \in Vec(n) /\ \A d \in 1 .. n : idx[b][d] = b[d] + origin[d]
  <2>1. b \in Vec(n) /\ \A d \in 1 .. n : 0 <= b[d] /\ b[d] < extent[d]
    BY BlocksAre
  <2> QED BY <2>1 DEF Moves, Vec
<1>4. ASSUME NEW c \in Box(n, origin, extent)
      PROVE  \E b \in Blocks(extent) : idx[b] = c
  <2>1. c \in Vec(n) /\ \A d \in 1 .. n : origin[d] <= c[d] /\ c[d] < origin[d] + extent[d]
    BY DEF Box
  <2>2. \A d \in 1 .. n : c[d] \in Int
    BY <2>1 DEF Vec
  <2> DEFINE b == minus(c, origin)
  <2>3. b \in Vec(n) /\ \A d \in 1 .. n : b[d] = c[d] - origin[d]
    BY <1>1, <2>1, MinusVec
  <2> HIDE DEF b
  <2>4. \A d \in 1 .. n : 0 <= b[d] /\ b[d] < extent[d]
    BY <1>2, <2>1, <2>2, <2>3
  <2>5. b \in Blocks(extent)
    BY <2>3, <2>4, BlocksAre
  <2>6. \A d \in 1 .. n : idx[b][d] = c[d]
    BY <1>2, <1>3, <2>2, <2>3, <2>5
  <2>7. idx[b] = c
    BY <1>1, <1>3, <2>1, <2>5, <2>6, VecEqual
  <2> QED BY <2>5, <2>7
<1>5. ASSUME NEW a \in Blocks(extent), NEW b \in Blocks(extent), idx[a] = idx[b]
      PROVE  a = b
  <2>1. \A d \in 1 .. n : a[d] = b[d]
    BY <1>2, <1>3, <1>5
  <2> QED BY <1>1, <1>3, <2>1, VecEqual
<1>6. ASSUME NEW b \in Blocks(extent)
      PROVE  idx[b] \in Box(n, origin, extent)
  BY <1>2, <1>3 DEF Box
<1> QED BY <1>4, <1>5, <1>6 DEF Exact

-----------------------------------------------------------------------------
(* Descriptions and mappers.                                               *)

Dims == Len(m.grid)

\* What the loop starts with and keeps.
SetupInv ==
    /\ m \in Descriptions /\ accepts(m) /\ mapper \in Mappers(Dims)

\* An accepted domain has room for its guard.
LEMMA Accepted ==
    ASSUME SetupInv
    PROVE  /\ Dims \in Dim /\ Dims \in Nat /\ m.grid \in Vec(Dims) /\ m.guard \in Vec(Dims)
           /\ dims(m.grid) = 1 .. Dims
           /\ \A d \in 1 .. Dims : /\ m.grid[d] \in Nat /\ m.guard[d] \in Nat
                                   /\ m.guard[d] >= 1 /\ m.grid[d] >= 2 * m.guard[d] + 1
<1>1. m.grid \in Seq(Nat) /\ Dims \in {2, 3} /\ m.guard \in Seq(Nat \ {0}) /\ Len(m.guard) = Dims
  BY WalkConstants DEF SetupInv, Dims
<1>2. Dims \in Dim /\ Dims \in Nat /\ dims(m.grid) = 1 .. Dims
  BY <1>1 DEF Dim, Dims, dims
<1>3. m.grid \in [1 .. Dims -> Nat] /\ m.guard \in [1 .. Dims -> Nat \ {0}]
  BY <1>1 DEF Dims
<1>4. m.grid \in Vec(Dims) /\ m.guard \in Vec(Dims)
  BY <1>3 DEF Vec
<1>5. ASSUME NEW d \in 1 .. Dims
      PROVE  /\ m.grid[d] \in Nat /\ m.guard[d] \in Nat
             /\ m.guard[d] >= 1 /\ m.grid[d] >= 2 * m.guard[d] + 1
  <2>1. m.grid[d] \in Nat /\ m.guard[d] \in Nat \ {0}
    BY <1>3
  <2>2. m.grid[d] >= 2 * m.guard[d] + 1
    BY <1>2, <2>1 DEF SetupInv, accepts
  <2> QED BY <2>1, <2>2
<1> QED BY <1>2, <1>4, <1>5

\* Extents of the areas that are boxes.
LEMMA Extents ==
    ASSUME SetupInv
    PROVE  /\ withoutGuard(m) \in Vec(Dims)
           /\ \A d \in 1 .. Dims : withoutGuard(m)[d] = m.grid[d] - 2 * m.guard[d]
           /\ minus(m.grid, times(4, m.guard)) \in Vec(Dims)
           /\ \A d \in 1 .. Dims : minus(m.grid, times(4, m.guard))[d] = m.grid[d] - 4 * m.guard[d]
<1>1. Dims \in Nat /\ m.grid \in Vec(Dims) /\ m.guard \in Vec(Dims)
  BY Accepted
<1>2. times(2, m.guard) \in Vec(Dims) /\ \A d \in 1 .. Dims : times(2, m.guard)[d] = 2 * m.guard[d]
  BY <1>1, TimesVec
<1>3. times(4, m.guard) \in Vec(Dims) /\ \A d \in 1 .. Dims : times(4, m.guard)[d] = 4 * m.guard[d]
  BY <1>1, TimesVec
<1>4. /\ withoutGuard(m) \in Vec(Dims)
      /\ \A d \in 1 .. Dims : withoutGuard(m)[d] = m.grid[d] - times(2, m.guard)[d]
  BY <1>1, <1>2, MinusVec DEF withoutGuard
<1>5. /\ minus(m.grid, times(4, m.guard)) \in Vec(Dims)
      /\ \A d \in 1 .. Dims : minus(m.grid, times(4, m.guard))[d] = m.grid[d] - times(4, m.guard)[d]
  BY <1>1, <1>3, MinusVec
<1> QED BY <1>2, <1>3, <1>4, <1>5

-----------------------------------------------------------------------------
(* Mappers with one launch over a box.                                     *)

\* The index of every block of the launch.
Index == [b \in blocks |-> getSuperCellIndex(b)]

\* How many blocks of the launch process c.
Hits(c) == Cardinality({b \in blocks : getSuperCellIndex(b) = c})

CountOnce == \A c \in Blocks(m.grid) : Hits(c) = IF expected(c) THEN 1 ELSE 0

\* Indices that meet the expected supercells are what CountOnce asks for.
LEMMA CountFromExact ==
    ASSUME NEW E, Exact(blocks, Index, E), \A c \in Blocks(m.grid) : c \in E <=> expected(c)
    PROVE  CountOnce
<1>1. ASSUME NEW c \in Blocks(m.grid) PROVE Hits(c) = IF expected(c) THEN 1 ELSE 0
  <2>1. {b \in blocks : getSuperCellIndex(b) = c} = {b \in blocks : Index[b] = c}
    BY DEF Index
  <2>2. Hits(c) = IF c \in E THEN 1 ELSE 0
    BY <2>1, ExactCount DEF Hits
  <2> QED BY <2>2
<1> QED BY <1>1 DEF CountOnce

\* The supercells of the domain.
LEMMA Supercells ==
    ASSUME SetupInv, NEW c \in Blocks(m.grid)
    PROVE  /\ c \in Vec(Dims) /\ dims(c) = 1 .. Dims
           /\ \A d \in 1 .. Dims : c[d] \in Int /\ 0 <= c[d] /\ c[d] < m.grid[d]
<1>1. Dims \in Dim /\ Dims \in Nat /\ m.grid \in Vec(Dims)
  BY Accepted
<1>2. c \in Vec(Dims) /\ \A d \in 1 .. Dims : 0 <= c[d] /\ c[d] < m.grid[d]
  BY <1>1, BlocksAre
<1> QED BY <1>1, <1>2, VecDims

\* A mapper that moves its blocks by a fixed vector.
LEMMA MoverCounts ==
    ASSUME SetupInv, NEW extent \in Vec(Dims), NEW origin \in Vec(Dims), blocks = Blocks(extent),
           \A b \in blocks : getSuperCellIndex(b) \in Vec(Dims) /\
               \A d \in 1 .. Dims : getSuperCellIndex(b)[d] = b[d] + origin[d],
           \A c \in Blocks(m.grid) : expected(c) <=>
               \A d \in 1 .. Dims : origin[d] <= c[d] /\ c[d] < origin[d] + extent[d]
    PROVE  CountOnce
<1>1. Dims \in Dim
  BY Accepted
<1>2. Moves(Blocks(extent), Index, Dims, origin)
  BY DEF Moves, Index
<1>3. Exact(blocks, Index, Box(Dims, origin, extent))
  BY <1>1, <1>2, MovedExact
<1>4. \A c \in Blocks(m.grid) : c \in Box(Dims, origin, extent) <=> expected(c)
  BY Supercells DEF Box
<1> QED BY <1>3, <1>4, CountFromExact

\* Layers of the domain by coordinates.
LEMMA Layers ==
    ASSUME SetupInv, NEW c \in Blocks(m.grid), NEW d \in 1 .. Dims
    PROVE  /\ within(c, d, 1) <=> m.guard[d] <= c[d] /\ c[d] < m.grid[d] - m.guard[d]
           /\ within(c, d, 2) <=> 2 * m.guard[d] <= c[d] /\ c[d] < m.grid[d] - 2 * m.guard[d]
           /\ low(c, d, 1) <=> c[d] < m.guard[d]
           /\ low(c, d, 2) <=> c[d] < 2 * m.guard[d]
           /\ high(c, d, 1) <=> c[d] >= m.grid[d] - m.guard[d]
           /\ high(c, d, 2) <=> c[d] >= m.grid[d] - 2 * m.guard[d]
<1>1. PICK x \in Int, g \in Nat, G \in Nat : x = c[d] /\ g = m.guard[d] /\ G = m.grid[d]
  BY Supercells, Accepted
<1>2. 1 * g = g
  OBVIOUS
<1> QED BY <1>1, <1>2 DEF within, low, high

\* The areas CORE, CORE + BORDER and all.
LEMMA BoxAreasCount ==
    ASSUME SetupInv, mapper.kind = "area", mapper.area \in {CORE, CORE_BORDER, ALL}
    PROVE  CountOnce
<1>1. Dims \in Nat /\ m.grid \in Vec(Dims) /\ m.guard \in Vec(Dims) /\ Dims \in Dim
  BY Accepted
<1>2. \A d \in 1 .. Dims : m.grid[d] \in Nat /\ m.guard[d] \in Nat
  BY Accepted
<1>3. /\ withoutGuard(m) \in Vec(Dims)
      /\ \A d \in 1 .. Dims : withoutGuard(m)[d] = m.grid[d] - 2 * m.guard[d]
      /\ minus(m.grid, times(4, m.guard)) \in Vec(Dims)
      /\ \A d \in 1 .. Dims : minus(m.grid, times(4, m.guard))[d] = m.grid[d] - 4 * m.guard[d]
  BY Extents
<1>4. times(2, m.guard) \in Vec(Dims) /\ \A d \in 1 .. Dims : times(2, m.guard)[d] = 2 * m.guard[d]
  BY <1>1, TimesVec, SMTT(30)
<1>5. CASE mapper.area = ALL
  <2>1. blocks = Blocks(m.grid)
    BY <1>5 DEF blocks, gridDim, strided, areaGridDim, ALL, CORE, BORDER, GUARD, CORE_BORDER
  <2>2. \A b \in blocks : getSuperCellIndex(b) = b
    BY <1>5 DEF getSuperCellIndex, areaIndex, ALL, CORE, BORDER, GUARD, CORE_BORDER
  <2>3. same(m.grid, 0) \in Vec(Dims) /\ \A d \in 1 .. Dims : same(m.grid, 0)[d] = 0
    BY <1>1, SameVec
  <2>4. \A b \in blocks : getSuperCellIndex(b) \in Vec(Dims) /\
            \A d \in 1 .. Dims : getSuperCellIndex(b)[d] = b[d] + same(m.grid, 0)[d]
    BY <2>1, <2>2, <2>3, Supercells
  <2>5. \A c \in Blocks(m.grid) : expected(c)
    BY <1>5 DEF expected, inArea, ALL, CORE, BORDER, GUARD, CORE_BORDER
  <2>6. \A c \in Blocks(m.grid) : \A d \in 1 .. Dims :
            same(m.grid, 0)[d] <= c[d] /\ c[d] < same(m.grid, 0)[d] + m.grid[d]
    BY <1>2, <2>3, Supercells
  <2> QED BY <1>1, <2>1, <2>3, <2>4, <2>5, <2>6, MoverCounts
<1>6. CASE mapper.area = CORE
  <2> DEFINE extent == minus(m.grid, times(4, m.guard))
             origin == times(2, m.guard)
  <2>1. blocks = Blocks(extent)
    BY <1>6 DEF blocks, gridDim, strided, areaGridDim, ALL, CORE, BORDER, GUARD, CORE_BORDER
  <2>2. \A b \in blocks : getSuperCellIndex(b) = plus(b, origin)
    BY <1>6 DEF getSuperCellIndex, areaIndex, ALL, CORE, BORDER, GUARD, CORE_BORDER
  <2>3. \A b \in Blocks(extent) : b \in Vec(Dims)
    BY <1>1, <1>3, BlocksAre
  <2> HIDE DEF extent, origin
  <2>4. extent \in Vec(Dims) /\ origin \in Vec(Dims)
    BY <1>3, <1>4 DEF extent, origin
  <2>5. \A b \in blocks : getSuperCellIndex(b) \in Vec(Dims) /\
            \A d \in 1 .. Dims : getSuperCellIndex(b)[d] = b[d] + origin[d]
    BY <1>1, <2>1, <2>2, <2>3, <2>4, PlusVec
  <2>6. ASSUME NEW c \in Blocks(m.grid)
        PROVE  expected(c) <=> \A d \in 1 .. Dims : origin[d] <= c[d] /\ c[d] < origin[d] + extent[d]
    <3>1. dims(c) = 1 .. Dims
      BY Supercells
    <3>2. expected(c) <=> \A d \in 1 .. Dims : within(c, d, 2)
      BY <1>6, <3>1 DEF expected, inArea, ALL, CORE, BORDER, GUARD, CORE_BORDER
    <3>3. ASSUME NEW d \in 1 .. Dims
          PROVE  within(c, d, 2) <=> origin[d] <= c[d] /\ c[d] < origin[d] + extent[d]
      <4>1. PICK x \in Int, g \in Nat, G \in Nat : x = c[d] /\ g = m.guard[d] /\ G = m.grid[d]
        BY <1>2, Supercells
      <4>2. within(c, d, 2) <=> 2 * g <= x /\ x < G - 2 * g
        BY <4>1, Layers
      <4>3. origin[d] = 2 * g /\ extent[d] = G - 4 * g
        BY <1>3, <1>4, <4>1 DEF origin, extent
      <4> QED BY <4>1, <4>2, <4>3
    <3> QED BY <3>2, <3>3
  <2> QED BY <2>1, <2>4, <2>5, <2>6, MoverCounts
<1>7. CASE mapper.area = CORE_BORDER
  <2> DEFINE extent == withoutGuard(m)
             origin == m.guard
  <2>1. blocks = Blocks(extent)
    BY <1>7 DEF blocks, gridDim, strided, areaGridDim, ALL, CORE, BORDER, GUARD, CORE_BORDER
  <2>2. \A b \in blocks : getSuperCellIndex(b) = plus(b, origin)
    BY <1>7 DEF getSuperCellIndex, areaIndex, ALL, CORE, BORDER, GUARD, CORE_BORDER
  <2>3. \A b \in Blocks(extent) : b \in Vec(Dims)
    BY <1>1, <1>3, BlocksAre
  <2> HIDE DEF extent, origin
  <2>4. extent \in Vec(Dims) /\ origin \in Vec(Dims)
    BY <1>1, <1>3 DEF extent, origin
  <2>5. \A b \in blocks : getSuperCellIndex(b) \in Vec(Dims) /\
            \A d \in 1 .. Dims : getSuperCellIndex(b)[d] = b[d] + origin[d]
    BY <1>1, <2>1, <2>2, <2>3, <2>4, PlusVec
  <2>6. ASSUME NEW c \in Blocks(m.grid)
        PROVE  expected(c) <=> \A d \in 1 .. Dims : origin[d] <= c[d] /\ c[d] < origin[d] + extent[d]
    <3>1. dims(c) = 1 .. Dims
      BY Supercells
    <3>2. expected(c) <=> \A d \in 1 .. Dims : within(c, d, 1)
      BY <1>7, <3>1 DEF expected, inArea, ALL, CORE, BORDER, GUARD, CORE_BORDER
    <3>3. ASSUME NEW d \in 1 .. Dims
          PROVE  within(c, d, 1) <=> origin[d] <= c[d] /\ c[d] < origin[d] + extent[d]
      <4>1. PICK x \in Int, g \in Nat, G \in Nat : x = c[d] /\ g = m.guard[d] /\ G = m.grid[d]
        BY <1>2, Supercells
      <4>2. within(c, d, 1) <=> g <= x /\ x < G - g
        BY <4>1, Layers
      <4>3. origin[d] = g /\ extent[d] = G - 2 * g
        BY <1>3, <4>1 DEF origin, extent
      <4> QED BY <4>1, <4>2, <4>3
    <3> QED BY <3>2, <3>3
  <2> QED BY <2>1, <2>4, <2>5, <2>6, MoverCounts
<1> QED BY <1>5, <1>6, <1>7

\* The parameters of every kind of mapper.
LEMMA MapperFields ==
    ASSUME SetupInv
    PROVE  /\ mapper.kind \in {"area", "exchange", "border", "interval", "range", "stride", "strideInterval"}
           /\ mapper.kind = "area" => mapper.area \in {CORE, BORDER, GUARD, CORE_BORDER, ALL}
           /\ mapper.kind = "exchange" => mapper.area \in {GUARD, BORDER} /\ mapper.ex \in ExchangeTypes(Dims)
           /\ mapper.kind = "border" => mapper.ex \in ExchangeTypes(Dims)
           /\ mapper.kind \in {"interval", "strideInterval"} =>
                 mapper.first \in Vec(Dims) /\ mapper.num \in Vec(Dims)
           /\ mapper.kind = "range" => /\ mapper.area = CORE_BORDER /\ mapper.first \in Nat
                                       /\ mapper.last \in Int /\ mapper.last >= -1
           /\ mapper.kind = "stride" => mapper.area \in {CORE, CORE_BORDER, ALL}
           /\ strided => mapper.stride \in Nat \ {0}
<1>1. CASE mapper \in AreaMapping
  BY <1>1 DEF AreaMapping, strided
<1>2. CASE mapper \in ExchangeMapping(Dims)
  BY <1>2 DEF ExchangeMapping, strided
<1>3. CASE mapper \in BorderMapping(Dims)
  BY <1>3 DEF BorderMapping, strided
<1>4. ASSUME NEW i \in IntervalMapping(Dims)
      PROVE  i.kind = "interval" /\ i.first \in Vec(Dims) /\ i.num \in Vec(Dims)
  <2>1. i.kind = "interval" /\ i.first = [d \in 1 .. Dims |-> 1] /\ i.num \in [1 .. Dims -> 1 .. 3]
    BY <1>4 DEF IntervalMapping
  <2> QED BY <2>1 DEF Vec
<1>5. CASE mapper \in IntervalMapping(Dims)
  BY <1>4, <1>5 DEF strided
<1>6. CASE mapper \in RangeMapping
  BY <1>6 DEF RangeMapping, strided
<1>7. CASE mapper \in StrideMapping
  BY <1>7, WalkConstants DEF StrideMapping, strided
<1>8. CASE mapper \in StrideIntervalMapping(Dims)
  <2>1. PICK i \in IntervalMapping(Dims), k \in Strides :
            mapper = [kind |-> "strideInterval", first |-> i.first, num |-> i.num, stride |-> k]
    BY <1>8 DEF StrideIntervalMapping
  <2>2. /\ mapper.kind = "strideInterval" /\ mapper.first = i.first /\ mapper.num = i.num
        /\ mapper.stride = k
    BY <2>1
  <2> QED BY <1>4, <2>2, WalkConstants DEF strided
<1> QED BY <1>1, <1>2, <1>3, <1>5, <1>6, <1>7, <1>8 DEF SetupInv, Mappers, StrideMapperFactory

\* A box the caller chose.
LEMMA IntervalCounts ==
    ASSUME SetupInv, mapper.kind = "interval"
    PROVE  CountOnce
<1>1. mapper.first \in Vec(Dims) /\ mapper.num \in Vec(Dims)
  BY MapperFields
<1>2. Dims \in Nat /\ Dims \in Dim
  BY Accepted
<1>3. blocks = Blocks(mapper.num)
  BY DEF blocks, gridDim, strided
<1>4. \A b \in blocks : getSuperCellIndex(b) = plus(mapper.first, b)
  BY DEF getSuperCellIndex
<1>5. \A b \in blocks : b \in Vec(Dims)
  BY <1>1, <1>2, <1>3, BlocksAre
<1>6. ASSUME NEW b \in blocks
      PROVE  /\ getSuperCellIndex(b) \in Vec(Dims)
             /\ \A d \in 1 .. Dims : getSuperCellIndex(b)[d] = b[d] + mapper.first[d]
  <2>1. /\ getSuperCellIndex(b) \in Vec(Dims)
        /\ \A d \in 1 .. Dims : getSuperCellIndex(b)[d] = mapper.first[d] + b[d]
    BY <1>1, <1>2, <1>4, <1>5, PlusVec
  <2>2. \A d \in 1 .. Dims : b[d] \in Int /\ mapper.first[d] \in Int
    BY <1>1, <1>5 DEF Vec
  <2> QED BY <2>1, <2>2
<1>7. ASSUME NEW c \in Blocks(m.grid)
      PROVE  expected(c) <=> \A d \in 1 .. Dims : /\ mapper.first[d] <= c[d]
                                                  /\ c[d] < mapper.first[d] + mapper.num[d]
  <2>1. dims(c) = 1 .. Dims /\ \A d \in 1 .. Dims : c[d] \in Int /\ mapper.first[d] \in Int
    BY <1>1, Supercells DEF Vec
  <2>2. expected(c) <=> \A d \in 1 .. Dims : /\ c[d] >= mapper.first[d]
                                             /\ c[d] < mapper.first[d] + mapper.num[d]
    BY <2>1 DEF expected
  <2> QED BY <2>1, <2>2
<1> QED BY <1>1, <1>3, <1>6, <1>7, MoverCounts

-----------------------------------------------------------------------------
(* Directions.                                                             *)

\* The powers of three the code counts in.
LEMMA Powers == 3^(1 - 1) = 1 /\ 3^(2 - 1) = 3 /\ 3^(3 - 1) = 9 /\ 3^2 = 9 /\ 3^3 = 27
OBVIOUS

\* A digit of a direction.
LEMMA DigitRange ==
    ASSUME NEW ex \in Nat, NEW d \in 1 .. 3
    PROVE  digit(ex, d) \in {0, 1, 2}
<1>1. d = 1 \/ d = 2 \/ d = 3
  OBVIOUS
<1>2. ex \div 1 \in Nat /\ ex \div 3 \in Nat /\ ex \div 9 \in Nat
  OBVIOUS
<1>3. \A k \in Nat : k % 3 \in {0, 1, 2}
  OBVIOUS
<1> QED BY <1>1, <1>2, <1>3, Powers DEF digit

\* The directions of the exchanges.
LEMMA Directions ==
    ASSUME NEW n \in Dim, NEW ex \in ExchangeTypes(n)
    PROVE  /\ ex \in Nat /\ ex # 0 /\ \A d \in 1 .. n : digit(ex, d) \in {0, 1, 2}
           /\ n = 2 => ex <= 8
           /\ n = 3 => ex <= 26
<1>1. ex \in Nat /\ ex # 0 /\ (n = 2 => ex <= 8) /\ (n = 3 => ex <= 26)
  <2>1. CASE n = 2
    <3>1. ex \in 1 .. 3^2 - 1
      BY <2>1 DEF ExchangeTypes
    <3>2. ex \in 1 .. 8
      BY <3>1, Powers
    <3> QED BY <2>1, <3>2
  <2>2. CASE n = 3
    <3>1. ex \in 1 .. 3^3 - 1
      BY <2>2 DEF ExchangeTypes
    <3>2. ex \in 1 .. 26
      BY <3>1, Powers
    <3> QED BY <2>2, <3>2
  <2> QED BY <2>1, <2>2 DEF Dim
<1>2. \A d \in 1 .. n : d \in 1 .. 3
  BY DEF Dim
<1> QED BY <1>1, <1>2, DigitRange

\* The guard or border of a direction.
LEMMA ExchangeCounts ==
    ASSUME SetupInv, layersFit, mapper.kind = "exchange"
    PROVE  CountOnce
<1>1. mapper.area \in {GUARD, BORDER} /\ mapper.ex \in ExchangeTypes(Dims)
  BY MapperFields
<1>2. Dims \in Nat /\ Dims \in Dim /\ dims(m.grid) = 1 .. Dims
  BY Accepted
<1>3. \A d \in 1 .. Dims : digit(mapper.ex, d) \in {0, 1, 2}
  BY <1>1, <1>2, Directions
<1> DEFINE layers == IF mapper.area = GUARD THEN 1 ELSE 2
           extent == exchangeGridDim(mapper.area, m, mapper.ex)
           shift(d) == CASE digit(mapper.ex, d) = 0 -> layers * m.guard[d]
                         [] digit(mapper.ex, d) = 1 -> m.grid[d] - layers * m.guard[d]
                         [] OTHER -> (layers - 1) * m.guard[d]
           origin == [d \in 1 .. Dims |-> shift(d)]
<1>4. \A d \in 1 .. Dims : m.grid[d] \in Nat /\ m.guard[d] \in Nat
  BY Accepted
<1>5. /\ extent \in Vec(Dims)
      /\ \A d \in 1 .. Dims : extent[d] = IF digit(mapper.ex, d) # 0 THEN m.guard[d]
                                          ELSE m.grid[d] - 2 * layers * m.guard[d]
  <2>1. /\ withoutGuard(m) \in Vec(Dims)
        /\ \A d \in 1 .. Dims : withoutGuard(m)[d] = m.grid[d] - 2 * m.guard[d]
        /\ minus(m.grid, times(4, m.guard)) \in Vec(Dims)
        /\ \A d \in 1 .. Dims : minus(m.grid, times(4, m.guard))[d] = m.grid[d] - 4 * m.guard[d]
    BY Extents
  <2> DEFINE rest == IF mapper.area = GUARD THEN withoutGuard(m) ELSE minus(m.grid, times(4, m.guard))
  <2>2. rest \in Vec(Dims) /\ \A d \in 1 .. Dims : rest[d] = m.grid[d] - 2 * layers * m.guard[d]
    <3>1. CASE mapper.area = GUARD
      <4>1. \A d \in 1 .. Dims : m.grid[d] - 2 * layers * m.guard[d] = m.grid[d] - 2 * m.guard[d]
        BY <1>4, <3>1
      <4> QED BY <2>1, <3>1, <4>1
    <3>2. CASE mapper.area # GUARD
      <4>1. \A d \in 1 .. Dims : m.grid[d] - 2 * layers * m.guard[d] = m.grid[d] - 4 * m.guard[d]
        BY <1>4, <3>2
      <4> QED BY <2>1, <3>2, <4>1
    <3> QED BY <3>1, <3>2
  <2>3. extent = [d \in 1 .. Dims |-> IF digit(mapper.ex, d) # 0 THEN m.guard[d] ELSE rest[d]]
    BY <1>2 DEF exchangeGridDim
  <2> HIDE DEF rest, layers
  <2>4. \A d \in 1 .. Dims : rest[d] \in Int
    BY <2>2 DEF Vec
  <2> QED BY <1>4, <2>2, <2>3, <2>4 DEF Vec
<1>6. /\ origin \in Vec(Dims)
      /\ \A d \in 1 .. Dims :
            /\ digit(mapper.ex, d) = 0 => origin[d] = layers * m.guard[d]
            /\ digit(mapper.ex, d) = 1 => origin[d] = m.grid[d] - layers * m.guard[d]
            /\ digit(mapper.ex, d) = 2 => origin[d] = (layers - 1) * m.guard[d]
  <2>1. layers \in {1, 2}
    OBVIOUS
  <2> HIDE DEF layers
  <2>2. ASSUME NEW d \in 1 .. Dims
        PROVE  /\ shift(d) \in Int
               /\ digit(mapper.ex, d) = 0 => shift(d) = layers * m.guard[d]
               /\ digit(mapper.ex, d) = 1 => shift(d) = m.grid[d] - layers * m.guard[d]
               /\ digit(mapper.ex, d) = 2 => shift(d) = (layers - 1) * m.guard[d]
    BY <1>3, <1>4, <2>1, <2>2
  <2> HIDE DEF shift
  <2> QED BY <2>2 DEF Vec
<1>7. blocks = Blocks(extent)
  BY DEF blocks, gridDim, strided
<1>8. ASSUME NEW b \in blocks
      PROVE  /\ getSuperCellIndex(b) \in Vec(Dims)
             /\ \A d \in 1 .. Dims : getSuperCellIndex(b)[d] = b[d] + origin[d]
  <2> HIDE DEF extent
  <2>1. b \in Vec(Dims) /\ dims(b) = 1 .. Dims /\ \A d \in 1 .. Dims : b[d] \in Int
    <3>1. b \in Vec(Dims)
      BY <1>2, <1>5, <1>7, BlocksAre
    <3> QED BY <1>2, <3>1, VecDims
  <2>2. getSuperCellIndex(b) = [d \in 1 .. Dims |-> b[d] + shift(d)]
    BY <2>1 DEF getSuperCellIndex, exchangeIndex
  <2> HIDE DEF shift
  <2>3. \A d \in 1 .. Dims : shift(d) \in Int /\ origin[d] = shift(d)
    BY <1>6 DEF Vec
  <2> QED BY <2>1, <2>2, <2>3 DEF Vec
<1>9. ASSUME NEW c \in Blocks(m.grid)
      PROVE  expected(c) <=> \A d \in 1 .. Dims : origin[d] <= c[d] /\ c[d] < origin[d] + extent[d]
  <2> HIDE DEF extent, origin
  <2>1. dims(c) = 1 .. Dims
    BY Supercells
  <2> DEFINE Side(d) == /\ digit(mapper.ex, d) = 1 => high(c, d, layers)
                        /\ digit(mapper.ex, d) = 2 => low(c, d, layers)
                        /\ digit(mapper.ex, d) = 0 => within(c, d, layers)
                        /\ layers = 2 => within(c, d, 1)
  <2>2. expected(c) <=> \A d \in 1 .. Dims : Side(d)
    BY <2>1 DEF expected, onSide, inArea, ALL, CORE, BORDER, GUARD, CORE_BORDER
  <2>3. ASSUME NEW d \in 1 .. Dims
        PROVE  Side(d) <=> origin[d] <= c[d] /\ c[d] < origin[d] + extent[d]
    <3>1. PICK x \in Int, g \in Nat, G \in Nat : x = c[d] /\ g = m.guard[d] /\ G = m.grid[d]
      BY <1>4, Supercells
    <3>2. 0 <= x /\ x < G
      BY <3>1, Supercells
    <3>3. /\ within(c, d, 1) <=> g <= x /\ x < G - g
          /\ within(c, d, 2) <=> 2 * g <= x /\ x < G - 2 * g
          /\ low(c, d, 1) <=> x < g
          /\ low(c, d, 2) <=> x < 2 * g
          /\ high(c, d, 1) <=> x >= G - g
          /\ high(c, d, 2) <=> x >= G - 2 * g
      BY <3>1, Layers
    <3>4. PICK o \in Int, e \in Int : o = origin[d] /\ e = extent[d]
      BY <1>5, <1>6 DEF Vec
    <3>5. PICK k \in {0, 1, 2} : k = digit(mapper.ex, d)
      BY <1>3
    <3>6. G >= 2 * g + 1 /\ (layers = 2 => G >= 4 * g)
      <4>1. G >= 2 * g + 1
        BY <3>1, Accepted
      <4>2. ASSUME layers = 2 PROVE G >= 4 * g
        <5>1. mapper.area = BORDER
          BY <1>1, <4>2
        <5> QED BY <1>2, <3>1, <5>1 DEF layersFit, roomForBorder
      <4> QED BY <4>1, <4>2
    <3>7. CASE layers = 1
      <4>1. /\ e = IF k # 0 THEN g ELSE G - 2 * g
            /\ k = 0 => o = g
            /\ k = 1 => o = G - g
            /\ k = 2 => o = 0
        <5>1. 2 * layers * g = 2 * g /\ layers * g = g /\ (layers - 1) * g = 0
          BY <3>7
        <5> QED BY <1>5, <1>6, <3>1, <3>4, <3>5, <5>1
      <4>2. Side(d) <=> /\ k = 1 => x >= G - g
                        /\ k = 2 => x < g
                        /\ k = 0 => g <= x /\ x < G - g
        BY <3>3, <3>5, <3>7
      <4>3. Side(d) <=> o <= x /\ x < o + e
        BY <3>2, <4>1, <4>2
      <4> QED BY <3>1, <3>4, <4>3
    <3>8. CASE layers = 2
      <4>1. /\ e = IF k # 0 THEN g ELSE G - 4 * g
            /\ k = 0 => o = 2 * g
            /\ k = 1 => o = G - 2 * g
            /\ k = 2 => o = g
        <5>1. 2 * layers * g = 4 * g /\ layers * g = 2 * g /\ (layers - 1) * g = g
          BY <3>8
        <5> QED BY <1>5, <1>6, <3>1, <3>4, <3>5, <5>1
      <4>2. Side(d) <=> /\ k = 1 => x >= G - 2 * g
                        /\ k = 2 => x < 2 * g
                        /\ k = 0 => 2 * g <= x /\ x < G - 2 * g
                        /\ g <= x /\ x < G - g
        BY <3>3, <3>5, <3>8
      <4>3. Side(d) <=> o <= x /\ x < o + e
        BY <3>2, <3>6, <3>8, <4>1, <4>2
      <4> QED BY <3>1, <3>4, <4>3
    <3> QED BY <3>7, <3>8
  <2> HIDE DEF Side
  <2> QED BY <2>2, <2>3
<1> HIDE DEF extent, origin
<1> QED BY <1>5, <1>6, <1>7, <1>8, <1>9, MoverCounts

\* The border of a direction with its corners.
LEMMA BorderCounts ==
    ASSUME SetupInv, layersFit, mapper.kind = "border"
    PROVE  CountOnce
<1>1. mapper.ex \in ExchangeTypes(Dims)
  BY MapperFields
<1>2. Dims \in Nat /\ Dims \in Dim /\ dims(m.grid) = 1 .. Dims
  BY Accepted
<1>3. \A d \in 1 .. Dims : digit(mapper.ex, d) \in {0, 1, 2}
  BY <1>1, <1>2, Directions
<1> DEFINE extent == borderGridDim(m, mapper.ex)
           shift(d) == IF digit(mapper.ex, d) = 1 THEN m.grid[d] - 2 * m.guard[d] ELSE m.guard[d]
           origin == [d \in 1 .. Dims |-> shift(d)]
<1>4. \A d \in 1 .. Dims : m.grid[d] \in Nat /\ m.guard[d] \in Nat
  BY Accepted
<1>5. /\ extent \in Vec(Dims)
      /\ \A d \in 1 .. Dims : extent[d] = IF digit(mapper.ex, d) # 0 THEN m.guard[d]
                                          ELSE m.grid[d] - 2 * m.guard[d]
  <2>1. \A d \in 1 .. Dims : withoutGuard(m)[d] = m.grid[d] - 2 * m.guard[d]
    BY Extents
  <2>2. extent = [d \in 1 .. Dims |-> IF digit(mapper.ex, d) # 0 THEN m.guard[d] ELSE withoutGuard(m)[d]]
    BY <1>2 DEF borderGridDim
  <2>3. \A d \in 1 .. Dims : withoutGuard(m)[d] \in Int
    BY <1>4, <2>1
  <2> QED BY <1>4, <2>1, <2>2, <2>3 DEF Vec
<1>6. origin \in Vec(Dims) /\ \A d \in 1 .. Dims : origin[d] = shift(d) /\ shift(d) \in Int
  BY <1>4 DEF Vec
<1>7. blocks = Blocks(extent)
  BY DEF blocks, gridDim, strided
<1>8. ASSUME NEW b \in blocks
      PROVE  /\ getSuperCellIndex(b) \in Vec(Dims)
             /\ \A d \in 1 .. Dims : getSuperCellIndex(b)[d] = b[d] + origin[d]
  <2> HIDE DEF extent
  <2>1. b \in Vec(Dims) /\ dims(b) = 1 .. Dims /\ \A d \in 1 .. Dims : b[d] \in Int
    <3>1. b \in Vec(Dims)
      BY <1>2, <1>5, <1>7, BlocksAre
    <3> QED BY <1>2, <3>1, VecDims
  <2>2. getSuperCellIndex(b) = [d \in 1 .. Dims |-> b[d] + shift(d)]
    BY <2>1 DEF getSuperCellIndex, borderIndex
  <2> HIDE DEF shift, origin
  <2> QED BY <1>6, <2>1, <2>2 DEF Vec
<1>9. ASSUME NEW c \in Blocks(m.grid)
      PROVE  expected(c) <=> \A d \in 1 .. Dims : origin[d] <= c[d] /\ c[d] < origin[d] + extent[d]
  <2>1. dims(c) = 1 .. Dims
    BY Supercells
  <2> DEFINE Side(d) == /\ digit(mapper.ex, d) = 1 => high(c, d, 2)
                        /\ digit(mapper.ex, d) = 2 => low(c, d, 2)
                        /\ within(c, d, 1)
  <2>2. expected(c) <=> \A d \in 1 .. Dims : Side(d)
    BY <2>1 DEF expected, onSide, inArea, ALL, CORE, BORDER, GUARD, CORE_BORDER
  <2>3. ASSUME NEW d \in 1 .. Dims
        PROVE  Side(d) <=> origin[d] <= c[d] /\ c[d] < origin[d] + extent[d]
    <3>1. PICK x \in Int, g \in Nat, G \in Nat : x = c[d] /\ g = m.guard[d] /\ G = m.grid[d]
      BY <1>4, Supercells
    <3>2. PICK k \in {0, 1, 2} : k = digit(mapper.ex, d)
      BY <1>3
    <3>3. PICK o \in Int, e \in Int : o = origin[d] /\ e = extent[d]
      BY <1>5, <1>6 DEF Vec
    <3>4. G >= 3 * g
      BY <1>2, <3>1 DEF layersFit, bordersOwned
    <3>5. o = (IF k = 1 THEN G - 2 * g ELSE g) /\ e = IF k # 0 THEN g ELSE G - 2 * g
      BY <1>5, <1>6, <3>1, <3>2, <3>3
    <3>6. Side(d) <=> /\ k = 1 => x >= G - 2 * g
                      /\ k = 2 => x < 2 * g
                      /\ g <= x /\ x < G - g
      BY <3>1, <3>2, Layers
    <3>7. Side(d) <=> o <= x /\ x < o + e
      BY <3>4, <3>5, <3>6
    <3> QED BY <3>1, <3>3, <3>7
  <2> HIDE DEF Side, extent, origin
  <2> QED BY <2>2, <2>3
<1> HIDE DEF extent, origin
<1> QED BY <1>5, <1>6, <1>7, <1>8, <1>9, MoverCounts

-----------------------------------------------------------------------------
(* Linear indices.                                                         *)

\* Quotient and remainder.
LEMMA DivMod ==
    ASSUME NEW a \in Nat \ {0}, NEW k \in Nat
    PROVE  /\ k \div a \in Nat /\ k % a \in Nat /\ k % a < a
           /\ k = (k \div a) * a + (k % a)
OBVIOUS

\* They are unique.
LEMMA DivModUnique ==
    ASSUME NEW a \in Nat \ {0}, NEW q \in Nat, NEW r \in Nat, r < a
    PROVE  (q * a + r) \div a = q /\ (q * a + r) % a = r
<1> DEFINE k == q * a + r
<1>1. k \in Nat
  OBVIOUS
<1> HIDE DEF k
<1>2. PICK p \in Nat, s \in Nat : p = k \div a /\ s = k % a /\ s < a /\ k = p * a + s
  BY <1>1, DivMod
<1>3. (q - p) * a = s - r
  BY <1>2 DEF k
<1>4. s - r < a /\ r - s < a
  BY <1>2
<1>5. q - p = 0
  <2>1. CASE q - p >= 1
    <3>1. (q - p) * a >= a
      BY <2>1
    <3> QED BY <1>3, <1>4, <3>1
  <2>2. CASE q - p <= -1
    <3>1. (p - q) * a >= a
      BY <2>2
    <3> QED BY <1>3, <1>4, <3>1
  <2> QED BY <2>1, <2>2
<1>6. p = q /\ s = r
  <2>1. 0 * a = 0
    OBVIOUS
  <2> QED BY <1>3, <1>5, <2>1
<1> QED BY <1>2, <1>6 DEF k

\* The product of up to three components.
LEMMA Products ==
    /\ productOfComponents(<<>>) = 1
    /\ \A x \in Int : productOfComponents(<<x>>) = x
    /\ \A x, y \in Int : productOfComponents(<<x, y>>) = x * y
    /\ \A x, y, z \in Int : productOfComponents(<<x, y, z>>) = x * y * z
<1> DEFINE Step(f, v) == [d \in 0 .. Len(v) |-> IF d = 0 THEN 1 ELSE f[d - 1] * v[d]]
           Chosen(v) == CHOOSE f : f = Step(f, v)
<1>1. ASSUME NEW v, NEW g, g = Step(g, v) PROVE Chosen(v) = Step(Chosen(v), v)
  BY <1>1
<1>2. \A v : productOfComponents(v) = Chosen(v)[Len(v)]
  BY DEF productOfComponents
<1>3. productOfComponents(<<>>) = 1
  <2> DEFINE v == <<>>
             g == [d \in 0 .. 0 |-> 1]
  <2>1. Len(v) = 0 /\ 0 .. Len(v) = {0}
    OBVIOUS
  <2>2. g = Step(g, v)
    BY <2>1
  <2>3. Chosen(v) = Step(Chosen(v), v)
    BY <1>1, <2>2
  <2> HIDE DEF Chosen
  <2>4. Chosen(v)[0] = 1
    BY <2>1, <2>3
  <2> QED BY <1>2, <2>1, <2>4
<1>4. ASSUME NEW x \in Int PROVE productOfComponents(<<x>>) = x
  <2> DEFINE v == <<x>>
             g == [d \in 0 .. 1 |-> IF d = 0 THEN 1 ELSE x]
  <2>1. Len(v) = 1 /\ 0 .. 1 = {0, 1} /\ v[1] = x
    OBVIOUS
  <2> HIDE DEF v
  <2>2. g = Step(g, v)
    BY <2>1
  <2>3. Chosen(v) = Step(Chosen(v), v)
    BY <1>1, <2>2
  <2> HIDE DEF Chosen
  <2>4. Chosen(v)[0] = 1
    BY <2>1, <2>3
  <2>5. Chosen(v)[1] = Chosen(v)[1 - 1] * v[1]
    BY <2>1, <2>3
  <2>6. Chosen(v)[1] = x
    BY <2>1, <2>4, <2>5
  <2> QED BY <1>2, <2>1, <2>6 DEF v
<1>5. ASSUME NEW x \in Int, NEW y \in Int PROVE productOfComponents(<<x, y>>) = x * y
  <2> DEFINE v == <<x, y>>
             g == [d \in 0 .. 2 |-> IF d = 0 THEN 1 ELSE IF d = 1 THEN x ELSE x * y]
  <2>1. Len(v) = 2 /\ 0 .. 2 = {0, 1, 2} /\ v[1] = x /\ v[2] = y
    OBVIOUS
  <2> HIDE DEF v
  <2>2. g = Step(g, v)
    BY <2>1
  <2>3. Chosen(v) = Step(Chosen(v), v)
    BY <1>1, <2>2
  <2> HIDE DEF Chosen
  <2>4. Chosen(v)[0] = 1
    BY <2>1, <2>3
  <2>5. Chosen(v)[1] = Chosen(v)[1 - 1] * v[1] /\ Chosen(v)[2] = Chosen(v)[2 - 1] * v[2]
    BY <2>1, <2>3
  <2>6. Chosen(v)[1] = x
    BY <2>1, <2>4, <2>5
  <2>7. Chosen(v)[2] = x * y
    BY <2>1, <2>5, <2>6
  <2> QED BY <1>2, <2>1, <2>7 DEF v
<1>6. ASSUME NEW x \in Int, NEW y \in Int, NEW z \in Int
      PROVE  productOfComponents(<<x, y, z>>) = x * y * z
  <2> DEFINE v == <<x, y, z>>
             g == [d \in 0 .. 3 |-> IF d = 0 THEN 1 ELSE IF d = 1 THEN x ELSE IF d = 2 THEN x * y ELSE x * y * z]
  <2>1. Len(v) = 3 /\ 0 .. 3 = {0, 1, 2, 3} /\ v[1] = x /\ v[2] = y /\ v[3] = z
    OBVIOUS
  <2> HIDE DEF v
  <2>2. g = Step(g, v)
    BY <2>1
  <2>3. Chosen(v) = Step(Chosen(v), v)
    BY <1>1, <2>2
  <2> HIDE DEF Chosen
  <2>4. Chosen(v)[0] = 1
    BY <2>1, <2>3
  <2>5. /\ Chosen(v)[1] = Chosen(v)[1 - 1] * v[1] /\ Chosen(v)[2] = Chosen(v)[2 - 1] * v[2]
        /\ Chosen(v)[3] = Chosen(v)[3 - 1] * v[3]
    BY <2>1, <2>3
  <2>6. Chosen(v)[1] = x
    BY <2>1, <2>4, <2>5
  <2>7. Chosen(v)[2] = x * y
    BY <2>1, <2>5, <2>6
  <2>8. Chosen(v)[3] = x * y * z
    BY <2>1, <2>5, <2>7
  <2> QED BY <1>2, <2>1, <2>8 DEF v
<1> QED BY <1>3, <1>4, <1>5, <1>6

\* Vectors as tuples.
LEMMA Tuples ==
    /\ \A v \in Vec(2) : v = <<v[1], v[2]>> /\ v[1] \in Int /\ v[2] \in Int
    /\ \A v \in Vec(3) : v = <<v[1], v[2], v[3]>> /\ v[1] \in Int /\ v[2] \in Int /\ v[3] \in Int
    /\ \A x, y \in Int : <<x, y>> \in Vec(2)
    /\ \A x, y, z \in Int : <<x, y, z>> \in Vec(3)
<1>1. 1 .. 2 = {1, 2} /\ 1 .. 3 = {1, 2, 3}
  OBVIOUS
<1>2. ASSUME NEW v \in Vec(2) PROVE v = <<v[1], v[2]>> /\ v[1] \in Int /\ v[2] \in Int
  BY <1>1 DEF Vec
<1>3. ASSUME NEW v \in Vec(3)
      PROVE  v = <<v[1], v[2], v[3]>> /\ v[1] \in Int /\ v[2] \in Int /\ v[3] \in Int
  BY <1>1 DEF Vec
<1>4. \A x, y \in Int : <<x, y>> \in Vec(2)
  BY <1>1 DEF Vec
<1>5. \A x, y, z \in Int : <<x, y, z>> \in Vec(3)
  BY <1>1 DEF Vec
<1> QED BY <1>2, <1>3, <1>4, <1>5

\* The number of indices, in two and in three dimensions.
LEMMA ProductIs ==
    /\ \A v \in Vec(2) : productOfComponents(v) = v[1] * v[2]
    /\ \A v \in Vec(3) : productOfComponents(v) = v[1] * v[2] * v[3]
<1>1. ASSUME NEW v \in Vec(2) PROVE productOfComponents(v) = v[1] * v[2]
  <2>1. PICK x \in Int, y \in Int : x = v[1] /\ y = v[2] /\ v = <<x, y>>
    BY Tuples
  <2>2. productOfComponents(<<x, y>>) = x * y
    BY Products
  <2> QED BY <2>1, <2>2
<1>2. ASSUME NEW v \in Vec(3) PROVE productOfComponents(v) = v[1] * v[2] * v[3]
  <2>1. PICK x \in Int, y \in Int, z \in Int : x = v[1] /\ y = v[2] /\ z = v[3] /\ v = <<x, y, z>>
    BY Tuples
  <2>2. productOfComponents(<<x, y, z>>) = x * y * z
    BY Products
  <2> QED BY <2>1, <2>2
<1> QED BY <1>1, <1>2

\* The weights of the components.
LEMMA Weights ==
    /\ \A x, y \in Int : weight(<<x, y>>, 1) = 1 /\ weight(<<x, y>>, 2) = x
    /\ \A x, y, z \in Int : /\ weight(<<x, y, z>>, 1) = 1 /\ weight(<<x, y, z>>, 2) = x
                            /\ weight(<<x, y, z>>, 3) = x * y
<1>1. ASSUME NEW x \in Int, NEW y \in Int
      PROVE  weight(<<x, y>>, 1) = 1 /\ weight(<<x, y>>, 2) = x
  <2>1. SubSeq(<<x, y>>, 1, 1 - 1) = <<>>
    OBVIOUS
  <2>2. SubSeq(<<x, y>>, 1, 2 - 1) = <<x>>
    <3> DEFINE s == SubSeq(<<x, y>>, 1, 1)
    <3>1. <<x, y>> \in Seq(Int)
      OBVIOUS
    <3>2. s \in Seq(Int) /\ Len(s) = 1 /\ s[1] = x
      BY <3>1
    <3> HIDE DEF s
    <3>3. s = <<x>>
      BY <3>2
    <3> QED BY <3>3 DEF s
  <2> QED BY <2>1, <2>2, Products DEF weight
<1>2. ASSUME NEW x \in Int, NEW y \in Int, NEW z \in Int
      PROVE  /\ weight(<<x, y, z>>, 1) = 1 /\ weight(<<x, y, z>>, 2) = x
             /\ weight(<<x, y, z>>, 3) = x * y
  <2>1. SubSeq(<<x, y, z>>, 1, 1 - 1) = <<>>
    OBVIOUS
  <2>2. SubSeq(<<x, y, z>>, 1, 2 - 1) = <<x>>
    <3> DEFINE s == SubSeq(<<x, y, z>>, 1, 1)
    <3>1. <<x, y, z>> \in Seq(Int)
      OBVIOUS
    <3>2. s \in Seq(Int) /\ Len(s) = 1 /\ s[1] = x
      BY <3>1
    <3> HIDE DEF s
    <3>3. s = <<x>>
      BY <3>2
    <3> QED BY <3>3 DEF s
  <2>3. SubSeq(<<x, y, z>>, 1, 3 - 1) = <<x, y>>
    <3> DEFINE s == SubSeq(<<x, y, z>>, 1, 2)
    <3>1. <<x, y, z>> \in Seq(Int)
      OBVIOUS
    <3>2. s \in Seq(Int) /\ Len(s) = 2 /\ s[1] = x /\ s[2] = y
      BY <3>1
    <3> HIDE DEF s
    <3>3. s = <<x, y>>
      BY <3>2
    <3> QED BY <3>3 DEF s
  <2>4. weight(<<x, y, z>>, 1) = 1 /\ weight(<<x, y, z>>, 2) = x
    BY <2>1, <2>2, Products DEF weight
  <2>5. weight(<<x, y, z>>, 3) = x * y
    BY <2>3, Products DEF weight
  <2> QED BY <2>4, <2>5
<1> QED BY <1>1, <1>2

\* The linear index in two dimensions.
LEMMA Linear2 ==
    ASSUME NEW e \in Vec(2), NEW v \in Vec(2)
    PROVE  linearize(e, v) = v[1] + v[2] * e[1]
<1> DEFINE Step(f) == [d \in 0 .. Len(v) |-> IF d = 0 THEN 0 ELSE f[d - 1] + v[d] * weight(e, d)]
           chosen == CHOOSE f : f = Step(f)
<1>1. PICK a \in Int, b \in Int : a = e[1] /\ b = e[2] /\ e = <<a, b>>
  BY Tuples
<1>2. PICK x \in Int, y \in Int : x = v[1] /\ y = v[2] /\ v = <<x, y>>
  BY Tuples
<1>3. weight(e, 1) = 1 /\ weight(e, 2) = a
  BY <1>1, Weights
<1>4. Len(v) = 2 /\ 0 .. 2 = {0, 1, 2}
  BY <1>2
<1> DEFINE g == [d \in 0 .. 2 |-> IF d = 0 THEN 0 ELSE IF d = 1 THEN x ELSE x + y * a]
<1>5. g = Step(g)
  BY <1>2, <1>3, <1>4
<1>6. chosen = Step(chosen)
  BY <1>5
<1>7. linearize(e, v) = chosen[2]
  BY <1>4 DEF linearize
<1> HIDE DEF chosen
<1>8. chosen[0] = 0
  BY <1>4, <1>6
<1>9. chosen[1] = chosen[1 - 1] + v[1] * weight(e, 1) /\ chosen[2] = chosen[2 - 1] + v[2] * weight(e, 2)
  BY <1>4, <1>6
<1>10. chosen[1] = x
  BY <1>2, <1>3, <1>8, <1>9
<1>11. chosen[2] = x + y * a
  BY <1>2, <1>3, <1>9, <1>10
<1> QED BY <1>1, <1>2, <1>7, <1>11

\* The linear index in three dimensions.
LEMMA Linear3 ==
    ASSUME NEW e \in Vec(3), NEW v \in Vec(3)
    PROVE  linearize(e, v) = v[1] + v[2] * e[1] + v[3] * (e[1] * e[2])
<1> DEFINE Step(f) == [d \in 0 .. Len(v) |-> IF d = 0 THEN 0 ELSE f[d - 1] + v[d] * weight(e, d)]
           chosen == CHOOSE f : f = Step(f)
<1>1. PICK a \in Int, b \in Int, c \in Int : a = e[1] /\ b = e[2] /\ c = e[3] /\ e = <<a, b, c>>
  BY Tuples
<1>2. PICK x \in Int, y \in Int, z \in Int : x = v[1] /\ y = v[2] /\ z = v[3] /\ v = <<x, y, z>>
  BY Tuples
<1>3. PICK w \in Int : w = a * b
  OBVIOUS
<1>4. weight(e, 1) = 1 /\ weight(e, 2) = a /\ weight(e, 3) = w
  BY <1>1, <1>3, Weights
<1>5. Len(v) = 3 /\ 0 .. 3 = {0, 1, 2, 3}
  BY <1>2
<1> DEFINE g == [d \in 0 .. 3 |-> IF d = 0 THEN 0 ELSE IF d = 1 THEN x ELSE IF d = 2 THEN x + y * a
                                  ELSE x + y * a + z * w]
<1>6. g = Step(g)
  BY <1>2, <1>4, <1>5
<1>7. chosen = Step(chosen)
  BY <1>6
<1>8. linearize(e, v) = chosen[3]
  BY <1>5 DEF linearize
<1> HIDE DEF chosen
<1>9. chosen[0] = 0
  BY <1>5, <1>7
<1>10. /\ chosen[1] = chosen[1 - 1] + v[1] * weight(e, 1) /\ chosen[2] = chosen[2 - 1] + v[2] * weight(e, 2)
       /\ chosen[3] = chosen[3 - 1] + v[3] * weight(e, 3)
  BY <1>5, <1>7
<1>11. chosen[1] = x
  BY <1>2, <1>4, <1>9, <1>10
<1>12. chosen[2] = x + y * a
  BY <1>2, <1>4, <1>10, <1>11
<1>13. chosen[3] = x + y * a + z * w
  BY <1>2, <1>4, <1>10, <1>12
<1> QED BY <1>1, <1>2, <1>3, <1>8, <1>13

\* The index of a number in two dimensions.
LEMMA Mapped2 ==
    ASSUME NEW e \in Vec(2), NEW k \in Int
    PROVE  mapToND(e, k) = <<k % e[1], k \div e[1]>>
<1>1. PICK a \in Int, b \in Int : a = e[1] /\ b = e[2] /\ e = <<a, b>>
  BY Tuples
<1>2. weight(e, 1) = 1 /\ weight(e, 2) = a
  BY <1>1, Weights
<1>3. Len(e) = 2 /\ dims(e) = {1, 2}
  BY <1>1 DEF dims
<1>4. k \div 1 = k
  OBVIOUS
<1> QED BY <1>1, <1>2, <1>3, <1>4 DEF mapToND

\* The index of a number in three dimensions.
LEMMA Mapped3 ==
    ASSUME NEW e \in Vec(3), NEW k \in Int
    PROVE  mapToND(e, k) = <<k % e[1], (k \div e[1]) % e[2], k \div (e[1] * e[2])>>
<1>1. PICK a \in Int, b \in Int, c \in Int : a = e[1] /\ b = e[2] /\ c = e[3] /\ e = <<a, b, c>>
  BY Tuples
<1>2. PICK w \in Int : w = a * b
  OBVIOUS
<1>3. weight(e, 1) = 1 /\ weight(e, 2) = a /\ weight(e, 3) = w
  BY <1>1, <1>2, Weights
<1>4. Len(e) = 3 /\ dims(e) = {1, 2, 3}
  BY <1>1 DEF dims
<1>5. k \div 1 = k
  OBVIOUS
<1> QED BY <1>1, <1>2, <1>3, <1>4, <1>5 DEF mapToND

\* Numbers below a * h as rows of length a.
LEMMA PlaneOf ==
    ASSUME NEW a \in Nat \ {0}, NEW h \in Int, NEW k \in Nat, k < a * h
    PROVE  k \div a < h
<1>1. PICK q \in Nat, r \in Nat : q = k \div a /\ r = k % a /\ k = q * a + r
  BY DivMod
<1>2. ASSUME q >= h PROVE FALSE
  <2>1. (q - h) * a >= 0
    BY <1>2
  <2>2. q * a >= a * h
    BY <2>1
  <2> QED BY <1>1, <2>2
<1> QED BY <1>1, <1>2

\* Rows and columns are numbers below a * h.
LEMMA PlaneTo ==
    ASSUME NEW a \in Nat \ {0}, NEW h \in Int, NEW q \in Nat, NEW r \in Nat, q < h, r < a
    PROVE  q * a + r \in Nat /\ q * a + r < a * h
<1>1. (h - 1 - q) * a >= 0
  OBVIOUS
<1>2. q * a <= a * h - a
  BY <1>1
<1> QED BY <1>2

\* Numbers below a * b * h in layers of b rows.
LEMMA SolidOf ==
    ASSUME NEW a \in Nat \ {0}, NEW b \in Nat \ {0}, NEW h \in Int, NEW k \in Nat, k < a * b * h
    PROVE  /\ k % a \in Nat /\ k % a < a
           /\ (k \div a) % b \in Nat /\ (k \div a) % b < b
           /\ k \div (a * b) \in Nat /\ k \div (a * b) < h
           /\ k = (k % a) + ((k \div a) % b) * a + (k \div (a * b)) * (a * b)
<1>1. PICK q \in Nat, r \in Nat : q = k \div a /\ r = k % a /\ r < a /\ k = q * a + r
  BY DivMod
<1>2. PICK z \in Nat, y \in Nat : z = q \div b /\ y = q % b /\ y < b /\ q = z * b + y
  BY DivMod
<1>3. PICK w \in Nat \ {0} : w = a * b
  OBVIOUS
<1>4. PICK s \in Nat : s = y * a + r /\ s < w
  <2>1. y * a + r \in Nat /\ y * a + r < a * b
    <3>1. b \in Int
      OBVIOUS
    <3> HIDE <1>3
    <3> QED BY <1>1, <1>2, <3>1, PlaneTo
  <2> QED BY <1>3, <2>1
<1>5. k = z * w + s
  <2>1. k = (z * b + y) * a + r
    BY <1>1, <1>2
  <2>2. (z * b + y) * a = z * (a * b) + y * a
    OBVIOUS
  <2> QED BY <1>3, <1>4, <2>1, <2>2
<1>6. k \div w = z
  BY <1>4, <1>5, DivModUnique
<1>7. z < h
  <2>1. k < w * h
    BY <1>3
  <2> QED BY <1>6, <2>1, PlaneOf
<1>8. k = r + y * a + z * w
  BY <1>4, <1>5
<1> QED BY <1>1, <1>2, <1>3, <1>6, <1>7, <1>8

\* The number of column x, row y and layer z.
number(a, b, x, y, z) == x + y * a + z * (a * b)

\* It is below a * b * h, and they can be had back from it.
Numbered(a, b, h, x, y, z) ==
    /\ number(a, b, x, y, z) \in Nat /\ number(a, b, x, y, z) < a * b * h
    /\ number(a, b, x, y, z) % a = x
    /\ (number(a, b, x, y, z) \div a) % b = y
    /\ number(a, b, x, y, z) \div (a * b) = z

\* Layers, rows and columns are numbers below a * b * h.
LEMMA SolidTo ==
    ASSUME NEW a \in Nat \ {0}, NEW b \in Nat \ {0}, NEW h \in Int,
           NEW x \in Nat, NEW y \in Nat, NEW z \in Nat, x < a, y < b, z < h
    PROVE  Numbered(a, b, h, x, y, z)
<1> DEFINE k == number(a, b, x, y, z)
<1>1. PICK w \in Nat \ {0} : w = a * b
  OBVIOUS
<1>2. PICK s \in Nat : s = y * a + x /\ s < w
  <2>1. y * a + x \in Nat /\ y * a + x < a * b
    BY PlaneTo
  <2> QED BY <1>1, <2>1
<1>3. k = z * w + s
  BY <1>1, <1>2 DEF number
<1>4. PICK q \in Nat : q = z * b + y
  OBVIOUS
<1>5. k = q * a + x
  <2>1. (z * b + y) * a = z * (a * b) + y * a
    OBVIOUS
  <2> QED BY <1>4, <2>1 DEF number
<1> HIDE DEF k
<1>6. k \div w = z
  BY <1>2, <1>3, DivModUnique
<1>7. k \div a = q /\ k % a = x
  BY <1>5, DivModUnique
<1>8. q % b = y
  BY <1>4, DivModUnique
<1>9. k \in Nat /\ k < w * h
  BY <1>2, <1>3, PlaneTo
<1>10. k < a * b * h
  BY <1>1, <1>9
<1> QED BY <1>1, <1>6, <1>7, <1>8, <1>9, <1>10 DEF k, Numbered

\* Extents without a negative component.
Extent(n) == {e \in Vec(n) : \A d \in 1 .. n : e[d] >= 0}

\* The blocks of a launch have the numbers below their product, in two dimensions.
LEMMA Numbering2 ==
    ASSUME NEW e \in Extent(2)
    PROVE  /\ \A v \in Blocks(e) : /\ linearize(e, v) \in 0 .. productOfComponents(e) - 1
                                   /\ mapToND(e, linearize(e, v)) = v
           /\ \A k \in 0 .. productOfComponents(e) - 1 :
                 mapToND(e, k) \in Blocks(e) /\ linearize(e, mapToND(e, k)) = k
<1>1. e \in Vec(2) /\ 1 \in 1 .. 2 /\ 2 \in 1 .. 2 /\ 1 .. 2 = {1, 2} /\ 2 \in Dim
  BY DEF Extent, Dim
<1>2. PICK a \in Int, h \in Int : a = e[1] /\ h = e[2] /\ a >= 0 /\ h >= 0
  BY <1>1, Tuples DEF Extent
<1>3. productOfComponents(e) = a * h
  BY <1>1, <1>2, ProductIs
<1>4. ASSUME NEW v \in Blocks(e)
      PROVE  /\ linearize(e, v) \in 0 .. productOfComponents(e) - 1
             /\ mapToND(e, linearize(e, v)) = v
  <2>1. v \in Vec(2) /\ \A d \in 1 .. 2 : 0 <= v[d] /\ v[d] < e[d]
    BY <1>1, BlocksAre
  <2>2. PICK r \in Int, q \in Int : r = v[1] /\ q = v[2] /\ v = <<r, q>>
    BY <2>1, Tuples
  <2>3. r \in Nat /\ q \in Nat /\ r < a /\ q < h /\ a \in Nat \ {0}
    BY <1>1, <1>2, <2>1, <2>2
  <2>4. PICK k \in Nat : k = q * a + r /\ k < a * h
    BY <2>3, PlaneTo
  <2>5. linearize(e, v) = k
    BY <1>1, <1>2, <2>1, <2>2, <2>4, Linear2
  <2>6. k \div a = q /\ k % a = r
    BY <2>3, <2>4, DivModUnique
  <2>7. mapToND(e, k) = <<r, q>>
    BY <1>1, <1>2, <2>6, Mapped2
  <2> QED BY <1>3, <2>2, <2>4, <2>5, <2>7
<1>5. ASSUME NEW k \in 0 .. productOfComponents(e) - 1
      PROVE  mapToND(e, k) \in Blocks(e) /\ linearize(e, mapToND(e, k)) = k
  <2>1. k \in Nat /\ k < a * h
    BY <1>3
  <2>2. a \in Nat \ {0}
    <3>1. a # 0
      BY <2>1
    <3> QED BY <1>2, <3>1
  <2>3. PICK q \in Nat, r \in Nat : q = k \div a /\ r = k % a /\ r < a /\ k = q * a + r
    BY <2>1, <2>2, DivMod
  <2>4. q < h
    BY <2>1, <2>2, <2>3, PlaneOf
  <2>5. mapToND(e, k) = <<r, q>>
    BY <1>1, <1>2, <2>1, <2>3, Mapped2
  <2>6. <<r, q>> \in Vec(2) /\ <<r, q>>[1] = r /\ <<r, q>>[2] = q
    BY Tuples
  <2>7. \A d \in 1 .. 2 : 0 <= <<r, q>>[d] /\ <<r, q>>[d] < e[d]
    BY <1>1, <1>2, <2>3, <2>4, <2>6
  <2>8. <<r, q>> \in Blocks(e)
    BY <1>1, <2>6, <2>7, BlocksAre
  <2>9. linearize(e, <<r, q>>) = r + q * a
    BY <1>1, <1>2, <2>6, Linear2
  <2> QED BY <2>3, <2>5, <2>8, <2>9
<1> QED BY <1>4, <1>5

\* And in three.
LEMMA Numbering3 ==
    ASSUME NEW e \in Extent(3)
    PROVE  /\ \A v \in Blocks(e) : /\ linearize(e, v) \in 0 .. productOfComponents(e) - 1
                                   /\ mapToND(e, linearize(e, v)) = v
           /\ \A k \in 0 .. productOfComponents(e) - 1 :
                 mapToND(e, k) \in Blocks(e) /\ linearize(e, mapToND(e, k)) = k
<1>1. e \in Vec(3) /\ 1 .. 3 = {1, 2, 3} /\ 3 \in Dim
  BY DEF Extent, Dim
<1>2. PICK a \in Int, b \in Int, h \in Int : /\ a = e[1] /\ b = e[2] /\ h = e[3]
                                             /\ a >= 0 /\ b >= 0 /\ h >= 0
  BY <1>1, Tuples DEF Extent
<1>3. productOfComponents(e) = a * b * h
  BY <1>1, <1>2, ProductIs
<1>4. ASSUME NEW v \in Blocks(e)
      PROVE  /\ linearize(e, v) \in 0 .. productOfComponents(e) - 1
             /\ mapToND(e, linearize(e, v)) = v
  <2>1. v \in Vec(3) /\ \A d \in 1 .. 3 : 0 <= v[d] /\ v[d] < e[d]
    BY <1>1, BlocksAre
  <2>2. PICK x \in Int, y \in Int, z \in Int : x = v[1] /\ y = v[2] /\ z = v[3] /\ v = <<x, y, z>>
    BY <2>1, Tuples
  <2>3. /\ x \in Nat /\ y \in Nat /\ z \in Nat /\ x < a /\ y < b /\ z < h
        /\ a \in Nat \ {0} /\ b \in Nat \ {0}
    BY <1>1, <1>2, <2>1, <2>2
  <2>4. PICK k \in Nat : /\ k = x + y * a + z * (a * b) /\ k < a * b * h
                         /\ k % a = x /\ (k \div a) % b = y /\ k \div (a * b) = z
    <3> DEFINE k == number(a, b, x, y, z)
    <3>1. k \in Nat /\ k < a * b * h /\ k % a = x /\ (k \div a) % b = y /\ k \div (a * b) = z
      <4>1. Numbered(a, b, h, x, y, z)
        BY <2>3, SolidTo
      <4> QED BY <4>1 DEF Numbered
    <3>2. k = x + y * a + z * (a * b)
      BY DEF number
    <3> HIDE DEF k
    <3> QED BY <3>1, <3>2
  <2>5. linearize(e, v) = k
    BY <1>1, <1>2, <2>1, <2>2, <2>4, Linear3
  <2>6. mapToND(e, k) = <<x, y, z>>
    BY <1>1, <1>2, <2>4, Mapped3
  <2> QED BY <1>3, <2>2, <2>4, <2>5, <2>6
<1>5. ASSUME NEW k \in 0 .. productOfComponents(e) - 1
      PROVE  mapToND(e, k) \in Blocks(e) /\ linearize(e, mapToND(e, k)) = k
  <2>1. k \in Nat /\ k < a * b * h
    BY <1>3
  <2>2. a \in Nat \ {0} /\ b \in Nat \ {0}
    <3>1. a # 0 /\ b # 0
      BY <2>1
    <3> QED BY <1>2, <3>1
  <2>3. PICK x \in Nat, y \in Nat, z \in Nat :
            /\ x = k % a /\ y = (k \div a) % b /\ z = k \div (a * b)
            /\ x < a /\ y < b /\ z < h /\ k = x + y * a + z * (a * b)
    <3>1. /\ k % a \in Nat /\ k % a < a
          /\ (k \div a) % b \in Nat /\ (k \div a) % b < b
          /\ k \div (a * b) \in Nat /\ k \div (a * b) < h
          /\ k = (k % a) + ((k \div a) % b) * a + (k \div (a * b)) * (a * b)
      BY <2>1, <2>2, SolidOf
    <3> QED BY <3>1
  <2>4. mapToND(e, k) = <<x, y, z>>
    BY <1>1, <1>2, <2>1, <2>3, Mapped3
  <2>5. <<x, y, z>> \in Vec(3) /\ <<x, y, z>>[1] = x /\ <<x, y, z>>[2] = y /\ <<x, y, z>>[3] = z
    BY Tuples
  <2>6. \A d \in 1 .. 3 : 0 <= <<x, y, z>>[d] /\ <<x, y, z>>[d] < e[d]
    BY <1>1, <1>2, <2>3, <2>5
  <2>7. <<x, y, z>> \in Blocks(e)
    BY <1>1, <2>5, <2>6, BlocksAre
  <2>8. linearize(e, <<x, y, z>>) = x + y * a + z * (a * b)
    BY <1>1, <1>2, <2>5, Linear3
  <2> QED BY <2>3, <2>4, <2>7, <2>8
<1> QED BY <1>4, <1>5

\* The blocks of a launch are numbered from 0 without a gap: linearize and mapToND are
\* inverse to each other on them.
LEMMA Numbering ==
    ASSUME NEW n \in Dim, NEW e \in Extent(n)
    PROVE  /\ \A v \in Blocks(e) : /\ linearize(e, v) \in 0 .. productOfComponents(e) - 1
                                   /\ mapToND(e, linearize(e, v)) = v
           /\ \A k \in 0 .. productOfComponents(e) - 1 :
                 mapToND(e, k) \in Blocks(e) /\ linearize(e, mapToND(e, k)) = k
<1>1. n = 2 \/ n = 3
  BY DEF Dim
<1> QED BY <1>1, Numbering2, Numbering3

\* A product of extents.
LEMMA ProductNat ==
    ASSUME NEW n \in Dim, NEW e \in Extent(n)
    PROVE  productOfComponents(e) \in Nat
<1>1. CASE n = 2
  <2>1. e \in Vec(2) /\ 1 .. 2 = {1, 2}
    BY <1>1 DEF Extent
  <2>2. PICK a \in Nat, b \in Nat : a = e[1] /\ b = e[2]
    BY <1>1, <2>1, Tuples DEF Extent
  <2>3. a * b \in Nat
    OBVIOUS
  <2> QED BY <2>1, <2>2, <2>3, ProductIs
<1>2. CASE n = 3
  <2>1. e \in Vec(3) /\ 1 .. 3 = {1, 2, 3}
    BY <1>2 DEF Extent
  <2>2. PICK a \in Nat, b \in Nat, h \in Nat : a = e[1] /\ b = e[2] /\ h = e[3]
    BY <1>2, <2>1, Tuples DEF Extent
  <2>3. a * b * h \in Nat
    OBVIOUS
  <2> QED BY <2>1, <2>2, <2>3, ProductIs
<1> QED BY <1>1, <1>2 DEF Dim

\* The blocks of a range of numbers, and the blocks with such a number.
Indices(e, begin, end) == {mapToND(e, begin + k) : k \in 0 .. end - begin - 1}

Between(e, begin, end) == {b \in Blocks(e) : begin <= linearize(e, b) /\ linearize(e, b) < end}

\* They are the same.
LEMMA RangeIs ==
    ASSUME NEW n \in Dim, NEW e \in Extent(n), NEW begin \in Nat, NEW end \in Nat,
           end <= productOfComponents(e), begin <= end
    PROVE  Indices(e, begin, end) = Between(e, begin, end)
<1>1. PICK size \in Nat : size = productOfComponents(e)
  BY ProductNat
<1>2. /\ \A v \in Blocks(e) : linearize(e, v) \in 0 .. size - 1 /\ mapToND(e, linearize(e, v)) = v
      /\ \A k \in 0 .. size - 1 : mapToND(e, k) \in Blocks(e) /\ linearize(e, mapToND(e, k)) = k
  BY <1>1, Numbering
<1>3. ASSUME NEW k \in 0 .. end - begin - 1
      PROVE  /\ mapToND(e, begin + k) \in Blocks(e)
             /\ begin <= linearize(e, mapToND(e, begin + k)) /\ linearize(e, mapToND(e, begin + k)) < end
  <2>1. begin + k \in 0 .. size - 1 /\ begin <= begin + k /\ begin + k < end
    BY <1>1
  <2> QED BY <1>2, <2>1
<1>4. ASSUME NEW b \in Blocks(e), begin <= linearize(e, b), linearize(e, b) < end
      PROVE  \E k \in 0 .. end - begin - 1 : b = mapToND(e, begin + k)
  <2>1. PICK l \in Int : l = linearize(e, b) /\ mapToND(e, l) = b
    BY <1>2
  <2>2. l - begin \in 0 .. end - begin - 1 /\ begin + (l - begin) = l
    BY <1>4, <2>1
  <2> QED BY <2>1, <2>2
<1> QED BY <1>3, <1>4 DEF Indices, Between

\* A range of the supercells without the guard.
LEMMA RangeCounts ==
    ASSUME SetupInv, mapper.kind = "range"
    PROVE  CountOnce
<1>1. /\ mapper.area = CORE_BORDER /\ mapper.first \in Nat
      /\ mapper.last \in Int /\ mapper.last >= -1
  BY MapperFields
<1>2. Dims \in Nat /\ Dims \in Dim /\ m.guard \in Vec(Dims) /\ \A d \in 1 .. Dims : m.grid[d] \in Nat /\ m.guard[d] \in Nat
  BY Accepted
<1> DEFINE e == withoutGuard(m)
           size == productOfComponents(e)
           end == IF mapper.last = -1 \/ mapper.last > size THEN size ELSE mapper.last
           begin == IF mapper.first > end THEN end ELSE mapper.first
           B == {b \in Blocks(e) : begin <= linearize(e, b) /\ linearize(e, b) < end}
<1>3. e \in Extent(Dims) /\ \A d \in 1 .. Dims : e[d] = m.grid[d] - 2 * m.guard[d]
  <2>1. e \in Vec(Dims) /\ \A d \in 1 .. Dims : e[d] = m.grid[d] - 2 * m.guard[d]
    BY Extents
  <2> HIDE DEF e
  <2>2. \A d \in 1 .. Dims : m.grid[d] \in Nat /\ m.guard[d] \in Nat /\ m.grid[d] >= 2 * m.guard[d] + 1
    BY Accepted
  <2>3. \A d \in 1 .. Dims : e[d] >= 0
    BY <2>1, <2>2
  <2> QED BY <2>1, <2>3 DEF Extent
<1>4. gridDim = e
  BY <1>1 DEF gridDim, strided, areaGridDim, ALL, CORE, BORDER, GUARD, CORE_BORDER
<1> HIDE DEF e
<1>5. size \in Nat
  BY <1>2, <1>3, ProductNat
<1>6. blocks = {mapToND(e, begin + k) : k \in 0 .. end - begin - 1}
  BY <1>4 DEF blocks, rangeBlocks
<1> HIDE DEF size
<1>7. end \in Nat /\ end <= size /\ begin \in Nat /\ begin <= end
  BY <1>1, <1>5
<1>8. blocks = B
  <2> HIDE DEF end, begin
  <2>1. end <= productOfComponents(e)
    BY <1>7 DEF size
  <2>2. Indices(e, begin, end) = Between(e, begin, end)
    BY <1>2, <1>3, <1>7, <2>1, RangeIs
  <2> QED BY <1>6, <2>2 DEF Indices, Between
<1>9. e \in Vec(Dims) /\ \A b \in Blocks(e) : b \in Vec(Dims)
  BY <1>2, <1>3, BlocksAre DEF Extent
<1> DEFINE idx == [b \in Blocks(e) |-> plus(b, m.guard)]
<1>10. \A b \in blocks : Index[b] = idx[b]
  <2>1. \A b \in blocks : getSuperCellIndex(b) = plus(b, m.guard)
    BY <1>1 DEF getSuperCellIndex, areaIndex, ALL, CORE, BORDER, GUARD, CORE_BORDER
  <2> HIDE DEF end, begin
  <2> QED BY <1>8, <2>1 DEF Index
<1>11. \A b \in Blocks(e) : idx[b] \in Vec(Dims) /\ \A d \in 1 .. Dims : idx[b][d] = b[d] + m.guard[d]
  BY <1>2, <1>9, PlusVec
<1>12. Exact(Blocks(e), idx, Box(Dims, m.guard, e))
  <2>1. Moves(Blocks(e), idx, Dims, m.guard)
    BY <1>11 DEF Moves
  <2> HIDE DEF idx
  <2> QED BY <1>2, <1>9, <2>1, MovedExact
<1> DEFINE E == {c \in Box(Dims, m.guard, e) : /\ begin <= linearize(e, minus(c, m.guard))
                                               /\ linearize(e, minus(c, m.guard)) < end}
<1>13. \A b \in Blocks(e) : minus(idx[b], m.guard) = b
  <2>1. ASSUME NEW b \in Blocks(e) PROVE minus(idx[b], m.guard) = b
    <3>1. b \in Vec(Dims) /\ idx[b] \in Vec(Dims)
      BY <1>9, <1>11
    <3>2. /\ minus(idx[b], m.guard) \in Vec(Dims)
          /\ \A d \in 1 .. Dims : minus(idx[b], m.guard)[d] = idx[b][d] - m.guard[d]
      BY <1>2, <3>1, MinusVec
    <3>3. ASSUME NEW d \in 1 .. Dims PROVE minus(idx[b], m.guard)[d] = b[d]
      <4>1. b[d] \in Int /\ m.guard[d] \in Int /\ idx[b][d] = b[d] + m.guard[d]
        BY <1>2, <1>11, <3>1 DEF Vec
      <4> QED BY <3>2, <4>1
    <3> QED BY <1>2, <3>1, <3>2, <3>3, VecEqual
  <2> QED BY <2>1
<1> HIDE DEF idx, begin, end
<1>14. Exact(blocks, Index, E)
  <2>1. \A c \in E : \E b \in blocks : Index[b] = c
    <3>1. ASSUME NEW c \in E PROVE \E b \in blocks : Index[b] = c
      <4>1. PICK b \in Blocks(e) : idx[b] = c
        BY <1>12 DEF Exact
      <4>2. minus(c, m.guard) = b
        BY <1>13, <4>1
      <4>3. b \in blocks
        BY <1>8, <4>2
      <4> QED BY <1>10, <4>1, <4>3
    <3> QED BY <3>1
  <2>2. \A a, b \in blocks : Index[a] = Index[b] => a = b
    BY <1>8, <1>10, <1>12 DEF Exact
  <2>3. \A b \in blocks : Index[b] \in E
    BY <1>8, <1>10, <1>12, <1>13 DEF Exact
  <2> HIDE DEF E
  <2> QED BY <2>1, <2>2, <2>3 DEF Exact
<1>15. ASSUME NEW c \in Blocks(m.grid) PROVE c \in E <=> expected(c)
  <2>1. c \in Vec(Dims) /\ dims(c) = 1 .. Dims
    BY Supercells
  <2> DEFINE v == minus(c, m.guard)
             l == linearize(e, v)
  <2>2. c \in Box(Dims, m.guard, e) <=> inArea(c, CORE_BORDER)
    <3>1. inArea(c, CORE_BORDER) <=> \A d \in 1 .. Dims : within(c, d, 1)
      BY <2>1 DEF inArea, ALL, CORE, BORDER, GUARD, CORE_BORDER
    <3>2. ASSUME NEW d \in 1 .. Dims
          PROVE  within(c, d, 1) <=> m.guard[d] <= c[d] /\ c[d] < m.guard[d] + e[d]
      <4>1. PICK x \in Int, g \in Nat, G \in Nat : x = c[d] /\ g = m.guard[d] /\ G = m.grid[d]
        BY <1>2, Supercells
      <4>2. within(c, d, 1) <=> g <= x /\ x < G - g
        BY <4>1, Layers
      <4>3. e[d] = G - 2 * g
        BY <1>3, <4>1
      <4> QED BY <4>1, <4>2, <4>3
    <3> QED BY <2>1, <3>1, <3>2 DEF Box
  <2>3. expected(c) <=> inArea(c, CORE_BORDER) /\ l >= mapper.first /\ (mapper.last # -1 => l < mapper.last)
    BY DEF expected, e
  <2>4. ASSUME c \in Box(Dims, m.guard, e) PROVE l \in Int /\ 0 <= l /\ l < size
    <3>1. PICK b \in Blocks(e) : idx[b] = c
      BY <1>12, <2>4 DEF Exact
    <3>2. v = b
      BY <1>13, <3>1
    <3>3. linearize(e, b) \in 0 .. size - 1
      BY <1>2, <1>3, Numbering DEF size
    <3> HIDE DEF v
    <3> QED BY <1>5, <3>2, <3>3
  <2> HIDE DEF v, l
  <2>5. c \in E <=> c \in Box(Dims, m.guard, e) /\ begin <= l /\ l < end
    BY DEF l, v
  <2>6. ASSUME l \in Int, 0 <= l, l < size
        PROVE  begin <= l /\ l < end <=> l >= mapper.first /\ (mapper.last # -1 => l < mapper.last)
    BY <1>1, <1>5, <2>6 DEF begin, end
  <2> QED BY <2>2, <2>3, <2>4, <2>5, <2>6
<1> HIDE DEF E
<1> QED BY <1>14, <1>15, CountFromExact

-----------------------------------------------------------------------------
(* GUARD and BORDER are unrolled into slabs, each on both sides.           *)

\* The near side starts at 0, the far side at its distance.
Side(s, distance) == IF s = 0 THEN 0 ELSE distance

\* A domain of A by B supercells with a frame that is f wide and h high: block k of side s
\* processes <<x, y>>, first the rows below and above, then the columns between them.
Slab2(A, B, f, h, k, s, x, y) ==
    \E q, r \in Nat :
        \/ k = q * A + r /\ r < A /\ q < h /\ x = r /\ y = q + Side(s, B - h)
        \/ k = A * h + (q * f + r) /\ r < f /\ q < B - 2 * h /\ x = r + Side(s, A - f) /\ y = q + h

\* The supercells of the frame.
Frame2(A, B, f, h, x, y) ==
    /\ 0 <= x /\ x < A /\ 0 <= y /\ y < B
    /\ x < f \/ x >= A - f \/ y < h \/ y >= B - h

\* The size of a frame and of what it surrounds.
Framed(A, f) == A \in Nat /\ f \in Nat \ {0} /\ A >= 2 * f

\* No supercell has two blocks, and every one is of the frame.
LEMMA SlabsApart2 ==
    ASSUME NEW A, NEW B, NEW f, NEW h, Framed(A, f), Framed(B, h), NEW k, NEW s \in {0, 1}, NEW x, NEW y,
           Slab2(A, B, f, h, k, s, x, y)
    PROVE  /\ Frame2(A, B, f, h, x, y)
           /\ \A l : \A t \in {0, 1} : Slab2(A, B, f, h, l, t, x, y) => l = k /\ t = s
<1>1. A \in Nat /\ f \in Nat \ {0} /\ A >= 2 * f /\ B \in Nat /\ h \in Nat \ {0} /\ B >= 2 * h
  BY DEF Framed
<1>2. PICK q \in Nat, r \in Nat :
        \/ k = q * A + r /\ r < A /\ q < h /\ x = r /\ y = q + Side(s, B - h)
        \/ k = A * h + (q * f + r) /\ r < f /\ q < B - 2 * h /\ x = r + Side(s, A - f) /\ y = q + h
  BY DEF Slab2
<1>3. Frame2(A, B, f, h, x, y)
  BY <1>1, <1>2 DEF Frame2, Side
<1>4. ASSUME NEW l, NEW t \in {0, 1}, Slab2(A, B, f, h, l, t, x, y) PROVE l = k /\ t = s
  <2>1. PICK p \in Nat, u \in Nat :
          \/ l = p * A + u /\ u < A /\ p < h /\ x = u /\ y = p + Side(t, B - h)
          \/ l = A * h + (p * f + u) /\ u < f /\ p < B - 2 * h /\ x = u + Side(t, A - f) /\ y = p + h
    BY <1>4 DEF Slab2
  <2>2. t = s /\ p = q /\ u = r
    BY <1>1, <1>2, <2>1 DEF Side
  <2>3. x = r /\ y = q + Side(s, B - h) /\ q < h => ~ (y = q + h /\ q < B - 2 * h)
    BY <1>1 DEF Side
  <2> QED BY <1>2, <2>1, <2>2, <2>3
<1> QED BY <1>3, <1>4

\* Every supercell of the frame has a block of the launch.
LEMMA SlabsCover2 ==
    ASSUME NEW A, NEW B, NEW f, NEW h, Framed(A, f), Framed(B, h), NEW x \in Int, NEW y \in Int,
           Frame2(A, B, f, h, x, y)
    PROVE  \E k \in Nat, s \in {0, 1} : k < A * h + (B - 2 * h) * f /\ Slab2(A, B, f, h, k, s, x, y)
<1>1. A \in Nat /\ f \in Nat \ {0} /\ A >= 2 * f /\ B \in Nat /\ h \in Nat \ {0} /\ B >= 2 * h
  BY DEF Framed
<1>2. 0 <= x /\ x < A /\ 0 <= y /\ y < B
  BY DEF Frame2
<1>3. PICK X \in Nat, Y \in Nat : X = A * h /\ Y = (B - 2 * h) * f
  <2>1. A * h \in Nat /\ (B - 2 * h) * f \in Nat
    BY <1>1
  <2> QED BY <2>1
<1>4. CASE y < h \/ y >= B - h
  <2>1. PICK s \in {0, 1}, q \in Nat : q < h /\ y = q + Side(s, B - h)
    <3>1. CASE y < h
      <4>1. y \in Nat /\ y = y + Side(0, B - h)
        BY <1>2 DEF Side
      <4> QED BY <3>1, <4>1
    <3>2. CASE y >= B - h
      <4>1. y - (B - h) \in Nat /\ y - (B - h) < h /\ y = (y - (B - h)) + Side(1, B - h)
        BY <1>1, <1>2, <3>2 DEF Side
      <4> QED BY <4>1
    <3> QED BY <1>4, <3>1, <3>2
  <2>2. A \in Nat \ {0} /\ x \in Nat
    BY <1>1, <1>2
  <2>3. PICK k \in Nat : k = q * A + x /\ k < X
    <3>1. q * A + x \in Nat /\ q * A + x < A * h
      BY <1>1, <1>2, <2>1, <2>2, PlaneTo
    <3> QED BY <1>3, <3>1
  <2>4. k < X + Y
    BY <2>3
  <2>5. Slab2(A, B, f, h, k, s, x, y)
    BY <1>2, <2>1, <2>2, <2>3 DEF Slab2
  <2> QED BY <1>3, <2>4, <2>5
<1>5. CASE y >= h /\ y < B - h
  <2>1. PICK s \in {0, 1}, r \in Nat : r < f /\ x = r + Side(s, A - f)
    <3>1. CASE x < f
      <4>1. x \in Nat /\ x = x + Side(0, A - f)
        BY <1>2 DEF Side
      <4> QED BY <3>1, <4>1
    <3>2. CASE x >= A - f
      <4>1. x - (A - f) \in Nat /\ x - (A - f) < f /\ x = (x - (A - f)) + Side(1, A - f)
        BY <1>1, <1>2, <3>2 DEF Side
      <4> QED BY <4>1
    <3> QED BY <1>1, <1>5, <3>1, <3>2 DEF Frame2
  <2>2. PICK q \in Nat : q = y - h /\ q < B - 2 * h /\ y = q + h
    BY <1>1, <1>5
  <2>3. PICK j \in Nat : j = q * f + r /\ j < Y
    <3>1. q * f + r \in Nat /\ q * f + r < f * (B - 2 * h)
      BY <1>1, <2>1, <2>2, PlaneTo
    <3>2. f * (B - 2 * h) = (B - 2 * h) * f
      BY <1>1
    <3> QED BY <1>3, <3>1, <3>2
  <2>4. X + j \in Nat /\ X + j < X + Y
    BY <2>3
  <2>5. X + j = A * h + (q * f + r)
    BY <1>3, <2>3
  <2>6. Slab2(A, B, f, h, X + j, s, x, y)
    BY <2>1, <2>2, <2>5 DEF Slab2
  <2> QED BY <1>3, <2>4, <2>6
<1> QED BY <1>1, <1>4, <1>5

\* A block processes one supercell.
LEMMA SlabOnce2 ==
    ASSUME NEW A, NEW B, NEW f, NEW h, Framed(A, f), Framed(B, h), NEW k, NEW s \in {0, 1},
           NEW x, NEW y, NEW v, NEW w, Slab2(A, B, f, h, k, s, x, y), Slab2(A, B, f, h, k, s, v, w)
    PROVE  x = v /\ y = w
<1>1. A \in Nat \ {0} /\ f \in Nat \ {0} /\ B \in Nat /\ h \in Nat \ {0} /\ B >= 2 * h
  BY DEF Framed
<1>2. ASSUME NEW q \in Nat, NEW r \in Nat, NEW a \in Nat \ {0}, r < a, NEW p \in Nat, NEW u \in Nat, u < a,
             q * a + r = p * a + u
      PROVE  p = q /\ u = r
  <2>1. (q * a + r) \div a = q /\ (q * a + r) % a = r
    BY <1>2, DivModUnique
  <2>2. (p * a + u) \div a = p /\ (p * a + u) % a = u
    BY <1>2, DivModUnique
  <2> QED BY <1>2, <2>1, <2>2
<1>3. PICK q \in Nat, r \in Nat :
        \/ k = q * A + r /\ r < A /\ q < h /\ x = r /\ y = q + Side(s, B - h)
        \/ k = A * h + (q * f + r) /\ r < f /\ q < B - 2 * h /\ x = r + Side(s, A - f) /\ y = q + h
  BY DEF Slab2
<1>4. PICK p \in Nat, u \in Nat :
        \/ k = p * A + u /\ u < A /\ p < h /\ v = u /\ w = p + Side(s, B - h)
        \/ k = A * h + (p * f + u) /\ u < f /\ p < B - 2 * h /\ v = u + Side(s, A - f) /\ w = p + h
  BY DEF Slab2
<1>5. PICK X \in Nat : X = A * h
  BY <1>1
<1>6. ASSUME r < A, q < h PROVE q * A + r < X
  BY <1>1, <1>5, <1>6, PlaneTo
<1>7. ASSUME u < A, p < h PROVE p * A + u < X
  BY <1>1, <1>5, <1>7, PlaneTo
<1>8. PICK qA \in Nat, qf \in Nat, pA \in Nat, pf \in Nat : qA = q * A /\ qf = q * f /\ pA = p * A /\ pf = p * f
  BY <1>1
<1>9. CASE k < X
  <2>1. k = q * A + r /\ r < A /\ x = r /\ y = q + Side(s, B - h)
    BY <1>3, <1>5, <1>8, <1>9
  <2>2. k = p * A + u /\ u < A /\ v = u /\ w = p + Side(s, B - h)
    BY <1>4, <1>5, <1>8, <1>9
  <2>3. p = q /\ u = r
    BY <1>1, <1>2, <2>1, <2>2
  <2> QED BY <2>1, <2>2, <2>3
<1>10. CASE ~ (k < X)
  <2>1. k = X + (q * f + r) /\ r < f /\ x = r + Side(s, A - f) /\ y = q + h
    BY <1>3, <1>5, <1>6, <1>10
  <2>2. k = X + (p * f + u) /\ u < f /\ v = u + Side(s, A - f) /\ w = p + h
    BY <1>4, <1>5, <1>7, <1>10
  <2>3. q * f + r = p * f + u
    <3>1. q * f + r = qf + r /\ p * f + u = pf + u
      BY <1>8
    <3>2. k = X + (qf + r) /\ k = X + (pf + u)
      BY <2>1, <2>2, <3>1
    <3>3. qf + r = pf + u
      BY <3>2
    <3> QED BY <3>1, <3>3
  <2>4. p = q /\ u = r
    BY <1>1, <1>2, <2>1, <2>2, <2>3
  <2> QED BY <2>1, <2>2, <2>4
<1> QED BY <1>9, <1>10

\* The frame of a domain.
FrameOf(n, G, g) ==
    {c \in Vec(n) : /\ \A d \in 1 .. n : 0 <= c[d] /\ c[d] < G[d]
                    /\ \E d \in 1 .. n : c[d] < g[d] \/ c[d] >= G[d] - g[d]}

\* guardIndex2 by slabs.
LEMMA GuardSlabs2 ==
    ASSUME NEW G \in Vec(2), NEW g \in Vec(2), Framed(G[1], g[1]), Framed(G[2], g[2]),
           NEW b \in Blocks(guardDim2(G, g))
    PROVE  /\ b = <<b[1], b[2]>> /\ b[1] \in Nat /\ b[2] \in {0, 1}
           /\ \E x, y \in Int : /\ guardIndex2(G, g, b) = <<x, y>>
                                /\ Slab2(G[1], G[2], g[1], g[2], b[1], b[2], x, y)
<1>1. PICK A \in Int, B \in Int, f \in Int, h \in Int : A = G[1] /\ B = G[2] /\ f = g[1] /\ h = g[2]
  BY Tuples
<1>2. A \in Nat \ {0} /\ f \in Nat \ {0} /\ A >= 2 * f /\ B \in Nat /\ h \in Nat \ {0} /\ B >= 2 * h
  BY <1>1 DEF Framed
<1>3. PICK X \in Nat, Y \in Nat : X = A * h /\ Y = (B - 2 * h) * f
  <2>1. A * h \in Nat /\ (B - 2 * h) * f \in Nat
    BY <1>2
  <2> QED BY <2>1
<1>4. guardDim2(G, g) = <<X + Y, 2>>
  BY <1>1, <1>3 DEF guardDim2
<1>5. guardDim2(G, g) \in Vec(2) /\ guardDim2(G, g)[1] = X + Y /\ guardDim2(G, g)[2] = 2
  BY <1>4, Tuples
<1>6. b \in Vec(2) /\ \A d \in 1 .. 2 : 0 <= b[d] /\ b[d] < guardDim2(G, g)[d]
  BY <1>5, BlocksAre DEF Dim
<1>7. PICK k \in Nat, s \in {0, 1} : k = b[1] /\ s = b[2] /\ b = <<k, s>> /\ k < X + Y
  <2>1. 1 \in 1 .. 2 /\ 2 \in 1 .. 2
    OBVIOUS
  <2>2. PICK k \in Int, s \in Int : k = b[1] /\ s = b[2] /\ b = <<k, s>>
    BY <1>6, Tuples
  <2>3. 0 <= k /\ k < X + Y /\ 0 <= s /\ s < 2
    BY <1>5, <1>6, <2>1, <2>2
  <2>4. k \in Nat /\ s \in {0, 1}
    BY <2>3
  <2> QED BY <2>2, <2>3, <2>4
<1>8. s * (B - h) = Side(s, B - h) /\ s * (A - f) = Side(s, A - f) /\ Side(s, B - h) \in Int /\ Side(s, A - f) \in Int
  BY <1>2 DEF Side
<1>9. CASE k < X
  <2>1. PICK q \in Nat, r \in Nat : q = k \div A /\ r = k % A /\ r < A /\ k = q * A + r
    BY <1>2, DivMod
  <2>2. q < h
    BY <1>2, <1>3, <1>9, <2>1, PlaneOf
  <2>3. guardIndex2(G, g, b) = <<r, q + Side(s, B - h)>>
    BY <1>1, <1>3, <1>7, <1>8, <1>9, <2>1 DEF guardIndex2
  <2>4. Slab2(A, B, f, h, k, s, r, q + Side(s, B - h))
    BY <2>1, <2>2 DEF Slab2
  <2>5. r \in Int /\ q + Side(s, B - h) \in Int
    BY <1>8
  <2> QED BY <1>1, <1>7, <2>3, <2>4, <2>5
<1>10. CASE ~ (k < X)
  <2>1. PICK j \in Nat : j = k - X /\ j < Y /\ k = X + j
    BY <1>7, <1>10
  <2>2. PICK q \in Nat, r \in Nat : q = j \div f /\ r = j % f /\ r < f /\ j = q * f + r
    BY <1>2, DivMod
  <2>3. q < B - 2 * h
    <3>1. j < f * (B - 2 * h)
      BY <1>2, <1>3, <2>1
    <3> QED BY <1>2, <2>2, <3>1, PlaneOf
  <2>4. guardIndex2(G, g, b) = <<r + Side(s, A - f), q + h>>
    BY <1>1, <1>3, <1>7, <1>8, <1>10, <2>1, <2>2 DEF guardIndex2
  <2>5. k = A * h + (q * f + r)
    BY <1>3, <2>1, <2>2
  <2>6. Slab2(A, B, f, h, k, s, r + Side(s, A - f), q + h)
    BY <2>2, <2>3, <2>5 DEF Slab2
  <2>7. r + Side(s, A - f) \in Int /\ q + h \in Int
    BY <1>8
  <2> QED BY <1>1, <1>7, <2>4, <2>6, <2>7
<1> QED BY <1>9, <1>10

\* The unrolled frame in two dimensions.
LEMMA Unrolled2 ==
    ASSUME NEW G \in Vec(2), NEW g \in Vec(2), Framed(G[1], g[1]), Framed(G[2], g[2])
    PROVE  Exact(Blocks(guardDim2(G, g)), [b \in Blocks(guardDim2(G, g)) |-> guardIndex2(G, g, b)], FrameOf(2, G, g))
<1> DEFINE S == Blocks(guardDim2(G, g))
           idx == [b \in S |-> guardIndex2(G, g, b)]
           At(k, s, x, y) == Slab2(G[1], G[2], g[1], g[2], k, s, x, y)
<1>1. ASSUME NEW b \in S
      PROVE  /\ b = <<b[1], b[2]>> /\ b[1] \in Nat /\ b[2] \in {0, 1}
             /\ \E x, y \in Int : idx[b] = <<x, y>> /\ At(b[1], b[2], x, y)
  BY GuardSlabs2
<1>2. ASSUME NEW x \in Int, NEW y \in Int
      PROVE  <<x, y>> \in FrameOf(2, G, g) <=> Frame2(G[1], G[2], g[1], g[2], x, y)
  <2>1. <<x, y>> \in Vec(2) /\ <<x, y>>[1] = x /\ <<x, y>>[2] = y /\ 1 .. 2 = {1, 2}
    BY Tuples
  <2> QED BY <2>1 DEF FrameOf, Frame2
<1>3. ASSUME NEW c \in FrameOf(2, G, g) PROVE \E b \in S : idx[b] = c
  <2>1. PICK x \in Int, y \in Int : c = <<x, y>>
    BY Tuples DEF FrameOf
  <2>2. PICK A \in Int, B \in Int, f \in Int, h \in Int : A = G[1] /\ B = G[2] /\ f = g[1] /\ h = g[2]
    BY Tuples
  <2>3. Framed(A, f) /\ Framed(B, h) /\ Frame2(A, B, f, h, x, y)
    BY <1>2, <2>1, <2>2
  <2>4. PICK k \in Nat, s \in {0, 1} : k < A * h + (B - 2 * h) * f /\ Slab2(A, B, f, h, k, s, x, y)
    BY <2>3, SlabsCover2
  <2>5. PICK L \in Int : L = A * h + (B - 2 * h) * f
    OBVIOUS
  <2>6. guardDim2(G, g) = <<L, 2>>
    BY <2>2, <2>5 DEF guardDim2
  <2>7. <<k, s>> \in Vec(2) /\ <<k, s>>[1] = k /\ <<k, s>>[2] = s /\ <<L, 2>> \in Vec(2) /\ 1 .. 2 = {1, 2}
    BY Tuples
  <2>8. <<k, s>> \in Blocks(<<L, 2>>)
    <3>1. \A d \in 1 .. 2 : 0 <= <<k, s>>[d] /\ <<k, s>>[d] < <<L, 2>>[d]
      BY <2>4, <2>5, <2>7
    <3> QED BY <2>7, <3>1, BlocksAre DEF Dim
  <2>9. PICK v \in Int, w \in Int : idx[<<k, s>>] = <<v, w>> /\ Slab2(A, B, f, h, k, s, v, w)
    BY <1>1, <2>2, <2>6, <2>7, <2>8
  <2>10. x = v /\ y = w
    BY <2>3, <2>4, <2>9, SlabOnce2
  <2> QED BY <2>1, <2>6, <2>8, <2>9, <2>10
<1>4. ASSUME NEW a \in S, NEW b \in S, idx[a] = idx[b] PROVE a = b
  <2>1. PICK x \in Int, y \in Int : idx[a] = <<x, y>> /\ At(a[1], a[2], x, y)
    BY <1>1
  <2>2. PICK v \in Int, w \in Int : idx[b] = <<v, w>> /\ At(b[1], b[2], v, w)
    BY <1>1
  <2> HIDE DEF idx
  <2>3. v = x /\ w = y
    <3>1. <<x, y>> = <<v, w>>
      BY <1>4, <2>1, <2>2
    <3> QED BY ONLY <3>1
  <2>4. a[1] = b[1] /\ a[2] = b[2]
    BY <1>1, <2>1, <2>2, <2>3, SlabsApart2
  <2> HIDE DEF S
  <2> QED BY <1>1, <2>4
<1>5. ASSUME NEW b \in S PROVE idx[b] \in FrameOf(2, G, g)
  <2>1. PICK x \in Int, y \in Int : idx[b] = <<x, y>> /\ At(b[1], b[2], x, y) /\ b[2] \in {0, 1}
    BY <1>1
  <2>2. Frame2(G[1], G[2], g[1], g[2], x, y)
    BY <2>1, SlabsApart2
  <2> HIDE DEF idx
  <2> QED BY <1>2, <2>1, <2>2
<1> HIDE DEF idx, S
<1>6. Exact(S, idx, FrameOf(2, G, g))
  BY <1>3, <1>4, <1>5 DEF Exact
<1> QED BY <1>6 DEF idx, S

volume(a, b, h) == a * b * h

\* Volumes, and that an index in one needs a row and a column.
LEMMA Volumes ==
    ASSUME NEW a \in Nat, NEW b \in Nat, NEW h \in Nat
    PROVE  /\ volume(a, b, h) \in Nat
           /\ \A k \in Nat : k < volume(a, b, h) => a # 0 /\ b # 0
<1>1. a * b * h \in Nat
  OBVIOUS
<1>2. ASSUME a = 0 \/ b = 0 PROVE a * b * h = 0
  BY <1>2
<1> QED BY <1>1, <1>2 DEF volume

\* A column, row and layer of a solid has a number in it.
LEMMA NumberBound ==
    ASSUME NEW a \in Nat \ {0}, NEW b \in Nat \ {0}, NEW h \in Int,
           NEW x \in Nat, NEW y \in Nat, NEW z \in Nat, x < a, y < b, z < h
    PROVE  number(a, b, x, y, z) \in Nat /\ number(a, b, x, y, z) < volume(a, b, h)
<1>1. Numbered(a, b, h, x, y, z)
  BY SolidTo
<1> QED BY <1>1 DEF Numbered, volume

\* Two with the same number.
SameNumber(a, b, x, y, z, u, v, w) ==
    x < a /\ y < b /\ u < a /\ v < b /\ number(a, b, x, y, z) = number(a, b, u, v, w)

\* They are the same.
LEMMA NumberUnique ==
    ASSUME NEW a \in Nat \ {0}, NEW b \in Nat \ {0},
           NEW x \in Nat, NEW y \in Nat, NEW z \in Nat,
           NEW u \in Nat, NEW v \in Nat, NEW w \in Nat, SameNumber(a, b, x, y, z, u, v, w)
    PROVE  x = u /\ y = v /\ z = w
<1>1. z < z + 1 /\ w < w + 1 /\ z + 1 \in Int /\ w + 1 \in Int
  OBVIOUS
<1>2. x < a /\ y < b /\ u < a /\ v < b /\ number(a, b, x, y, z) = number(a, b, u, v, w)
  BY DEF SameNumber
<1>3. Numbered(a, b, z + 1, x, y, z)
  BY <1>1, <1>2, SolidTo
<1>4. Numbered(a, b, w + 1, u, v, w)
  BY <1>1, <1>2, SolidTo
<1> QED BY <1>2, <1>3, <1>4 DEF Numbered

\* A column, a row and a layer of number k.
Divided(a, b, h, k) ==
    \E x, y, z \in Nat : /\ x = k % a /\ y = (k \div a) % b /\ z = k \div (a * b)
                         /\ x < a /\ y < b /\ z < h /\ k = number(a, b, x, y, z)

\* Every number has a column, a row and a layer.
LEMMA NumberOf ==
    ASSUME NEW a \in Nat \ {0}, NEW b \in Nat \ {0}, NEW h \in Int, NEW k \in Nat, k < volume(a, b, h)
    PROVE  Divided(a, b, h, k)
<1>1. k < a * b * h
  BY DEF volume
<1>2. /\ k % a \in Nat /\ k % a < a
      /\ (k \div a) % b \in Nat /\ (k \div a) % b < b
      /\ k \div (a * b) \in Nat /\ k \div (a * b) < h
      /\ k = (k % a) + ((k \div a) % b) * a + (k \div (a * b)) * (a * b)
  BY <1>1, SolidOf
<1>3. k = number(a, b, k % a, (k \div a) % b, k \div (a * b))
  BY <1>2 DEF number
<1> QED BY <1>2, <1>3 DEF Divided

\* A domain of A by B by C supercells with a frame of width f, height h and depth e: block k
\* of side s processes <<x, y, z>>, first the layers in front and behind, then left and right
\* of what is between them, then below and above the rest.
Slab3(A, B, C, f, h, e, k, s, x, y, z) ==
    \E i, j, l \in Nat :
        \/ /\ k = number(A, B, i, j, l) /\ i < A /\ j < B /\ l < e
           /\ x = i /\ y = j /\ z = l + Side(s, C - e)
        \/ /\ k = volume(A, B, e) + number(B, C - 2 * e, i, j, l) /\ i < B /\ j < C - 2 * e /\ l < f
           /\ x = l + Side(s, A - f) /\ y = i /\ z = j + e
        \/ /\ k = volume(A, B, e) + volume(B, C - 2 * e, f) + number(A - 2 * f, C - 2 * e, i, j, l)
           /\ i < A - 2 * f /\ j < C - 2 * e /\ l < h
           /\ x = i + f /\ y = l + Side(s, B - h) /\ z = j + e

Frame3(A, B, C, f, h, e, x, y, z) ==
    /\ 0 <= x /\ x < A /\ 0 <= y /\ y < B /\ 0 <= z /\ z < C
    /\ x < f \/ x >= A - f \/ y < h \/ y >= B - h \/ z < e \/ z >= C - e

\* The three sizes of a domain and of its frame.
Framed3(A, B, C, f, h, e) == Framed(A, f) /\ Framed(B, h) /\ Framed(C, e)

\* No supercell has two blocks, and every one is of the frame.
LEMMA SlabsApart3 ==
    ASSUME NEW A, NEW B, NEW C, NEW f, NEW h, NEW e, Framed3(A, B, C, f, h, e),
           NEW k, NEW s \in {0, 1}, NEW x, NEW y, NEW z, Slab3(A, B, C, f, h, e, k, s, x, y, z)
    PROVE  /\ Frame3(A, B, C, f, h, e, x, y, z)
           /\ \A n : \A t \in {0, 1} : Slab3(A, B, C, f, h, e, n, t, x, y, z) => n = k /\ t = s
<1>1. /\ A \in Nat /\ f \in Nat \ {0} /\ A >= 2 * f /\ B \in Nat /\ h \in Nat \ {0} /\ B >= 2 * h
      /\ C \in Nat /\ e \in Nat \ {0} /\ C >= 2 * e
  BY DEF Framed3, Framed
<1> DEFINE P(n, t, i, j, l) == /\ n = number(A, B, i, j, l) /\ i < A /\ j < B /\ l < e
                               /\ x = i /\ y = j /\ z = l + Side(t, C - e)
           Q(n, t, i, j, l) == /\ n = volume(A, B, e) + number(B, C - 2 * e, i, j, l)
                               /\ i < B /\ j < C - 2 * e /\ l < f
                               /\ x = l + Side(t, A - f) /\ y = i /\ z = j + e
           R(n, t, i, j, l) == /\ n = volume(A, B, e) + volume(B, C - 2 * e, f) + number(A - 2 * f, C - 2 * e, i, j, l)
                               /\ i < A - 2 * f /\ j < C - 2 * e /\ l < h
                               /\ x = i + f /\ y = l + Side(t, B - h) /\ z = j + e
<1>2. PICK i \in Nat, j \in Nat, l \in Nat : P(k, s, i, j, l) \/ Q(k, s, i, j, l) \/ R(k, s, i, j, l)
  BY DEF Slab3
<1>3. Frame3(A, B, C, f, h, e, x, y, z)
  <2>1. CASE P(k, s, i, j, l)
    BY <1>1, <2>1 DEF Frame3, Side
  <2>2. CASE Q(k, s, i, j, l)
    BY <1>1, <2>2 DEF Frame3, Side
  <2>3. CASE R(k, s, i, j, l)
    BY <1>1, <2>3 DEF Frame3, Side
  <2> QED BY <1>2, <2>1, <2>2, <2>3
<1>4. ASSUME NEW n, NEW t \in {0, 1}, Slab3(A, B, C, f, h, e, n, t, x, y, z) PROVE n = k /\ t = s
  <2>1. PICK o \in Nat, p \in Nat, q \in Nat : P(n, t, o, p, q) \/ Q(n, t, o, p, q) \/ R(n, t, o, p, q)
    BY <1>4 DEF Slab3
  <2>2. CASE P(k, s, i, j, l)
    <3>1. ~ Q(n, t, o, p, q) /\ ~ R(n, t, o, p, q)
      BY <1>1, <2>2 DEF Side
    <3>2. t = s /\ o = i /\ p = j /\ q = l
      BY <1>1, <2>1, <2>2, <3>1 DEF Side
    <3> QED BY <2>1, <2>2, <3>1, <3>2
  <2>3. CASE Q(k, s, i, j, l)
    <3>1. ~ P(n, t, o, p, q) /\ ~ R(n, t, o, p, q)
      BY <1>1, <2>3 DEF Side
    <3>2. t = s /\ o = i /\ p = j /\ q = l
      BY <1>1, <2>1, <2>3, <3>1 DEF Side
    <3> QED BY <2>1, <2>3, <3>1, <3>2
  <2>4. CASE R(k, s, i, j, l)
    <3>1. ~ P(n, t, o, p, q) /\ ~ Q(n, t, o, p, q)
      BY <1>1, <2>4 DEF Side
    <3>2. t = s /\ o = i /\ p = j /\ q = l
      BY <1>1, <2>1, <2>4, <3>1 DEF Side
    <3> QED BY <2>1, <2>4, <3>1, <3>2
  <2> QED BY <1>2, <2>2, <2>3, <2>4
<1> QED BY <1>3, <1>4

\* A coordinate in the frame, from the side it is on.
LEMMA SideOf ==
    ASSUME NEW A, NEW f, Framed(A, f), NEW x \in Int, 0 <= x, x < A, x < f \/ x >= A - f
    PROVE  \E s \in {0, 1}, l \in Nat : l < f /\ x = l + Side(s, A - f)
<1>1. A \in Nat /\ f \in Nat \ {0} /\ A >= 2 * f
  BY DEF Framed
<1>2. CASE x < f
  <2>1. x \in Nat /\ x = x + Side(0, A - f)
    BY <1>1 DEF Side
  <2> QED BY <1>2, <2>1
<1>3. CASE x >= A - f
  <2>1. x - (A - f) \in Nat /\ x - (A - f) < f /\ x = (x - (A - f)) + Side(1, A - f)
    BY <1>1, <1>3 DEF Side
  <2> QED BY <2>1
<1> QED BY <1>2, <1>3

\* Every supercell of the frame has a block of the launch.
LEMMA SlabsCover3 ==
    ASSUME NEW A, NEW B, NEW C, NEW f, NEW h, NEW e, Framed3(A, B, C, f, h, e),
           NEW x \in Int, NEW y \in Int, NEW z \in Int, Frame3(A, B, C, f, h, e, x, y, z)
    PROVE  \E k \in Nat, s \in {0, 1} :
              /\ k < volume(A, B, e) + volume(B, C - 2 * e, f) + volume(A - 2 * f, C - 2 * e, h)
              /\ Slab3(A, B, C, f, h, e, k, s, x, y, z)
<1>1. /\ A \in Nat \ {0} /\ f \in Nat \ {0} /\ A >= 2 * f /\ B \in Nat \ {0} /\ h \in Nat \ {0} /\ B >= 2 * h
      /\ C \in Nat \ {0} /\ e \in Nat \ {0} /\ C >= 2 * e /\ Framed(A, f) /\ Framed(B, h) /\ Framed(C, e)
  BY DEF Framed3, Framed
<1>2. 0 <= x /\ x < A /\ 0 <= y /\ y < B /\ 0 <= z /\ z < C
  BY DEF Frame3
<1>3. PICK X \in Nat, Z \in Nat : X = A - 2 * f /\ Z = C - 2 * e
  BY <1>1
<1>4. PICK V1 \in Nat, V2 \in Nat, V3 \in Nat : V1 = volume(A, B, e) /\ V2 = volume(B, Z, f) /\ V3 = volume(X, Z, h)
  BY <1>1, Volumes
<1>5. CASE z < e \/ z >= C - e
  <2>1. PICK s \in {0, 1}, l \in Nat : l < e /\ z = l + Side(s, C - e)
    BY <1>1, <1>2, <1>5, SideOf
  <2>2. x \in Nat /\ y \in Nat
    BY <1>2
  <2>3. PICK k \in Nat : k = number(A, B, x, y, l) /\ k < V1
    <3>1. e \in Int
      BY <1>1
    <3>2. number(A, B, x, y, l) \in Nat /\ number(A, B, x, y, l) < volume(A, B, e)
      BY <1>1, <1>2, <2>1, <2>2, <3>1, NumberBound
    <3> QED BY <1>4, <3>2
  <2>4. Slab3(A, B, C, f, h, e, k, s, x, y, z)
    BY <1>2, <2>1, <2>2, <2>3 DEF Slab3
  <2>5. k < V1 + V2 + V3
    BY <2>3
  <2> QED BY <1>3, <1>4, <2>4, <2>5
<1>6. CASE z >= e /\ z < C - e /\ (x < f \/ x >= A - f)
  <2>1. PICK s \in {0, 1}, l \in Nat : l < f /\ x = l + Side(s, A - f)
    BY <1>1, <1>2, <1>6, SideOf
  <2>2. PICK j \in Nat : j < Z /\ z = j + e /\ Z # 0 /\ y \in Nat
    <3>1. z - e \in Nat /\ z - e < Z /\ z = (z - e) + e /\ Z # 0 /\ y \in Nat
      BY <1>1, <1>2, <1>3, <1>6
    <3> QED BY <3>1
  <2>3. PICK n \in Nat : n = number(B, Z, y, j, l) /\ n < V2
    <3>1. f \in Int /\ Z \in Nat \ {0}
      BY <1>1, <2>2
    <3>2. number(B, Z, y, j, l) \in Nat /\ number(B, Z, y, j, l) < volume(B, Z, f)
      BY <1>1, <1>2, <2>1, <2>2, <3>1, NumberBound
    <3> QED BY <1>4, <3>2
  <2>4. V1 + n = volume(A, B, e) + number(B, C - 2 * e, y, j, l)
    BY <1>3, <1>4, <2>3
  <2>5. Slab3(A, B, C, f, h, e, V1 + n, s, x, y, z)
    BY <1>2, <1>3, <2>1, <2>2, <2>4 DEF Slab3
  <2>6. V1 + n \in Nat /\ V1 + n < V1 + V2 + V3
    BY <2>3
  <2> QED BY <1>3, <1>4, <2>5, <2>6
<1>7. CASE z >= e /\ z < C - e /\ x >= f /\ x < A - f
  <2>1. PICK s \in {0, 1}, l \in Nat : l < h /\ y = l + Side(s, B - h)
    <3>1. y < h \/ y >= B - h
      BY <1>1, <1>7 DEF Frame3
    <3> QED BY <1>1, <1>2, <3>1, SideOf
  <2>2. PICK i \in Nat, j \in Nat : i < X /\ x = i + f /\ X # 0 /\ j < Z /\ z = j + e /\ Z # 0
    <3>1. x - f \in Nat /\ x - f < X /\ x = (x - f) + f /\ X # 0
      BY <1>1, <1>2, <1>3, <1>7
    <3>2. z - e \in Nat /\ z - e < Z /\ z = (z - e) + e /\ Z # 0
      BY <1>1, <1>2, <1>3, <1>7
    <3> QED BY <3>1, <3>2
  <2>3. PICK n \in Nat : n = number(X, Z, i, j, l) /\ n < V3
    <3>1. h \in Int /\ X \in Nat \ {0} /\ Z \in Nat \ {0}
      BY <1>1, <2>2
    <3>2. number(X, Z, i, j, l) \in Nat /\ number(X, Z, i, j, l) < volume(X, Z, h)
      BY <2>1, <2>2, <3>1, NumberBound
    <3> QED BY <1>4, <3>2
  <2>4. V1 + V2 + n = volume(A, B, e) + volume(B, C - 2 * e, f) + number(A - 2 * f, C - 2 * e, i, j, l)
    BY <1>3, <1>4, <2>3
  <2>5. Slab3(A, B, C, f, h, e, V1 + V2 + n, s, x, y, z)
    BY <1>3, <2>1, <2>2, <2>4 DEF Slab3
  <2>6. V1 + V2 + n \in Nat /\ V1 + V2 + n < V1 + V2 + V3
    BY <2>3
  <2> QED BY <1>3, <1>4, <2>5, <2>6
<1> QED BY <1>1, <1>5, <1>6, <1>7

\* A block processes one supercell.
LEMMA SlabOnce3 ==
    ASSUME NEW A, NEW B, NEW C, NEW f, NEW h, NEW e, Framed3(A, B, C, f, h, e),
           NEW k, NEW s \in {0, 1}, NEW x, NEW y, NEW z, NEW u, NEW v, NEW w,
           Slab3(A, B, C, f, h, e, k, s, x, y, z), Slab3(A, B, C, f, h, e, k, s, u, v, w)
    PROVE  x = u /\ y = v /\ z = w
<1>1. /\ A \in Nat \ {0} /\ f \in Nat \ {0} /\ A >= 2 * f /\ B \in Nat \ {0} /\ h \in Nat \ {0} /\ B >= 2 * h
      /\ C \in Nat \ {0} /\ e \in Nat \ {0} /\ C >= 2 * e
  BY DEF Framed3, Framed
<1>2. PICK X \in Nat, Z \in Nat : X = A - 2 * f /\ Z = C - 2 * e
  BY <1>1
<1>3. PICK V1 \in Nat, V2 \in Nat : V1 = volume(A, B, e) /\ V2 = volume(B, Z, f)
  BY <1>1, Volumes
<1> DEFINE P(a, b, c, i, j, l) == /\ k = number(A, B, i, j, l) /\ i < A /\ j < B /\ l < e
                                  /\ a = i /\ b = j /\ c = l + Side(s, C - e)
           Q(a, b, c, i, j, l) == /\ k = V1 + number(B, Z, i, j, l) /\ i < B /\ j < Z /\ l < f
                                  /\ a = l + Side(s, A - f) /\ b = i /\ c = j + e
           R(a, b, c, i, j, l) == /\ k = V1 + V2 + number(X, Z, i, j, l) /\ i < X /\ j < Z /\ l < h
                                  /\ a = i + f /\ b = l + Side(s, B - h) /\ c = j + e
<1>4. PICK i \in Nat, j \in Nat, l \in Nat : P(x, y, z, i, j, l) \/ Q(x, y, z, i, j, l) \/ R(x, y, z, i, j, l)
  BY <1>2, <1>3 DEF Slab3
<1>5. PICK o \in Nat, p \in Nat, q \in Nat : P(u, v, w, o, p, q) \/ Q(u, v, w, o, p, q) \/ R(u, v, w, o, p, q)
  BY <1>2, <1>3 DEF Slab3
<1>6. e \in Int /\ f \in Int /\ h \in Int
  BY <1>1
<1>7. ASSUME NEW a \in Nat, NEW b \in Nat, NEW c \in Nat, a < A, b < B, c < e
      PROVE  number(A, B, a, b, c) \in Nat /\ number(A, B, a, b, c) < V1
  <2>1. number(A, B, a, b, c) \in Nat /\ number(A, B, a, b, c) < volume(A, B, e)
    BY <1>1, <1>6, <1>7, NumberBound
  <2> QED BY <1>3, <2>1
<1>8. ASSUME NEW a \in Nat, NEW b \in Nat, NEW c \in Nat, a < B, b < Z, c < f
      PROVE  number(B, Z, a, b, c) \in Nat /\ number(B, Z, a, b, c) < V2
  <2>1. Z \in Nat \ {0}
    BY <1>8
  <2>2. number(B, Z, a, b, c) \in Nat /\ number(B, Z, a, b, c) < volume(B, Z, f)
    BY <1>1, <1>6, <1>8, <2>1, NumberBound
  <2> QED BY <1>3, <2>2
<1>9. ASSUME NEW a \in Nat, NEW b \in Nat, NEW c \in Nat, a < X, b < Z, c < h
      PROVE  number(X, Z, a, b, c) \in Nat
  <2>1. Z \in Nat \ {0} /\ X \in Nat \ {0}
    BY <1>9
  <2> QED BY <1>1, <1>6, <1>9, <2>1, NumberBound
<1>10. ASSUME NEW a, NEW b, NEW c, NEW t \in Nat, NEW n \in Nat, NEW d \in Nat
       PROVE  /\ P(a, b, c, t, n, d) => k < V1
              /\ Q(a, b, c, t, n, d) => V1 <= k /\ k < V1 + V2
              /\ R(a, b, c, t, n, d) => V1 + V2 <= k
  <2>1. ASSUME P(a, b, c, t, n, d) PROVE k < V1
    BY <1>7, <2>1
  <2>2. ASSUME Q(a, b, c, t, n, d) PROVE V1 <= k /\ k < V1 + V2
    <3>1. PICK j0 \in Nat : j0 = number(B, Z, t, n, d) /\ j0 < V2
      BY <1>8, <2>2
    <3> QED BY <2>2, <3>1
  <2>3. ASSUME R(a, b, c, t, n, d) PROVE V1 + V2 <= k
    <3>1. PICK j0 \in Nat : j0 = number(X, Z, t, n, d)
      BY <1>9, <2>3
    <3> QED BY <2>3, <3>1
  <2> QED BY <2>1, <2>2, <2>3
<1>11. /\ P(x, y, z, i, j, l) => k < V1
       /\ Q(x, y, z, i, j, l) => V1 <= k /\ k < V1 + V2
       /\ R(x, y, z, i, j, l) => V1 + V2 <= k
       /\ P(u, v, w, o, p, q) => k < V1
       /\ Q(u, v, w, o, p, q) => V1 <= k /\ k < V1 + V2
       /\ R(u, v, w, o, p, q) => V1 + V2 <= k
  BY <1>10
<1> HIDE DEF P, Q, R
<1>12. k \in Int
  <2>1. P(x, y, z, i, j, l) => k \in Int
    BY <1>7 DEF P
  <2>2. Q(x, y, z, i, j, l) => k \in Int
    <3>1. ASSUME Q(x, y, z, i, j, l) PROVE k \in Int
      <4>1. PICK j0 \in Nat : j0 = number(B, Z, i, j, l)
        BY <1>8, <3>1 DEF Q
      <4> QED BY <3>1, <4>1 DEF Q
    <3> QED BY <3>1
  <2>3. R(x, y, z, i, j, l) => k \in Int
    <3>1. ASSUME R(x, y, z, i, j, l) PROVE k \in Int
      <4>1. PICK j0 \in Nat : j0 = number(X, Z, i, j, l)
        BY <1>9, <3>1 DEF R
      <4> QED BY <3>1, <4>1 DEF R
    <3> QED BY <3>1
  <2> QED BY <1>4, <2>1, <2>2, <2>3
<1>13. \/ P(x, y, z, i, j, l) /\ P(u, v, w, o, p, q)
       \/ Q(x, y, z, i, j, l) /\ Q(u, v, w, o, p, q)
       \/ R(x, y, z, i, j, l) /\ R(u, v, w, o, p, q)
  BY <1>4, <1>5, <1>11, <1>12
<1>14. CASE P(x, y, z, i, j, l) /\ P(u, v, w, o, p, q)
  <2>1. i = o /\ j = p /\ l = q
    <3>1. SameNumber(A, B, i, j, l, o, p, q)
      BY <1>14 DEF P, SameNumber
    <3> QED BY <1>1, <3>1, NumberUnique
  <2> QED BY <1>14, <2>1 DEF P
<1>15. CASE Q(x, y, z, i, j, l) /\ Q(u, v, w, o, p, q)
  <2>1. Z \in Nat \ {0}
    BY <1>15 DEF Q
  <2>2. number(B, Z, i, j, l) = number(B, Z, o, p, q)
    <3>1. PICK a \in Nat, b \in Nat : a = number(B, Z, i, j, l) /\ b = number(B, Z, o, p, q)
      BY <1>8, <1>15 DEF Q
    <3>2. k = V1 + a /\ k = V1 + b
      BY <1>15, <3>1 DEF Q
    <3> QED BY <3>1, <3>2
  <2>3. i = o /\ j = p /\ l = q
    <3>1. SameNumber(B, Z, i, j, l, o, p, q)
      BY <1>15, <2>2 DEF Q, SameNumber
    <3> QED BY <1>1, <2>1, <3>1, NumberUnique
  <2> QED BY <1>15, <2>3 DEF Q
<1>16. CASE R(x, y, z, i, j, l) /\ R(u, v, w, o, p, q)
  <2>1. Z \in Nat \ {0} /\ X \in Nat \ {0}
    BY <1>16 DEF R
  <2>2. number(X, Z, i, j, l) = number(X, Z, o, p, q)
    <3>1. PICK a \in Nat, b \in Nat : a = number(X, Z, i, j, l) /\ b = number(X, Z, o, p, q)
      BY <1>9, <1>16 DEF R
    <3>2. k = V1 + V2 + a /\ k = V1 + V2 + b
      BY <1>16, <3>1 DEF R
    <3> QED BY <3>1, <3>2
  <2>3. i = o /\ j = p /\ l = q
    <3>1. SameNumber(X, Z, i, j, l, o, p, q)
      BY <1>16, <2>2 DEF R, SameNumber
    <3> QED BY <2>1, <3>1, NumberUnique
  <2> QED BY <1>16, <2>3 DEF R
<1> QED BY <1>13, <1>14, <1>15, <1>16

\* guardIndex3 by slabs.
LEMMA GuardSlabs3 ==
    ASSUME NEW G \in Vec(3), NEW g \in Vec(3), Framed3(G[1], G[2], G[3], g[1], g[2], g[3]),
           NEW b \in Blocks(guardDim3(G, g))
    PROVE  /\ b = <<b[1], b[2], 0>> /\ b[1] \in Nat /\ b[2] \in {0, 1}
           /\ \E x, y, z \in Int :
                 /\ guardIndex3(G, g, b) = <<x, y, z>>
                 /\ Slab3(G[1], G[2], G[3], g[1], g[2], g[3], b[1], b[2], x, y, z)
<1>1. PICK A \in Int, B \in Int, C \in Int, f \in Int, h \in Int, e \in Int :
          A = G[1] /\ B = G[2] /\ C = G[3] /\ f = g[1] /\ h = g[2] /\ e = g[3]
  BY Tuples
<1>2. /\ A \in Nat \ {0} /\ f \in Nat \ {0} /\ A >= 2 * f /\ B \in Nat \ {0} /\ h \in Nat \ {0} /\ B >= 2 * h
      /\ C \in Nat \ {0} /\ e \in Nat \ {0} /\ C >= 2 * e
  BY <1>1 DEF Framed3, Framed
<1>3. PICK X \in Nat, Z \in Nat : X = A - 2 * f /\ Z = C - 2 * e
  BY <1>2
<1>4. PICK V1 \in Nat, V2 \in Nat, V3 \in Nat : V1 = volume(A, B, e) /\ V2 = volume(B, Z, f) /\ V3 = volume(X, Z, h)
  BY <1>2, Volumes
<1>5. xyVolume(G, g) = V1 /\ z_yVolume(G, g) = V2 /\ (C - 2 * e) * (A - 2 * f) * h = V3
  <2>1. V1 = A * B * e /\ V2 = Z * B * f /\ V3 = Z * X * h
    BY <1>4 DEF volume
  <2> QED BY <1>1, <1>3, <2>1 DEF xyVolume, z_yVolume
<1>6. guardDim3(G, g) = <<V1 + V2 + V3, 2, 1>>
  BY <1>1, <1>5 DEF guardDim3
<1>7. /\ guardDim3(G, g) \in Vec(3) /\ guardDim3(G, g)[1] = V1 + V2 + V3
      /\ guardDim3(G, g)[2] = 2 /\ guardDim3(G, g)[3] = 1
  BY <1>6, Tuples
<1>8. b \in Vec(3) /\ \A d \in 1 .. 3 : 0 <= b[d] /\ b[d] < guardDim3(G, g)[d]
  BY <1>7, BlocksAre DEF Dim
<1>9. PICK k \in Nat, s \in {0, 1} : k = b[1] /\ s = b[2] /\ b = <<k, s, 0>> /\ k < V1 + V2 + V3
  <2>1. 1 \in 1 .. 3 /\ 2 \in 1 .. 3 /\ 3 \in 1 .. 3
    OBVIOUS
  <2>2. PICK k \in Int, s \in Int, t \in Int : k = b[1] /\ s = b[2] /\ t = b[3] /\ b = <<k, s, t>>
    BY <1>8, Tuples
  <2>3. 0 <= k /\ k < V1 + V2 + V3 /\ 0 <= s /\ s < 2 /\ 0 <= t /\ t < 1
    BY <1>7, <1>8, <2>1, <2>2
  <2>4. k \in Nat /\ s \in {0, 1} /\ t = 0
    BY <2>3
  <2> QED BY <2>2, <2>3, <2>4
<1>10. /\ s * (B - h) = Side(s, B - h) /\ s * (A - f) = Side(s, A - f) /\ s * (C - e) = Side(s, C - e)
       /\ Side(s, B - h) \in Int /\ Side(s, A - f) \in Int /\ Side(s, C - e) \in Int
  BY <1>2 DEF Side
<1>11. CASE k < V1
  <2>1. PICK i \in Nat, j \in Nat, l \in Nat :
            /\ i = k % A /\ j = (k \div A) % B /\ l = k \div (A * B)
            /\ i < A /\ j < B /\ l < e /\ k = number(A, B, i, j, l)
    <3>1. Divided(A, B, e, k)
      BY <1>2, <1>4, <1>11, NumberOf
    <3> QED BY <3>1 DEF Divided
  <2>2. k - V1 < 0
    BY <1>11
  <2>3. guardIndex3(G, g, b) = <<i, j, l + Side(s, C - e)>>
    BY <1>1, <1>5, <1>9, <1>10, <2>1, <2>2 DEF guardIndex3
  <2>4. Slab3(A, B, C, f, h, e, k, s, i, j, l + Side(s, C - e))
    BY <2>1 DEF Slab3
  <2>5. l + Side(s, C - e) \in Int
    BY <1>10
  <2> QED BY <1>1, <1>9, <2>3, <2>4, <2>5
<1>12. CASE V1 <= k /\ k < V1 + V2
  <2>1. PICK n \in Nat : n = k - V1 /\ k = V1 + n /\ n < V2 /\ ~ (n < 0) /\ n - V2 < 0
    <3>1. k - V1 \in Nat /\ k - V1 < V2 /\ k = V1 + (k - V1) /\ ~ (k - V1 < 0) /\ (k - V1) - V2 < 0
      BY <1>12
    <3> QED BY <3>1
  <2>2. Z \in Nat \ {0}
    BY <1>2, <1>4, <2>1, Volumes
  <2>3. PICK i \in Nat, j \in Nat, l \in Nat :
            /\ i = n % B /\ j = (n \div B) % Z /\ l = n \div (B * Z)
            /\ i < B /\ j < Z /\ l < f /\ n = number(B, Z, i, j, l)
    <3>1. Divided(B, Z, f, n)
      BY <1>2, <1>4, <2>1, <2>2, NumberOf
    <3> QED BY <3>1 DEF Divided
  <2>4. B * Z = Z * B
    OBVIOUS
  <2>5. guardIndex3(G, g, b) = <<l + Side(s, A - f), i, j + e>>
    BY <1>1, <1>3, <1>5, <1>9, <1>10, <2>1, <2>3, <2>4 DEF guardIndex3
  <2>6. Slab3(A, B, C, f, h, e, k, s, l + Side(s, A - f), i, j + e)
    BY <1>3, <1>4, <2>1, <2>3 DEF Slab3
  <2>7. l + Side(s, A - f) \in Int /\ j + e \in Int
    BY <1>10
  <2> QED BY <1>1, <1>9, <2>5, <2>6, <2>7
<1>13. CASE V1 + V2 <= k
  <2>1. PICK n \in Nat : n = (k - V1) - V2 /\ k = V1 + V2 + n /\ n < V3 /\ ~ (n < 0) /\ ~ (k - V1 < 0)
    <3>1. /\ (k - V1) - V2 \in Nat /\ (k - V1) - V2 < V3 /\ k = V1 + V2 + ((k - V1) - V2)
          /\ ~ ((k - V1) - V2 < 0) /\ ~ (k - V1 < 0)
      BY <1>9, <1>13
    <3> QED BY <3>1
  <2>2. Z \in Nat \ {0} /\ X \in Nat \ {0}
    BY <1>2, <1>4, <2>1, Volumes
  <2>3. PICK i \in Nat, j \in Nat, l \in Nat :
            /\ i = n % X /\ j = (n \div X) % Z /\ l = n \div (X * Z)
            /\ i < X /\ j < Z /\ l < h /\ n = number(X, Z, i, j, l)
    <3>1. Divided(X, Z, h, n)
      BY <1>2, <1>4, <2>1, <2>2, NumberOf
    <3> QED BY <3>1 DEF Divided
  <2>4. guardIndex3(G, g, b) = <<i + f, l + Side(s, B - h), j + e>>
    BY <1>1, <1>3, <1>5, <1>9, <1>10, <2>1, <2>3 DEF guardIndex3
  <2>5. Slab3(A, B, C, f, h, e, k, s, i + f, l + Side(s, B - h), j + e)
    BY <1>3, <1>4, <2>1, <2>3, ZenonT(60) DEF Slab3
  <2>6. i + f \in Int /\ l + Side(s, B - h) \in Int /\ j + e \in Int
    BY <1>10
  <2> QED BY <1>1, <1>9, <2>4, <2>5, <2>6
<1> QED BY <1>11, <1>12, <1>13

\* The unrolled frame in three dimensions.
LEMMA Unrolled3 ==
    ASSUME NEW G \in Vec(3), NEW g \in Vec(3), Framed3(G[1], G[2], G[3], g[1], g[2], g[3])
    PROVE  Exact(Blocks(guardDim3(G, g)), [b \in Blocks(guardDim3(G, g)) |-> guardIndex3(G, g, b)], FrameOf(3, G, g))
<1> DEFINE S == Blocks(guardDim3(G, g))
           idx == [b \in S |-> guardIndex3(G, g, b)]
           At(k, s, x, y, z) == Slab3(G[1], G[2], G[3], g[1], g[2], g[3], k, s, x, y, z)
<1>1. ASSUME NEW b \in S
      PROVE  /\ b = <<b[1], b[2], 0>> /\ b[1] \in Nat /\ b[2] \in {0, 1}
             /\ \E x, y, z \in Int : idx[b] = <<x, y, z>> /\ At(b[1], b[2], x, y, z)
  BY GuardSlabs3
<1>2. ASSUME NEW x \in Int, NEW y \in Int, NEW z \in Int
      PROVE  <<x, y, z>> \in FrameOf(3, G, g) <=> Frame3(G[1], G[2], G[3], g[1], g[2], g[3], x, y, z)
  <2>1. /\ <<x, y, z>> \in Vec(3) /\ <<x, y, z>>[1] = x /\ <<x, y, z>>[2] = y /\ <<x, y, z>>[3] = z
        /\ 1 .. 3 = {1, 2, 3}
    BY Tuples
  <2> QED BY <2>1 DEF FrameOf, Frame3
<1>3. ASSUME NEW c \in FrameOf(3, G, g) PROVE \E b \in S : idx[b] = c
  <2>1. PICK x \in Int, y \in Int, z \in Int : c = <<x, y, z>>
    BY Tuples DEF FrameOf
  <2>2. PICK A \in Int, B \in Int, C \in Int, f \in Int, h \in Int, e \in Int :
            A = G[1] /\ B = G[2] /\ C = G[3] /\ f = g[1] /\ h = g[2] /\ e = g[3]
    BY Tuples
  <2>3. Framed3(A, B, C, f, h, e) /\ Frame3(A, B, C, f, h, e, x, y, z)
    BY <1>2, <2>1, <2>2
  <2>4. PICK k \in Nat, s \in {0, 1} :
            /\ k < volume(A, B, e) + volume(B, C - 2 * e, f) + volume(A - 2 * f, C - 2 * e, h)
            /\ Slab3(A, B, C, f, h, e, k, s, x, y, z)
    BY <2>3, SlabsCover3
  <2>5. PICK L \in Int : L = volume(A, B, e) + volume(B, C - 2 * e, f) + volume(A - 2 * f, C - 2 * e, h)
    BY DEF volume
  <2>6. guardDim3(G, g) = <<L, 2, 1>>
    <3>1. L = A * B * e + (C - 2 * e) * B * f + (C - 2 * e) * (A - 2 * f) * h
      BY <2>5 DEF volume
    <3> QED BY <2>2, <3>1 DEF guardDim3, xyVolume, z_yVolume
  <2>7. /\ <<k, s, 0>> \in Vec(3) /\ <<k, s, 0>>[1] = k /\ <<k, s, 0>>[2] = s /\ <<k, s, 0>>[3] = 0
        /\ <<L, 2, 1>> \in Vec(3) /\ 1 .. 3 = {1, 2, 3}
    BY Tuples
  <2>8. <<k, s, 0>> \in Blocks(<<L, 2, 1>>)
    <3>1. \A d \in 1 .. 3 : 0 <= <<k, s, 0>>[d] /\ <<k, s, 0>>[d] < <<L, 2, 1>>[d]
      BY <2>4, <2>5, <2>7
    <3> QED BY <2>7, <3>1, BlocksAre DEF Dim
  <2>9. PICK u \in Int, v \in Int, w \in Int :
            idx[<<k, s, 0>>] = <<u, v, w>> /\ Slab3(A, B, C, f, h, e, k, s, u, v, w)
    BY <1>1, <2>2, <2>6, <2>7, <2>8
  <2>10. x = u /\ y = v /\ z = w
    BY <2>3, <2>4, <2>9, SlabOnce3
  <2> QED BY <2>1, <2>6, <2>8, <2>9, <2>10
<1>4. ASSUME NEW a \in S, NEW b \in S, idx[a] = idx[b] PROVE a = b
  <2>1. PICK x \in Int, y \in Int, z \in Int : idx[a] = <<x, y, z>> /\ At(a[1], a[2], x, y, z)
    BY <1>1
  <2>2. PICK u \in Int, v \in Int, w \in Int : idx[b] = <<u, v, w>> /\ At(b[1], b[2], u, v, w)
    BY <1>1
  <2> HIDE DEF idx
  <2>3. u = x /\ v = y /\ w = z
    <3>1. <<x, y, z>> = <<u, v, w>>
      BY <1>4, <2>1, <2>2
    <3> QED BY ONLY <3>1
  <2>4. a[1] = b[1] /\ a[2] = b[2]
    BY <1>1, <2>1, <2>2, <2>3, SlabsApart3
  <2> HIDE DEF S
  <2> QED BY <1>1, <2>4
<1>5. ASSUME NEW b \in S PROVE idx[b] \in FrameOf(3, G, g)
  <2>1. PICK x \in Int, y \in Int, z \in Int : idx[b] = <<x, y, z>> /\ At(b[1], b[2], x, y, z) /\ b[2] \in {0, 1}
    BY <1>1
  <2>2. Frame3(G[1], G[2], G[3], g[1], g[2], g[3], x, y, z)
    BY <2>1, SlabsApart3
  <2> HIDE DEF idx
  <2> QED BY <1>2, <2>1, <2>2
<1> HIDE DEF idx, S
<1>6. Exact(S, idx, FrameOf(3, G, g))
  BY <1>3, <1>4, <1>5 DEF Exact
<1> QED BY <1>6 DEF idx, S

\* The unrolled frame: every supercell of it has one block.
LEMMA Unrolled ==
    ASSUME NEW n \in Dim, NEW G \in Vec(n), NEW g \in Vec(n), \A d \in 1 .. n : Framed(G[d], g[d])
    PROVE  Exact(Blocks(guardDim(G, g)), [b \in Blocks(guardDim(G, g)) |-> guardIndex(G, g, b)], FrameOf(n, G, g))
<1>1. CASE n = 2
  <2>1. G \in Vec(2) /\ g \in Vec(2) /\ Len(G) = 2 /\ Framed(G[1], g[1]) /\ Framed(G[2], g[2])
    <3>1. 1 \in 1 .. 2 /\ 2 \in 1 .. 2
      OBVIOUS
    <3> QED BY <1>1, <3>1, VecDims
  <2>2. Exact(Blocks(guardDim2(G, g)), [b \in Blocks(guardDim2(G, g)) |-> guardIndex2(G, g, b)], FrameOf(2, G, g))
    BY <2>1, Unrolled2
  <2> QED BY <1>1, <2>1, <2>2 DEF guardDim, guardIndex
<1>2. CASE n = 3
  <2>1. G \in Vec(3) /\ g \in Vec(3) /\ Len(G) = 3 /\ Framed3(G[1], G[2], G[3], g[1], g[2], g[3])
    <3>1. 1 \in 1 .. 3 /\ 2 \in 1 .. 3 /\ 3 \in 1 .. 3
      OBVIOUS
    <3> QED BY <1>2, <3>1, VecDims DEF Framed3
  <2>2. Exact(Blocks(guardDim3(G, g)), [b \in Blocks(guardDim3(G, g)) |-> guardIndex3(G, g, b)], FrameOf(3, G, g))
    BY <2>1, Unrolled3
  <2> QED BY <1>2, <2>1, <2>2 DEF guardDim, guardIndex
<1> QED BY <1>1, <1>2 DEF Dim

\* The guard.
LEMMA GuardCounts ==
    ASSUME SetupInv, mapper.kind = "area", mapper.area = GUARD
    PROVE  CountOnce
<1>1. Dims \in Dim /\ m.grid \in Vec(Dims) /\ m.guard \in Vec(Dims)
  BY Accepted
<1>2. \A d \in 1 .. Dims : Framed(m.grid[d], m.guard[d])
  BY Accepted DEF Framed
<1>3. blocks = Blocks(guardDim(m.grid, m.guard))
  BY DEF blocks, gridDim, strided, areaGridDim, ALL, CORE, BORDER, GUARD, CORE_BORDER
<1>4. Index = [b \in Blocks(guardDim(m.grid, m.guard)) |-> guardIndex(m.grid, m.guard, b)]
  BY <1>3 DEF Index, getSuperCellIndex, areaIndex, ALL, CORE, BORDER, GUARD, CORE_BORDER
<1>5. Exact(blocks, Index, FrameOf(Dims, m.grid, m.guard))
  BY <1>1, <1>2, <1>3, <1>4, Unrolled
<1>6. ASSUME NEW c \in Blocks(m.grid) PROVE c \in FrameOf(Dims, m.grid, m.guard) <=> expected(c)
  <2>1. c \in Vec(Dims) /\ dims(c) = 1 .. Dims /\ \A d \in 1 .. Dims : c[d] \in Int /\ 0 <= c[d] /\ c[d] < m.grid[d]
    BY Supercells
  <2>2. expected(c) <=> \E d \in 1 .. Dims : ~ within(c, d, 1)
    BY <2>1 DEF expected, inArea, ALL, CORE, BORDER, GUARD, CORE_BORDER
  <2>3. ASSUME NEW d \in 1 .. Dims
        PROVE  ~ within(c, d, 1) <=> c[d] < m.guard[d] \/ c[d] >= m.grid[d] - m.guard[d]
    <3>1. PICK x \in Int, g \in Nat, G \in Nat : x = c[d] /\ g = m.guard[d] /\ G = m.grid[d]
      BY <2>1, Accepted
    <3>2. within(c, d, 1) <=> g <= x /\ x < G - g
      BY <3>1, Layers
    <3>3. ~ within(c, d, 1) <=> x < g \/ x >= G - g
      BY <3>2
    <3> QED BY <3>1, <3>3
  <2> QED BY <2>1, <2>2, <2>3 DEF FrameOf
<1> QED BY <1>5, <1>6, CountFromExact

\* Indices moved by a vector meet what they met, moved.
LEMMA MovedIndices ==
    ASSUME NEW n \in Nat, NEW B, NEW idx, NEW E, E \subseteq Vec(n), Exact(B, idx, E), NEW o \in Vec(n), NEW moved,
           \A b \in B : moved[b] = plus(idx[b], o)
    PROVE  Exact(B, moved, {c \in Vec(n) : minus(c, o) \in E})
<1> DEFINE F == {c \in Vec(n) : minus(c, o) \in E}
<1>1. \A d \in 1 .. n : o[d] \in Int
  BY DEF Vec
<1>2. ASSUME NEW b \in B PROVE moved[b] \in Vec(n) /\ minus(moved[b], o) = idx[b]
  <2>1. idx[b] \in Vec(n)
    BY DEF Exact
  <2>2. moved[b] \in Vec(n) /\ \A d \in 1 .. n : moved[b][d] = idx[b][d] + o[d]
    BY <2>1, PlusVec
  <2>3. minus(moved[b], o) \in Vec(n) /\ \A d \in 1 .. n : minus(moved[b], o)[d] = moved[b][d] - o[d]
    BY <2>2, MinusVec
  <2>4. \A d \in 1 .. n : idx[b][d] \in Int
    BY <2>1 DEF Vec
  <2>5. \A d \in 1 .. n : minus(moved[b], o)[d] = idx[b][d]
    BY <1>1, <2>2, <2>3, <2>4
  <2> QED BY <2>1, <2>2, <2>3, <2>5, VecEqual
<1>3. ASSUME NEW c \in F PROVE \E b \in B : moved[b] = c
  <2>1. PICK b \in B : idx[b] = minus(c, o)
    BY DEF Exact
  <2>2. minus(c, o) \in Vec(n) /\ \A d \in 1 .. n : minus(c, o)[d] = c[d] - o[d]
    BY MinusVec
  <2>3. moved[b] \in Vec(n) /\ \A d \in 1 .. n : moved[b][d] = minus(c, o)[d] + o[d]
    BY <2>1, <2>2, PlusVec
  <2>4. \A d \in 1 .. n : c[d] \in Int
    BY DEF Vec
  <2>5. \A d \in 1 .. n : moved[b][d] = c[d]
    BY <1>1, <2>2, <2>3, <2>4
  <2>6. moved[b] = c
    BY <2>3, <2>5, VecEqual
  <2> QED BY <2>6
<1>4. \A a, b \in B : moved[a] = moved[b] => a = b
  BY <1>2 DEF Exact
<1>5. \A b \in B : moved[b] \in F
  BY <1>2 DEF Exact
<1> HIDE DEF F
<1>6. Exact(B, moved, F)
  BY <1>3, <1>4, <1>5 DEF Exact
<1> QED BY <1>6 DEF F

\* The border.
LEMMA BorderAreaCounts ==
    ASSUME SetupInv, layersFit, mapper.kind = "area", mapper.area = BORDER
    PROVE  CountOnce
<1>1. Dims \in Dim /\ Dims \in Nat /\ m.grid \in Vec(Dims) /\ m.guard \in Vec(Dims)
  BY Accepted
<1> DEFINE G == withoutGuard(m)
<1>2. G \in Vec(Dims) /\ \A d \in 1 .. Dims : G[d] = m.grid[d] - 2 * m.guard[d]
  BY Extents
<1>3. \A d \in 1 .. Dims : m.grid[d] \in Nat /\ m.guard[d] \in Nat /\ m.guard[d] >= 1 /\ m.grid[d] >= 4 * m.guard[d]
  BY Accepted DEF layersFit, roomForBorder
<1>4. blocks = Blocks(guardDim(G, m.guard))
  BY DEF blocks, gridDim, strided, areaGridDim, ALL, CORE, BORDER, GUARD, CORE_BORDER
<1>5. \A b \in blocks : getSuperCellIndex(b) = plus(guardIndex(G, m.guard, b), m.guard)
  BY DEF getSuperCellIndex, areaIndex, ALL, CORE, BORDER, GUARD, CORE_BORDER
<1> HIDE DEF G
<1>6. \A d \in 1 .. Dims : Framed(G[d], m.guard[d])
  BY <1>2, <1>3 DEF Framed
<1> DEFINE idx == [b \in Blocks(guardDim(G, m.guard)) |-> guardIndex(G, m.guard, b)]
           E == FrameOf(Dims, G, m.guard)
<1>7. Exact(blocks, idx, E)
  BY <1>1, <1>2, <1>4, <1>6, Unrolled
<1>8. \A b \in blocks : Index[b] = plus(idx[b], m.guard)
  BY <1>4, <1>5 DEF Index
<1>9. E \subseteq Vec(Dims)
  BY DEF FrameOf
<1> HIDE DEF idx, E
<1>10. Exact(blocks, Index, {c \in Vec(Dims) : minus(c, m.guard) \in E})
  BY <1>1, <1>7, <1>8, <1>9, MovedIndices
<1>11. ASSUME NEW c \in Blocks(m.grid)
       PROVE  c \in {v \in Vec(Dims) : minus(v, m.guard) \in E} <=> expected(c)
  <2>1. c \in Vec(Dims) /\ dims(c) = 1 .. Dims /\ \A d \in 1 .. Dims : c[d] \in Int /\ 0 <= c[d] /\ c[d] < m.grid[d]
    BY Supercells
  <2>2. expected(c) <=> /\ \A d \in 1 .. Dims : within(c, d, 1)
                        /\ \E d \in 1 .. Dims : ~ within(c, d, 2)
    BY <2>1 DEF expected, inArea, ALL, CORE, BORDER, GUARD, CORE_BORDER
  <2> DEFINE v == minus(c, m.guard)
  <2>3. v \in Vec(Dims) /\ \A d \in 1 .. Dims : v[d] = c[d] - m.guard[d]
    BY <1>1, <2>1, MinusVec
  <2> HIDE DEF v
  <2>4. ASSUME NEW d \in 1 .. Dims
        PROVE  /\ within(c, d, 1) <=> 0 <= v[d] /\ v[d] < G[d]
               /\ ~ within(c, d, 2) <=> v[d] < m.guard[d] \/ v[d] >= G[d] - m.guard[d]
    <3>1. PICK x \in Int, g \in Nat, H \in Nat : x = c[d] /\ g = m.guard[d] /\ H = m.grid[d]
      BY <1>3, <2>1
    <3>2. v[d] = x - g /\ G[d] = H - 2 * g
      BY <1>2, <2>3, <3>1
    <3>3. (within(c, d, 1) <=> g <= x /\ x < H - g) /\ (within(c, d, 2) <=> 2 * g <= x /\ x < H - 2 * g)
      BY <3>1, Layers
    <3>4. within(c, d, 1) <=> 0 <= x - g /\ x - g < H - 2 * g
      BY <3>3
    <3>5. ~ within(c, d, 2) <=> x - g < g \/ x - g >= H - 2 * g - g
      BY <3>3
    <3> QED BY <3>1, <3>2, <3>4, <3>5
  <2>5. v \in E <=> expected(c)
    BY <2>2, <2>3, <2>4 DEF E, FrameOf
  <2> QED BY <2>1, <2>5 DEF v
<1> QED BY <1>10, <1>11, CountFromExact

\* A mapper with one launch processes every supercell of its area once.
LEMMA LaunchCounts ==
    ASSUME SetupInv, layersFit, ~ strided
    PROVE  CountOnce
<1>1. CASE mapper.kind = "area"
  <2>1. mapper.area \in {CORE, BORDER, GUARD, CORE_BORDER, ALL}
    BY <1>1, MapperFields
  <2> QED BY <1>1, <2>1, BoxAreasCount, GuardCounts, BorderAreaCounts
<1>2. mapper.kind \in {"area", "exchange", "border", "interval", "range"}
  BY MapperFields DEF strided
<1> QED BY <1>1, <1>2, ExchangeCounts, BorderCounts, IntervalCounts, RangeCounts

-----------------------------------------------------------------------------
(* Strides.                                                                *)

\* The first supercell a strided mapper walks over.
Begin == IF mapper.kind = "stride" THEN strideShift(mapper.area, m) ELSE mapper.first

\* A strided mapper walks over a box.
LEMMA StrideBox ==
    ASSUME SetupInv, strided
    PROVE  /\ walked \in Vec(Dims) /\ Begin \in Vec(Dims) /\ mapper.stride \in Nat \ {0}
           /\ \A c \in Blocks(m.grid) : expected(c) <=>
                 \A d \in 1 .. Dims : Begin[d] <= c[d] /\ c[d] < Begin[d] + walked[d]
<1>1. mapper.stride \in Nat \ {0}
  BY MapperFields
<1>2. Dims \in Nat /\ m.grid \in Vec(Dims) /\ m.guard \in Vec(Dims) /\ Dims \in Dim /\ dims(m.grid) = 1 .. Dims
  BY Accepted
<1>3. \A d \in 1 .. Dims : m.grid[d] \in Nat /\ m.guard[d] \in Nat /\ m.grid[d] >= 2 * m.guard[d] + 1
  BY Accepted
<1>4. /\ withoutGuard(m) \in Vec(Dims)
      /\ \A d \in 1 .. Dims : withoutGuard(m)[d] = m.grid[d] - 2 * m.guard[d]
      /\ minus(m.grid, times(4, m.guard)) \in Vec(Dims)
      /\ \A d \in 1 .. Dims : minus(m.grid, times(4, m.guard))[d] = m.grid[d] - 4 * m.guard[d]
  BY Extents
<1>5. times(2, m.guard) \in Vec(Dims) /\ \A d \in 1 .. Dims : times(2, m.guard)[d] = 2 * m.guard[d]
  <2>1. Dims \in Nat /\ m.guard \in Vec(Dims)
    BY <1>2
  <2> QED BY <2>1, TimesVec
<1>6. CASE mapper.kind = "strideInterval"
  <2>1. walked = mapper.num /\ Begin = mapper.first
    BY <1>6 DEF walked, Begin
  <2>2. mapper.first \in Vec(Dims) /\ mapper.num \in Vec(Dims)
    BY <1>6, MapperFields
  <2>3. ASSUME NEW c \in Blocks(m.grid)
        PROVE  expected(c) <=> \A d \in 1 .. Dims : /\ mapper.first[d] <= c[d]
                                                    /\ c[d] < mapper.first[d] + mapper.num[d]
    <3>1. dims(c) = 1 .. Dims /\ \A d \in 1 .. Dims : c[d] \in Int /\ mapper.first[d] \in Int
      BY <2>2, Supercells DEF Vec
    <3>2. expected(c) <=> \A d \in 1 .. Dims : /\ c[d] >= mapper.first[d]
                                               /\ c[d] < mapper.first[d] + mapper.num[d]
      BY <1>6, <3>1 DEF expected
    <3> QED BY <3>1, <3>2
  <2> QED BY <1>1, <2>1, <2>2, <2>3
<1>7. CASE mapper.kind = "stride" /\ mapper.area = ALL
  <2>1. walked = m.grid /\ Begin = same(m.grid, 0)
    BY <1>7 DEF walked, Begin, strideExtent, strideShift, ALL, CORE, CORE_BORDER
  <2>2. same(m.grid, 0) \in Vec(Dims) /\ \A d \in 1 .. Dims : same(m.grid, 0)[d] = 0
    BY <1>2, SameVec
  <2>3. \A c \in Blocks(m.grid) : expected(c)
    BY <1>7 DEF expected, inArea, ALL, CORE, BORDER, GUARD, CORE_BORDER
  <2>4. \A c \in Blocks(m.grid) : \A d \in 1 .. Dims :
            same(m.grid, 0)[d] <= c[d] /\ c[d] < same(m.grid, 0)[d] + m.grid[d]
    BY <1>3, <2>2, Supercells
  <2> QED BY <1>1, <1>2, <2>1, <2>2, <2>3, <2>4
<1>8. CASE mapper.kind = "stride" /\ mapper.area = CORE
  <2> DEFINE e == minus(m.grid, times(4, m.guard))
             o == times(2, m.guard)
  <2>1. walked = e /\ Begin = o
    BY <1>8 DEF walked, Begin, strideExtent, strideShift, ALL, CORE, CORE_BORDER
  <2> HIDE DEF e, o
  <2>2. e \in Vec(Dims) /\ o \in Vec(Dims) /\ \A d \in 1 .. Dims : e[d] = m.grid[d] - 4 * m.guard[d] /\ o[d] = 2 * m.guard[d]
    BY <1>4, <1>5 DEF e, o
  <2>3. ASSUME NEW c \in Blocks(m.grid)
        PROVE  expected(c) <=> \A d \in 1 .. Dims : o[d] <= c[d] /\ c[d] < o[d] + e[d]
    <3>1. dims(c) = 1 .. Dims
      BY Supercells
    <3>2. expected(c) <=> \A d \in 1 .. Dims : within(c, d, 2)
      BY <1>8, <3>1 DEF expected, inArea, ALL, CORE, BORDER, GUARD, CORE_BORDER
    <3>3. ASSUME NEW d \in 1 .. Dims
          PROVE  within(c, d, 2) <=> o[d] <= c[d] /\ c[d] < o[d] + e[d]
      <4>1. PICK x \in Int, g \in Nat, G \in Nat : x = c[d] /\ g = m.guard[d] /\ G = m.grid[d]
        BY <1>3, Supercells
      <4>2. within(c, d, 2) <=> 2 * g <= x /\ x < G - 2 * g
        BY <4>1, Layers
      <4>3. o[d] = 2 * g /\ e[d] = G - 4 * g
        BY <2>2, <4>1
      <4> QED BY <4>1, <4>2, <4>3
    <3> QED BY <3>2, <3>3
  <2> QED BY <1>1, <2>1, <2>2, <2>3
<1>9. CASE mapper.kind = "stride" /\ mapper.area = CORE_BORDER
  <2> DEFINE e == withoutGuard(m)
             o == m.guard
  <2>1. walked = e /\ Begin = o
    BY <1>9 DEF walked, Begin, strideExtent, strideShift, withoutGuard, ALL, CORE, CORE_BORDER
  <2> HIDE DEF e, o
  <2>2. e \in Vec(Dims) /\ o \in Vec(Dims) /\ \A d \in 1 .. Dims : e[d] = m.grid[d] - 2 * m.guard[d] /\ o[d] = m.guard[d]
    BY <1>2, <1>4 DEF e, o
  <2>3. ASSUME NEW c \in Blocks(m.grid)
        PROVE  expected(c) <=> \A d \in 1 .. Dims : o[d] <= c[d] /\ c[d] < o[d] + e[d]
    <3>1. dims(c) = 1 .. Dims
      BY Supercells
    <3>2. expected(c) <=> \A d \in 1 .. Dims : within(c, d, 1)
      BY <1>9, <3>1 DEF expected, inArea, ALL, CORE, BORDER, GUARD, CORE_BORDER
    <3>3. ASSUME NEW d \in 1 .. Dims
          PROVE  within(c, d, 1) <=> o[d] <= c[d] /\ c[d] < o[d] + e[d]
      <4>1. PICK x \in Int, g \in Nat, G \in Nat : x = c[d] /\ g = m.guard[d] /\ G = m.grid[d]
        BY <1>3, Supercells
      <4>2. within(c, d, 1) <=> g <= x /\ x < G - g
        BY <4>1, Layers
      <4>3. o[d] = g /\ e[d] = G - 2 * g
        BY <2>2, <4>1
      <4> QED BY <4>1, <4>2, <4>3
    <3> QED BY <3>2, <3>3
  <2> QED BY <1>1, <2>1, <2>2, <2>3
<1>10. mapper.kind = "stride" => mapper.area \in {CORE, CORE_BORDER, ALL}
  BY MapperFields
<1> QED BY <1>6, <1>7, <1>8, <1>9, <1>10 DEF strided

\* Rounding up: the blocks of a launch with stride s.
LEMMA CeilDiv ==
    ASSUME NEW s \in Nat \ {0}, NEW x \in Int, NEW b \in Int
    PROVE  b < (x + s - 1) \div s <=> b * s < x
<1>1. PICK q \in Int, t \in Int : q = (x + s - 1) \div s /\ x + s - 1 = q * s + t /\ 0 <= t /\ t < s
  <2>1. PICK y \in Int : y = x + s - 1
    OBVIOUS
  <2>2. y \div s \in Int /\ y % s \in Int /\ y = (y \div s) * s + (y % s) /\ 0 <= y % s /\ y % s < s
    OBVIOUS
  <2> QED BY <2>1, <2>2
<1>2. ASSUME b < q PROVE b * s < x
  <2>1. (q - 1 - b) * s >= 0
    BY <1>2
  <2>2. b * s <= q * s - s
    BY <2>1
  <2> QED BY <1>1, <2>2
<1>3. ASSUME ~ (b < q) PROVE ~ (b * s < x)
  <2>1. (b - q) * s >= 0
    BY <1>3
  <2>2. b * s >= q * s
    BY <2>1
  <2> QED BY <1>1, <2>2
<1> QED BY <1>1, <1>2, <1>3

\* A coordinate with its residue.
LEMMA Residue ==
    ASSUME NEW s \in Nat \ {0}, NEW x \in Int, NEW o \in Int, 0 <= o, o < s
    PROVE  /\ x % s \in Int /\ 0 <= x % s /\ x % s < s /\ x \div s \in Int
           /\ x = (x \div s) * s + (x % s)
           /\ \A b \in Int : x = b * s + o => x % s = o /\ x \div s = b
<1>1. x \div s \in Int /\ x % s \in Int /\ x = (x \div s) * s + (x % s) /\ 0 <= x % s /\ x % s < s
  OBVIOUS
<1>2. ASSUME NEW b \in Int, x = b * s + o PROVE x % s = o /\ x \div s = b
  <2>1. PICK q \in Int, r \in Int : q = x \div s /\ r = x % s /\ x = q * s + r /\ 0 <= r /\ r < s
    BY <1>1
  <2>2. (q - b) * s = o - r
    BY <1>2, <2>1
  <2>3. q - b = 0
    <3>1. CASE q - b >= 1
      <4>1. (q - b) * s >= s
        BY <3>1
      <4> QED BY <2>1, <2>2, <4>1
    <3>2. CASE q - b <= -1
      <4>1. (b - q) * s >= s
        BY <3>2
      <4> QED BY <2>1, <2>2, <4>1
    <3> QED BY <3>1, <3>2
  <2>4. 0 * s = 0
    OBVIOUS
  <2> QED BY <2>1, <2>2, <2>3, <2>4
<1> QED BY <1>1, <1>2

\* The offsets of a stride.
LEMMA OffsetsAre ==
    ASSUME NEW n \in Dim, NEW e \in Vec(n), NEW s \in Nat \ {0}
    PROVE  /\ same(e, s) \in Extent(n)
           /\ \A o : o \in Blocks(same(e, s)) <=> o \in Vec(n) /\ \A d \in 1 .. n : 0 <= o[d] /\ o[d] < s
<1>1. n \in Nat /\ s \in Int
  BY DEF Dim
<1>2. same(e, s) \in Vec(n) /\ \A d \in 1 .. n : same(e, s)[d] = s
  BY <1>1, SameVec
<1>3. same(e, s) \in Extent(n)
  BY <1>2 DEF Extent
<1>4. \A o : o \in Blocks(same(e, s)) <=> o \in Vec(n) /\ \A d \in 1 .. n : 0 <= o[d] /\ o[d] < same(e, s)[d]
  BY <1>2, BlocksAre
<1> QED BY <1>2, <1>3, <1>4

\* The blocks of a launch at offset o.
LEMMA StrideBlocks ==
    ASSUME NEW n \in Dim, NEW e \in Vec(n), NEW s \in Nat \ {0}, NEW o \in Vec(n)
    PROVE  /\ strideGridDim(e, s, o) \in Vec(n)
           /\ \A b : b \in Blocks(strideGridDim(e, s, o)) <=>
                 b \in Vec(n) /\ \A d \in 1 .. n : 0 <= b[d] /\ b[d] * s + o[d] < e[d]
<1>1. n \in Nat /\ dims(e) = 1 .. n /\ \A d \in 1 .. n : e[d] \in Int /\ o[d] \in Int
  <2>1. n \in Nat
    BY DEF Dim
  <2> QED BY <2>1, VecDims
<1> DEFINE D == strideGridDim(e, s, o)
<1>2. ASSUME NEW d \in 1 .. n
      PROVE  /\ (e[d] - o[d] + s - 1) \div s \in Int
             /\ \A b \in Int : b < (e[d] - o[d] + s - 1) \div s <=> b * s + o[d] < e[d]
  <2>1. PICK x \in Int, y \in Int : x = e[d] /\ y = o[d]
    BY <1>1
  <2>2. PICK z \in Int : z = x - y
    OBVIOUS
  <2>3. ASSUME NEW b \in Int PROVE b < (z + s - 1) \div s <=> b * s + y < x
    <3>1. b < (z + s - 1) \div s <=> b * s < z
      BY CeilDiv
    <3>2. PICK w \in Int : w = b * s
      OBVIOUS
    <3>3. w < z <=> w + y < x
      BY <2>2
    <3> QED BY <3>1, <3>2, <3>3
  <2>4. (z + s - 1) \div s \in Int
    OBVIOUS
  <2> QED BY <2>1, <2>2, <2>3, <2>4
<1>3. D = [d \in 1 .. n |-> (e[d] - o[d] + s - 1) \div s]
  BY <1>1 DEF strideGridDim
<1>4. D \in Vec(n) /\ \A d \in 1 .. n : D[d] = (e[d] - o[d] + s - 1) \div s
  BY <1>2, <1>3 DEF Vec
<1> HIDE DEF D
<1>5. \A b : b \in Blocks(D) <=> b \in Vec(n) /\ \A d \in 1 .. n : 0 <= b[d] /\ b[d] < D[d]
  BY <1>4, BlocksAre
<1>6. \A b \in Vec(n) : \A d \in 1 .. n : b[d] < D[d] <=> b[d] * s + o[d] < e[d]
  <2>1. ASSUME NEW b \in Vec(n), NEW d \in 1 .. n PROVE b[d] < D[d] <=> b[d] * s + o[d] < e[d]
    <3>1. b[d] \in Int
      BY DEF Vec
    <3> QED BY <1>2, <1>4, <3>1
  <2> QED BY <2>1
<1>7. \A b : b \in Blocks(D) <=> b \in Vec(n) /\ \A d \in 1 .. n : 0 <= b[d] /\ b[d] * s + o[d] < e[d]
  BY <1>5, <1>6
<1> QED BY <1>4, <1>7 DEF D

\* The supercell of a block.
LEMMA StrideIndexIs ==
    ASSUME NEW n \in Nat, NEW s \in Nat \ {0}, NEW o \in Vec(n), NEW beg \in Vec(n), NEW b \in Vec(n)
    PROVE  /\ strideIndex(beg, s, o, b) \in Vec(n)
           /\ \A d \in 1 .. n : strideIndex(beg, s, o, b)[d] = b[d] * s + o[d] + beg[d]
<1>1. s \in Int
  OBVIOUS
<1>2. times(s, b) \in Vec(n) /\ \A d \in 1 .. n : times(s, b)[d] = s * b[d]
  BY <1>1, TimesVec
<1>3. /\ plus(times(s, b), o) \in Vec(n)
      /\ \A d \in 1 .. n : plus(times(s, b), o)[d] = times(s, b)[d] + o[d]
  BY <1>2, PlusVec
<1>4. /\ strideIndex(beg, s, o, b) \in Vec(n)
      /\ \A d \in 1 .. n : strideIndex(beg, s, o, b)[d] = plus(times(s, b), o)[d] + beg[d]
  BY <1>3, PlusVec DEF strideIndex
<1>5. ASSUME NEW d \in 1 .. n PROVE strideIndex(beg, s, o, b)[d] = b[d] * s + o[d] + beg[d]
  <2>1. PICK x \in Int : x = b[d]
    BY DEF Vec
  <2>2. s * x = x * s
    OBVIOUS
  <2> QED BY <1>2, <1>3, <1>4, <2>1, <2>2
<1> QED BY <1>4, <1>5

\* Where a supercell lies relative to the stride.
residue(c, beg, s) == [d \in dims(c) |-> (c[d] - beg[d]) % s]

LaunchBox(n, e, s, o, beg) ==
    {c \in Vec(n) : /\ \A d \in 1 .. n : beg[d] <= c[d] /\ c[d] < beg[d] + e[d]
                    /\ residue(c, beg, s) = o}

\* The residue of a supercell is an offset.
LEMMA ResidueOffset ==
    ASSUME NEW n \in Dim, NEW e \in Vec(n), NEW s \in Nat \ {0}, NEW beg \in Vec(n), NEW c \in Vec(n)
    PROVE  /\ residue(c, beg, s) \in Blocks(same(e, s))
           /\ \A d \in 1 .. n : residue(c, beg, s)[d] = (c[d] - beg[d]) % s
<1>1. n \in Nat /\ dims(c) = 1 .. n /\ \A d \in 1 .. n : c[d] \in Int /\ beg[d] \in Int
  <2>1. n \in Nat
    BY DEF Dim
  <2> QED BY <2>1, VecDims
<1>2. ASSUME NEW d \in 1 .. n
      PROVE  (c[d] - beg[d]) % s \in Int /\ 0 <= (c[d] - beg[d]) % s /\ (c[d] - beg[d]) % s < s
  <2>1. PICK x \in Int : x = c[d] - beg[d]
    BY <1>1
  <2>2. x % s \in Int /\ 0 <= x % s /\ x % s < s
    OBVIOUS
  <2> QED BY <2>1, <2>2
<1>3. residue(c, beg, s) = [d \in 1 .. n |-> (c[d] - beg[d]) % s]
  BY <1>1 DEF residue
<1>4. residue(c, beg, s) \in Vec(n) /\ \A d \in 1 .. n : residue(c, beg, s)[d] = (c[d] - beg[d]) % s
  BY <1>2, <1>3 DEF Vec
<1>5. \A d \in 1 .. n : 0 <= residue(c, beg, s)[d] /\ residue(c, beg, s)[d] < s
  BY <1>2, <1>4
<1> QED BY <1>4, <1>5, OffsetsAre

\* A launch at offset o meets the supercells with that residue, each once.
LEMMA StrideExact ==
    ASSUME NEW n \in Dim, NEW e \in Vec(n), NEW s \in Nat \ {0}, NEW o \in Blocks(same(e, s)), NEW beg \in Vec(n),
           NEW idx, \A b \in Blocks(strideGridDim(e, s, o)) : idx[b] = strideIndex(beg, s, o, b)
    PROVE  Exact(Blocks(strideGridDim(e, s, o)), idx, LaunchBox(n, e, s, o, beg))
<1> DEFINE S == Blocks(strideGridDim(e, s, o))
<1>1. n \in Nat /\ o \in Vec(n) /\ \A d \in 1 .. n : 0 <= o[d] /\ o[d] < s /\ o[d] \in Int /\ beg[d] \in Int /\ e[d] \in Int
  <2>1. n \in Nat
    BY DEF Dim
  <2>2. o \in Vec(n) /\ \A d \in 1 .. n : 0 <= o[d] /\ o[d] < s
    BY OffsetsAre
  <2>3. \A d \in 1 .. n : o[d] \in Int /\ beg[d] \in Int /\ e[d] \in Int
    BY <2>2 DEF Vec
  <2> QED BY <2>1, <2>2, <2>3
<1>2. \A b : b \in S <=> b \in Vec(n) /\ \A d \in 1 .. n : 0 <= b[d] /\ b[d] * s + o[d] < e[d]
  BY <1>1, StrideBlocks
<1>3. \A b \in S : idx[b] \in Vec(n) /\ \A d \in 1 .. n : idx[b][d] = b[d] * s + o[d] + beg[d]
  BY <1>1, <1>2, StrideIndexIs
<1> HIDE DEF S
<1>4. ASSUME NEW b \in S
      PROVE  /\ idx[b] \in LaunchBox(n, e, s, o, beg)
             /\ \A d \in 1 .. n : b[d] = (idx[b][d] - beg[d]) \div s
  <2>1. ASSUME NEW d \in 1 .. n
        PROVE  /\ beg[d] <= idx[b][d] /\ idx[b][d] < beg[d] + e[d]
               /\ (idx[b][d] - beg[d]) % s = o[d] /\ b[d] = (idx[b][d] - beg[d]) \div s
    <3>1. PICK x \in Int, y \in Int, z \in Int, w \in Int : x = b[d] /\ y = o[d] /\ z = beg[d] /\ w = e[d]
      BY <1>1, <1>2 DEF Vec
    <3>2. PICK p \in Int : p = x * s
      OBVIOUS
    <3>3. idx[b][d] = p + y + z /\ p + y < w /\ 0 <= x /\ 0 <= y /\ y < s
      BY <1>1, <1>2, <1>3, <3>1, <3>2
    <3>4. 0 <= p
      BY <3>2, <3>3
    <3>5. PICK v \in Int : v = p + y /\ v = x * s + y
      BY <3>2
    <3>6. v % s = y /\ v \div s = x
      BY <3>3, <3>5, Residue
    <3>7. idx[b][d] - beg[d] = v
      BY <3>1, <3>3, <3>5
    <3>8. beg[d] <= idx[b][d] /\ idx[b][d] < beg[d] + e[d]
      BY <3>1, <3>3, <3>4
    <3> QED BY <3>1, <3>6, <3>7, <3>8
  <2>2. residue(idx[b], beg, s) \in Vec(n) /\ \A d \in 1 .. n : residue(idx[b], beg, s)[d] = (idx[b][d] - beg[d]) % s
    <3>1. /\ residue(idx[b], beg, s) \in Blocks(same(e, s))
          /\ \A d \in 1 .. n : residue(idx[b], beg, s)[d] = (idx[b][d] - beg[d]) % s
      BY <1>3, ResidueOffset
    <3>2. residue(idx[b], beg, s) \in Vec(n)
      BY <3>1, OffsetsAre
    <3> QED BY <3>1, <3>2
  <2>3. residue(idx[b], beg, s) = o
    BY <1>1, <2>1, <2>2, VecEqual
  <2> QED BY <1>3, <2>1, <2>3 DEF LaunchBox
<1>5. ASSUME NEW c \in LaunchBox(n, e, s, o, beg) PROVE \E b \in S : idx[b] = c
  <2>1. c \in Vec(n) /\ residue(c, beg, s) = o /\ \A d \in 1 .. n : beg[d] <= c[d] /\ c[d] < beg[d] + e[d]
    BY DEF LaunchBox
  <2>2. \A d \in 1 .. n : o[d] = (c[d] - beg[d]) % s
    BY <2>1, ResidueOffset
  <2> DEFINE b == [d \in 1 .. n |-> (c[d] - beg[d]) \div s]
  <2>3. ASSUME NEW d \in 1 .. n
        PROVE  b[d] \in Int /\ 0 <= b[d] /\ b[d] * s + o[d] < e[d] /\ c[d] = b[d] * s + o[d] + beg[d]
    <3>1. PICK x \in Int, y \in Int, z \in Int, w \in Int : x = c[d] /\ y = o[d] /\ z = beg[d] /\ w = e[d]
      BY <1>1, <2>1 DEF Vec
    <3>2. PICK v \in Int : v = x - z /\ 0 <= v /\ v < w
      BY <2>1, <3>1
    <3>3. PICK q \in Int : q = v \div s /\ v = q * s + y
      <4>1. v \div s \in Int /\ v = (v \div s) * s + (v % s)
        OBVIOUS
      <4>2. y = v % s
        BY <2>2, <3>1, <3>2
      <4> QED BY <4>1, <4>2
    <3>4. 0 <= q
      <4>1. y < s
        BY <1>1, <3>1
      <4>2. CASE q <= -1
        <5>1. (-1 - q) * s >= 0
          BY <4>2
        <5>2. q * s <= -s
          BY <5>1
        <5> QED BY <3>2, <3>3, <4>1, <5>2
      <4> QED BY <4>2
    <3>5. b[d] = q
      BY <3>1, <3>2, <3>3
    <3>6. x = v + z
      BY <3>2
    <3> HIDE DEF b
    <3> QED BY <3>1, <3>2, <3>3, <3>4, <3>5, <3>6
  <2>4. b \in Vec(n)
    BY <2>3 DEF Vec
  <2> HIDE DEF b
  <2>5. b \in S
    BY <1>2, <2>3, <2>4
  <2>6. idx[b] = c
    BY <1>1, <1>3, <2>1, <2>3, <2>5, VecEqual
  <2> QED BY <2>5, <2>6
<1>6. ASSUME NEW a \in S, NEW b \in S, idx[a] = idx[b] PROVE a = b
  <2>1. \A d \in 1 .. n : a[d] = b[d]
    BY <1>4, <1>6
  <2> QED BY <1>1, <1>2, <2>1, VecEqual
<1>7. Exact(S, idx, LaunchBox(n, e, s, o, beg))
  BY <1>4, <1>5, <1>6 DEF Exact
<1> QED BY <1>7 DEF S

\* A set of naturals has a least member.
LEMMA LeastNat ==
    ASSUME NEW T, T \subseteq Nat, T # {}
    PROVE  \E x \in T : \A y \in T : x <= y
<1> DEFINE R == OpToRel(<, Nat)
<1>1. IsWellFoundedOn(R, Nat)
  BY NatLessThanWellFounded
<1>2. \A x, y \in Nat : <<y, x>> \in R <=> y < x
  BY DEF OpToRel
<1> HIDE DEF R
<1>3. PICK x \in T : \A y \in T : ~ (<<y, x>> \in R)
  BY <1>1, WFMin
<1>4. ASSUME NEW y \in T PROVE x <= y
  <2>1. x \in Nat /\ y \in Nat
    OBVIOUS
  <2>2. ~ (y < x)
    BY <1>2, <1>3, <2>1
  <2> QED BY <2>1, <2>2
<1> QED BY <1>4

\* The launch of offset number k has a block.
Launches(e, s, k) == productOfComponents(strideGridDim(e, s, mapToND(same(e, s), k))) # 0

\* next() returns the first offset after o with a block, and <<>> after the last.
NextOf(e, s, o, p) ==
    LET all == same(e, s)
        n   == linearize(all, o)
    IN  \/ p = <<>> /\ \A k \in n + 1 .. productOfComponents(all) - 1 : ~ Launches(e, s, k)
        \/ /\ p \in Blocks(all) /\ linearize(all, p) > n
           /\ \A k \in n + 1 .. linearize(all, p) - 1 : ~ Launches(e, s, k)

\* It does.
LEMMA NextIs ==
    ASSUME NEW n \in Dim, NEW e \in Vec(n), NEW s \in Nat \ {0}, NEW o \in Blocks(same(e, s))
    PROVE  NextOf(e, s, o, next(e, s, o))
<1> DEFINE all == same(e, s)
<1>1. all \in Extent(n)
  BY OffsetsAre
<1>2. PICK size \in Nat : size = productOfComponents(all)
  BY <1>1, ProductNat
<1>3. PICK l \in Nat : l = linearize(all, o) /\ l < size
  <2>1. linearize(all, o) \in 0 .. size - 1
    BY <1>1, <1>2, Numbering
  <2> QED BY <2>1
<1>4. \A k \in 0 .. size - 1 : mapToND(all, k) \in Blocks(all) /\ linearize(all, mapToND(all, k)) = k
  BY <1>1, <1>2, Numbering
<1> DEFINE T == {k \in l + 1 .. size - 1 : Launches(e, s, k)}
<1>5. next(e, s, o) = IF T = {} THEN <<>> ELSE mapToND(all, CHOOSE k \in T : \A j \in T : k <= j)
  BY <1>2, <1>3 DEF next, Launches
<1>6. CASE T = {}
  <2>1. next(e, s, o) = <<>>
    BY <1>5, <1>6
  <2>2. \A k \in l + 1 .. size - 1 : ~ Launches(e, s, k)
    BY <1>6
  <2> QED BY <1>2, <1>3, <2>1, <2>2 DEF NextOf
<1>7. CASE T # {}
  <2>1. T \subseteq Nat
    OBVIOUS
  <2> DEFINE k == CHOOSE k \in T : \A j \in T : k <= j
  <2>2. k \in T /\ \A j \in T : k <= j
    <3> HIDE DEF T
    <3>1. \E x \in T : \A j \in T : x <= j
      BY <1>7, <2>1, LeastNat
    <3> QED BY <3>1
  <2>3. next(e, s, o) = mapToND(all, k)
    BY <1>5, <1>7
  <2> HIDE DEF k
  <2>4. k \in Int /\ l + 1 <= k /\ k <= size - 1 /\ k \in 0 .. size - 1 /\ k > l
    BY <2>2
  <2>5. \A j \in l + 1 .. k - 1 : ~ Launches(e, s, j)
    <3>1. ASSUME NEW j \in l + 1 .. k - 1, Launches(e, s, j) PROVE FALSE
      <4>1. j \in l + 1 .. size - 1 /\ ~ (k <= j)
        BY <2>4
      <4> QED BY <2>2, <3>1, <4>1
    <3> QED BY <3>1
  <2>6. mapToND(all, k) \in Blocks(all) /\ linearize(all, mapToND(all, k)) = k
    BY <1>4, <2>4
  <2> HIDE DEF all
  <2>7. /\ next(e, s, o) \in Blocks(all) /\ linearize(all, next(e, s, o)) > l
        /\ \A j \in l + 1 .. linearize(all, next(e, s, o)) - 1 : ~ Launches(e, s, j)
    BY <2>3, <2>4, <2>5, <2>6
  <2> QED BY <1>3, <2>7 DEF NextOf, all
<1> QED BY <1>6, <1>7

\* Extents of at least one have a product that is not zero.
LEMMA ProductPositive ==
    ASSUME NEW n \in Dim, NEW e \in Vec(n), \A d \in 1 .. n : e[d] >= 1
    PROVE  productOfComponents(e) # 0
<1>1. CASE n = 2
  <2>1. e \in Vec(2) /\ 1 .. 2 = {1, 2}
    BY <1>1
  <2>2. PICK a \in Int, b \in Int : a = e[1] /\ b = e[2] /\ a >= 1 /\ b >= 1
    BY <1>1, <2>1, Tuples
  <2>3. a * b # 0
    BY <2>2
  <2> QED BY <2>1, <2>2, <2>3, ProductIs
<1>2. CASE n = 3
  <2>1. e \in Vec(3) /\ 1 .. 3 = {1, 2, 3}
    BY <1>2
  <2>2. PICK a \in Int, b \in Int, c \in Int : a = e[1] /\ b = e[2] /\ c = e[3] /\ a >= 1 /\ b >= 1 /\ c >= 1
    BY <1>2, <2>1, Tuples
  <2>3. PICK w \in Int : w = a * b /\ w # 0
    BY <2>2
  <2>4. w * c # 0
    BY <2>2, <2>3
  <2> QED BY <2>1, <2>2, <2>3, <2>4, ProductIs
<1> QED BY <1>1, <1>2 DEF Dim

\* The launch of a supercell's residue has a block.
LEMMA ResidueLaunches ==
    ASSUME NEW n \in Dim, NEW e \in Vec(n), NEW s \in Nat \ {0}, NEW beg \in Vec(n), NEW c \in Vec(n),
           \A d \in 1 .. n : beg[d] <= c[d] /\ c[d] < beg[d] + e[d]
    PROVE  Launches(e, s, linearize(same(e, s), residue(c, beg, s)))
<1> DEFINE all == same(e, s)
           r == residue(c, beg, s)
           D == strideGridDim(e, s, r)
<1>1. r \in Blocks(all) /\ r \in Vec(n)
  <2>1. r \in Blocks(all)
    BY ResidueOffset
  <2> QED BY <2>1, OffsetsAre
<1>2. all \in Extent(n)
  BY OffsetsAre
<1>3. mapToND(all, linearize(all, r)) = r
  BY <1>1, <1>2, Numbering
<1>4. D \in Vec(n)
  BY <1>1, StrideBlocks
<1> DEFINE S == Blocks(D)
           idx == [b \in S |-> strideIndex(beg, s, r, b)]
<1>5. Exact(S, idx, LaunchBox(n, e, s, r, beg))
  BY <1>1, StrideExact
<1>6. c \in LaunchBox(n, e, s, r, beg)
  BY DEF LaunchBox
<1>7. PICK b \in S : idx[b] = c
  BY <1>5, <1>6 DEF Exact
<1>8. \A d \in 1 .. n : D[d] >= 1
  <2> HIDE DEF D
  <2>1. b \in Vec(n) /\ \A d \in 1 .. n : 0 <= b[d] /\ b[d] < D[d]
    BY <1>4, BlocksAre
  <2>2. \A d \in 1 .. n : b[d] \in Int /\ D[d] \in Int
    BY <1>4, <2>1 DEF Vec
  <2> QED BY <2>1, <2>2
<1>9. productOfComponents(D) # 0
  BY <1>4, <1>8, ProductPositive
<1> QED BY <1>3, <1>9 DEF Launches

-----------------------------------------------------------------------------
(* The inductive invariant of the loop.                                    *)

\* The extent of the offsets.
offsets == same(walked, mapper.stride)

\* A strided loop is at one of its offsets, or over.
OffsetInv == strided => offset = <<>> \/ offset \in Blocks(offsets)

\* Supercells of a strided launch are multiples of the stride apart; another launch is the only one.
LaunchInv ==
    /\ strided => \A c, d \in launch : /\ c \in Vec(Dims) /\ d \in Vec(Dims)
                                       /\ \A i \in 1 .. Dims : \E k \in Int : c[i] - d[i] = k * mapper.stride
    /\ ~ strided => launch = {} \/ launch = {getSuperCellIndex(b) : b \in blocks}

\* A supercell of the area is processed when the loop has passed its residue.
Visited(c) ==
    /\ expected(c)
    /\ \/ offset = <<>>
       \/ strided /\ linearize(offsets, residue(c, Begin, mapper.stride)) < linearize(offsets, offset)

VisitsInv ==
    /\ DOMAIN visits = Blocks(m.grid)
    /\ layersFit => \A c \in Blocks(m.grid) : visits[c] = IF Visited(c) THEN 1 ELSE 0

WInv == SetupInv /\ OffsetInv /\ LaunchInv /\ VisitsInv

\* An offset is not the empty sequence.
LEMMA OffsetsNonempty ==
    ASSUME SetupInv, strided, NEW o \in Blocks(offsets)
    PROVE  o # <<>>
<1>1. walked \in Vec(Dims) /\ mapper.stride \in Nat \ {0} /\ Dims \in Dim /\ Dims \in Nat
  BY StrideBox, Accepted
<1>2. o \in Vec(Dims)
  BY <1>1, OffsetsAre DEF offsets
<1>3. Len(o) = Dims /\ Dims # 0
  BY <1>1, <1>2, VecDims DEF Dim
<1>4. Len(<<>>) = 0
  OBVIOUS
<1> QED BY <1>3, <1>4

\* The number of the first offset.
LEMMA ZeroLinear ==
    ASSUME NEW n \in Dim, NEW e \in Vec(n), NEW v \in Vec(n), \A d \in 1 .. n : v[d] = 0
    PROVE  linearize(e, v) = 0
<1>1. CASE n = 2
  <2>1. e \in Vec(2) /\ v \in Vec(2) /\ v[1] = 0 /\ v[2] = 0
    <3>1. 1 \in 1 .. 2 /\ 2 \in 1 .. 2
      OBVIOUS
    <3> QED BY <1>1, <3>1
  <2>2. PICK a \in Int : a = e[1]
    BY <2>1, Tuples
  <2>3. linearize(e, v) = 0 + 0 * a
    BY <2>1, <2>2, Linear2
  <2> QED BY <2>3
<1>2. CASE n = 3
  <2>1. e \in Vec(3) /\ v \in Vec(3) /\ v[1] = 0 /\ v[2] = 0 /\ v[3] = 0
    <3>1. 1 \in 1 .. 3 /\ 2 \in 1 .. 3 /\ 3 \in 1 .. 3
      OBVIOUS
    <3> QED BY <1>2, <3>1
  <2>2. PICK a \in Int, b \in Int : a = e[1] /\ b = e[2]
    BY <2>1, Tuples
  <2>3. PICK w \in Int : w = a * b
    OBVIOUS
  <2>4. linearize(e, v) = 0 + 0 * a + 0 * w
    BY <2>1, <2>2, <2>3, Linear3
  <2> QED BY <2>4
<1> QED BY <1>1, <1>2 DEF Dim

\* The residue of a supercell has a number.
LEMMA ResidueNumber ==
    ASSUME SetupInv, strided, NEW c \in Blocks(m.grid)
    PROVE  /\ residue(c, Begin, mapper.stride) \in Blocks(offsets)
           /\ linearize(offsets, residue(c, Begin, mapper.stride)) \in Nat
           /\ linearize(offsets, residue(c, Begin, mapper.stride)) < productOfComponents(offsets)
           /\ mapToND(offsets, linearize(offsets, residue(c, Begin, mapper.stride))) = residue(c, Begin, mapper.stride)
<1>1. walked \in Vec(Dims) /\ Begin \in Vec(Dims) /\ mapper.stride \in Nat \ {0} /\ Dims \in Dim
  BY StrideBox, Accepted
<1>2. c \in Vec(Dims)
  BY Supercells
<1>3. residue(c, Begin, mapper.stride) \in Blocks(offsets)
  BY <1>1, <1>2, ResidueOffset DEF offsets
<1>4. offsets \in Extent(Dims)
  BY <1>1, OffsetsAre DEF offsets
<1>5. PICK size \in Nat : size = productOfComponents(offsets)
  BY <1>1, <1>4, ProductNat
<1>6. /\ linearize(offsets, residue(c, Begin, mapper.stride)) \in 0 .. size - 1
      /\ mapToND(offsets, linearize(offsets, residue(c, Begin, mapper.stride))) = residue(c, Begin, mapper.stride)
  BY <1>1, <1>3, <1>4, <1>5, Numbering
<1> QED BY <1>3, <1>5, <1>6

\* The loop starts in the invariant.
LEMMA WalkStarts == WalkInit => WInv
<1> SUFFICES ASSUME WalkInit PROVE WInv
  OBVIOUS
<1>1. SetupInv
  BY DEF WalkInit, SetupInv, Dims
<1>2. Dims \in Nat /\ Dims \in Dim /\ m.grid \in Vec(Dims)
  BY <1>1, Accepted
<1>3. offset \in Vec(Dims) /\ \A d \in 1 .. Dims : offset[d] = 0
  BY <1>2, SameVec, SMTT(30) DEF WalkInit
<1>4. ASSUME strided PROVE offset \in Blocks(offsets) /\ linearize(offsets, offset) = 0
  <2>1. walked \in Vec(Dims) /\ mapper.stride \in Nat \ {0}
    BY <1>1, <1>4, StrideBox
  <2>2. \A d \in 1 .. Dims : 0 <= offset[d] /\ offset[d] < mapper.stride
    BY <1>3, <2>1
  <2>3. offset \in Blocks(offsets)
    BY <1>2, <1>3, <2>1, <2>2, OffsetsAre DEF offsets
  <2>4. offsets \in Vec(Dims)
    BY <1>2, <2>1, OffsetsAre DEF offsets, Extent
  <2> QED BY <1>2, <1>3, <2>3, <2>4, ZeroLinear
<1>5. offset # <<>>
  <2>1. Len(offset) = Dims /\ Dims # 0
    BY <1>2, <1>3, VecDims DEF Dim
  <2>2. Len(<<>>) = 0
    OBVIOUS
  <2> QED BY <2>1, <2>2
<1>6. ASSUME NEW c \in Blocks(m.grid) PROVE ~ Visited(c)
  <2>1. CASE strided
    <3>1. PICK k \in Nat : k = linearize(offsets, residue(c, Begin, mapper.stride))
      BY <1>1, <2>1, ResidueNumber
    <3>2. ~ (k < linearize(offsets, offset))
      BY <1>4, <2>1
    <3> QED BY <1>5, <3>1, <3>2 DEF Visited
  <2>2. CASE ~ strided
    BY <1>5, <2>2 DEF Visited
  <2> QED BY <2>1, <2>2
<1>7. VisitsInv
  <2>1. visits = [c \in Blocks(m.grid) |-> 0]
    BY DEF WalkInit
  <2> QED BY <1>6, <2>1 DEF VisitsInv
<1>8. LaunchInv
  BY DEF WalkInit, LaunchInv
<1>9. OffsetInv
  BY <1>4 DEF OffsetInv
<1> QED BY <1>1, <1>7, <1>8, <1>9 DEF WInv

\* What depends on the description and the mapper only.
LEMMA Kept ==
    ASSUME m' = m, mapper' = mapper
    PROVE  /\ SetupInv' = SetupInv /\ strided' = strided /\ walked' = walked /\ Begin' = Begin /\ Dims' = Dims
           /\ layersFit' = layersFit /\ offsets' = offsets
<1>1. Dims' = Dims
  BY DEF Dims
<1>2. SetupInv' = SetupInv
  BY <1>1 DEF SetupInv, accepts
<1>3. walked' = walked
  BY DEF walked, strideExtent
<1>4. Begin' = Begin
  BY DEF Begin, strideShift
<1>5. strided' = strided
  BY DEF strided
<1>6. layersFit' = layersFit
  BY DEF layersFit, roomForBorder, bordersOwned
<1>7. offsets' = offsets
  BY <1>3 DEF offsets
<1> QED BY <1>1, <1>2, <1>3, <1>4, <1>5, <1>6, <1>7

\* So does what is expected.
LEMMA ExpectedKept ==
    ASSUME m' = m, mapper' = mapper, NEW c
    PROVE  expected(c)' <=> expected(c)
BY DEF expected, inArea, onSide, within, low, high

\* And the launch of a mapper without a stride.
LEMMA LaunchKept ==
    ASSUME m' = m, mapper' = mapper, ~ strided
    PROVE  {getSuperCellIndex(b) : b \in blocks}' = {getSuperCellIndex(b) : b \in blocks}
<1>1. gridDim' = gridDim
  BY DEF gridDim, strided
<1>2. blocks' = blocks
  BY <1>1 DEF blocks
<1>3. \A b : getSuperCellIndex(b)' = getSuperCellIndex(b)
  BY DEF getSuperCellIndex, strided
<1> QED BY <1>2, <1>3

\* A strided launch processes the supercells of the area whose residue is its offset.
LEMMA StrideHits ==
    ASSUME SetupInv, strided, offset \in Blocks(offsets), NEW c \in Blocks(m.grid)
    PROVE  Hits(c) = IF expected(c) /\ residue(c, Begin, mapper.stride) = offset THEN 1 ELSE 0
<1>1. walked \in Vec(Dims) /\ Begin \in Vec(Dims) /\ mapper.stride \in Nat \ {0} /\ Dims \in Dim
  BY StrideBox, Accepted
<1>2. blocks = Blocks(strideGridDim(walked, mapper.stride, offset))
  BY DEF blocks, gridDim, strided
<1>3. \A b \in blocks : getSuperCellIndex(b) = strideIndex(Begin, mapper.stride, offset, b)
  BY DEF getSuperCellIndex, strided, Begin
<1>4. \A b \in blocks : Index[b] = strideIndex(Begin, mapper.stride, offset, b)
  BY <1>3 DEF Index
<1> DEFINE E == LaunchBox(Dims, walked, mapper.stride, offset, Begin)
<1>5. offset \in Blocks(same(walked, mapper.stride))
  BY DEF offsets
<1>6. Exact(blocks, Index, E)
  BY <1>1, <1>2, <1>4, <1>5, StrideExact
<1>7. {b \in blocks : getSuperCellIndex(b) = c} = {b \in blocks : Index[b] = c}
  BY DEF Index
<1>8. Hits(c) = IF c \in E THEN 1 ELSE 0
  <2> HIDE DEF E
  <2> QED BY <1>6, <1>7, ExactCount DEF Hits
<1>9. c \in E <=> expected(c) /\ residue(c, Begin, mapper.stride) = offset
  <2>1. c \in Vec(Dims)
    BY Supercells
  <2>2. expected(c) <=> \A d \in 1 .. Dims : Begin[d] <= c[d] /\ c[d] < Begin[d] + walked[d]
    BY StrideBox
  <2> QED BY <2>1, <2>2 DEF LaunchBox
<1> QED BY <1>8, <1>9

\* No supercell of the area has a residue between an offset and the next.
LEMMA NextSkipsNothing ==
    ASSUME SetupInv, strided, offset \in Blocks(offsets), NEW p, p = next(walked, mapper.stride, offset),
           NEW c \in Blocks(m.grid), expected(c)
    PROVE  /\ p = <<>> \/ p \in Blocks(offsets)
           /\ linearize(offsets, residue(c, Begin, mapper.stride)) > linearize(offsets, offset) =>
                 p # <<>> /\ linearize(offsets, p) <= linearize(offsets, residue(c, Begin, mapper.stride))
           /\ p # <<>> => linearize(offsets, p) > linearize(offsets, offset)
<1>1. walked \in Vec(Dims) /\ Begin \in Vec(Dims) /\ mapper.stride \in Nat \ {0} /\ Dims \in Dim
  BY StrideBox, Accepted
<1>2. NextOf(walked, mapper.stride, offset, p)
  BY <1>1, NextIs DEF offsets
<1>3. PICK size \in Nat : size = productOfComponents(offsets)
  BY <1>1, OffsetsAre, ProductNat DEF offsets
<1>4. offsets \in Extent(Dims)
  BY <1>1, OffsetsAre DEF offsets
<1>5. PICK l \in Nat : l = linearize(offsets, offset) /\ l < size
  <2>1. linearize(offsets, offset) \in 0 .. size - 1
    BY <1>1, <1>3, <1>4, Numbering
  <2> QED BY <2>1
<1>6. PICK k \in Nat : k = linearize(offsets, residue(c, Begin, mapper.stride)) /\ k < size
  BY <1>3, ResidueNumber
<1>7. Launches(walked, mapper.stride, k)
  <2>1. c \in Vec(Dims)
    BY Supercells
  <2>2. \A d \in 1 .. Dims : Begin[d] <= c[d] /\ c[d] < Begin[d] + walked[d]
    BY StrideBox
  <2> QED BY <1>1, <1>6, <2>1, <2>2, ResidueLaunches DEF offsets
<1>8. \/ p = <<>> /\ \A j \in l + 1 .. size - 1 : ~ Launches(walked, mapper.stride, j)
      \/ /\ p \in Blocks(offsets) /\ linearize(offsets, p) > l
         /\ \A j \in l + 1 .. linearize(offsets, p) - 1 : ~ Launches(walked, mapper.stride, j)
  BY <1>2, <1>3, <1>5 DEF NextOf, offsets
<1>9. CASE p = <<>>
  <2>1. \A j \in l + 1 .. size - 1 : ~ Launches(walked, mapper.stride, j)
    BY <1>8, <1>9, OffsetsNonempty
  <2>2. ~ (k > l)
    BY <1>6, <1>7, <2>1
  <2> QED BY <1>5, <1>6, <1>9, <2>2
<1>10. CASE p # <<>>
  <2>1. /\ p \in Blocks(offsets) /\ linearize(offsets, p) > l
        /\ \A j \in l + 1 .. linearize(offsets, p) - 1 : ~ Launches(walked, mapper.stride, j)
    BY <1>8, <1>10
  <2>2. PICK q \in Int : q = linearize(offsets, p)
    <3>1. linearize(offsets, p) \in 0 .. size - 1
      BY <1>1, <1>3, <1>4, <2>1, Numbering
    <3> QED BY <3>1
  <2>3. k > l => q <= k
    BY <1>7, <2>1, <2>2
  <2> QED BY <1>5, <1>6, <1>10, <2>1, <2>2, <2>3
<1> QED BY <1>9, <1>10

\* The offset after a launch.
LEMMA NextOffset ==
    ASSUME SetupInv, strided, offset \in Blocks(offsets)
    PROVE  next(walked, mapper.stride, offset) = <<>> \/ next(walked, mapper.stride, offset) \in Blocks(offsets)
<1>1. walked \in Vec(Dims) /\ mapper.stride \in Nat \ {0} /\ Dims \in Dim
  BY StrideBox, Accepted
<1>2. NextOf(walked, mapper.stride, offset, next(walked, mapper.stride, offset))
  BY <1>1, NextIs DEF offsets
<1> QED BY <1>2 DEF NextOf, offsets

\* Supercells of a launch are multiples of the stride apart.
LEMMA StrideApart ==
    ASSUME SetupInv, strided, offset \in Blocks(offsets), NEW a \in blocks, NEW b \in blocks
    PROVE  /\ getSuperCellIndex(a) \in Vec(Dims) /\ getSuperCellIndex(b) \in Vec(Dims)
           /\ \A i \in 1 .. Dims : \E k \in Int :
                 getSuperCellIndex(a)[i] - getSuperCellIndex(b)[i] = k * mapper.stride
<1>1. walked \in Vec(Dims) /\ Begin \in Vec(Dims) /\ mapper.stride \in Nat \ {0} /\ Dims \in Dim /\ Dims \in Nat
  BY StrideBox, Accepted
<1>2. blocks = Blocks(strideGridDim(walked, mapper.stride, offset))
  BY DEF blocks, gridDim, strided
<1>3. \A x \in blocks : getSuperCellIndex(x) = strideIndex(Begin, mapper.stride, offset, x)
  BY DEF getSuperCellIndex, strided, Begin
<1>4. offset \in Vec(Dims)
  BY <1>1, OffsetsAre DEF offsets
<1>5. a \in Vec(Dims) /\ b \in Vec(Dims)
  BY <1>1, <1>2, <1>4, StrideBlocks
<1>6. /\ getSuperCellIndex(a) \in Vec(Dims) /\ getSuperCellIndex(b) \in Vec(Dims)
      /\ \A d \in 1 .. Dims : /\ getSuperCellIndex(a)[d] = a[d] * mapper.stride + offset[d] + Begin[d]
                              /\ getSuperCellIndex(b)[d] = b[d] * mapper.stride + offset[d] + Begin[d]
  BY <1>1, <1>3, <1>4, <1>5, StrideIndexIs
<1>7. ASSUME NEW i \in 1 .. Dims
      PROVE  \E k \in Int : getSuperCellIndex(a)[i] - getSuperCellIndex(b)[i] = k * mapper.stride
  <2>0. a[i] \in Int /\ b[i] \in Int /\ offset[i] \in Int /\ Begin[i] \in Int
    BY <1>1, <1>4, <1>5 DEF Vec
  <2>5. mapper.stride \in Int
    BY <1>1
  <2>1. PICK x \in Int, y \in Int, o \in Int, z \in Int, s \in Int :
            x = a[i] /\ y = b[i] /\ o = offset[i] /\ z = Begin[i] /\ s = mapper.stride
    BY ONLY <2>0, <2>5
  <2>2. getSuperCellIndex(a)[i] - getSuperCellIndex(b)[i] = (x * s + o + z) - (y * s + o + z)
    BY <1>6, <2>1
  <2>3. (x * s + o + z) - (y * s + o + z) = (x - y) * s
    OBVIOUS
  <2>4. x - y \in Int
    OBVIOUS
  <2> QED BY <2>1, <2>2, <2>3, <2>4
<1> QED BY <1>6, <1>7

\* A launch keeps the invariant.
LEMMA LaunchStep == WInv /\ Launch => WInv'
<1> SUFFICES ASSUME WInv, Launch PROVE WInv'
  OBVIOUS
<1>1. SetupInv /\ OffsetInv /\ LaunchInv /\ VisitsInv
  BY DEF WInv
<1>2. m' = m /\ mapper' = mapper /\ offset # <<>>
  BY DEF Launch
<1>3. /\ SetupInv' = SetupInv /\ strided' = strided /\ walked' = walked /\ Begin' = Begin /\ Dims' = Dims
      /\ layersFit' = layersFit /\ offsets' = offsets
  BY <1>2, Kept
<1>4. launch' = {getSuperCellIndex(b) : b \in blocks}
  BY DEF Launch
<1>5. offset' = IF strided THEN next(walked, mapper.stride, offset) ELSE <<>>
  BY DEF Launch
<1>6. ASSUME strided PROVE offset \in Blocks(offsets)
  BY <1>1, <1>2, <1>6 DEF OffsetInv
<1>7. OffsetInv'
  <2>1. ASSUME strided PROVE offset' = <<>> \/ offset' \in Blocks(offsets)
    BY <1>1, <1>5, <1>6, <2>1, NextOffset
  <2> QED BY <1>3, <2>1 DEF OffsetInv
<1>8. LaunchInv'
  <2>1. ASSUME strided, NEW c \in launch', NEW d \in launch'
        PROVE  /\ c \in Vec(Dims) /\ d \in Vec(Dims)
               /\ \A i \in 1 .. Dims : \E k \in Int : c[i] - d[i] = k * mapper.stride
    <3>1. PICK a \in blocks, b \in blocks : c = getSuperCellIndex(a) /\ d = getSuperCellIndex(b)
      BY <1>4
    <3> QED BY <1>1, <1>6, <2>1, <3>1, StrideApart
  <2>2. ASSUME ~ strided PROVE launch' = {getSuperCellIndex(b) : b \in blocks}'
    BY <1>2, <1>4, <2>2, LaunchKept
  <2> QED BY <1>2, <1>3, <2>1, <2>2 DEF LaunchInv
<1>9. VisitsInv'
  <2>1. visits' = [c \in Blocks(m.grid) |-> visits[c] + Hits(c)]
    BY <1>1 DEF Launch, VisitsInv, Hits
  <2>2. ASSUME layersFit, NEW c \in Blocks(m.grid)
        PROVE  visits[c] + Hits(c) = IF Visited(c)' THEN 1 ELSE 0
    <3>1. visits[c] = IF Visited(c) THEN 1 ELSE 0
      BY <1>1, <2>2 DEF VisitsInv
    <3>2. expected(c)' <=> expected(c)
      BY <1>2, ExpectedKept
    <3>3. CASE ~ strided
      <4>1. CountOnce
        BY <1>1, <2>2, <3>3, LaunchCounts
      <4>2. Hits(c) = IF expected(c) THEN 1 ELSE 0
        BY <4>1 DEF CountOnce
      <4>3. ~ Visited(c)
        BY <1>2, <3>3 DEF Visited
      <4>4. Visited(c)' <=> expected(c)
        BY <1>5, <3>2, <3>3 DEF Visited
      <4> QED BY <3>1, <4>2, <4>3, <4>4
    <3>4. CASE strided
      <4> DEFINE r == residue(c, Begin, mapper.stride)
      <4>1. Hits(c) = IF expected(c) /\ r = offset THEN 1 ELSE 0
        BY <1>1, <1>6, <3>4, StrideHits
      <4>2. Visited(c) <=> expected(c) /\ linearize(offsets, r) < linearize(offsets, offset)
        BY <1>2, <3>4 DEF Visited
      <4>3. Visited(c)' <=> expected(c) /\ (offset' = <<>> \/ linearize(offsets, r) < linearize(offsets, offset'))
        BY <1>2, <1>3, <3>2, <3>4 DEF Visited
      <4>4. CASE ~ expected(c)
        BY <3>1, <4>1, <4>2, <4>3, <4>4
      <4>5. CASE expected(c)
        <5>1. offset' = next(walked, mapper.stride, offset)
          BY <1>5, <3>4
        <5>2. /\ offset' = <<>> \/ offset' \in Blocks(offsets)
              /\ linearize(offsets, r) > linearize(offsets, offset) =>
                    offset' # <<>> /\ linearize(offsets, offset') <= linearize(offsets, r)
              /\ offset' # <<>> => linearize(offsets, offset') > linearize(offsets, offset)
          BY <1>1, <1>6, <3>4, <4>5, <5>1, NextSkipsNothing
        <5>3. walked \in Vec(Dims) /\ mapper.stride \in Nat \ {0} /\ Dims \in Dim
          BY <1>1, <3>4, StrideBox, Accepted
        <5>4. offsets \in Extent(Dims)
          BY <5>3, OffsetsAre DEF offsets
        <5>5. r \in Blocks(offsets)
          BY <1>1, <3>4, ResidueNumber
        <5>6. PICK k \in Int : k = linearize(offsets, r) /\ mapToND(offsets, k) = r
          BY <5>3, <5>4, <5>5, Numbering
        <5>7. PICK l \in Int : l = linearize(offsets, offset) /\ mapToND(offsets, l) = offset
          BY <1>6, <3>4, <5>3, <5>4, Numbering
        <5>8. r = offset <=> k = l
          BY <5>6, <5>7
        <5>9. CASE offset' = <<>>
          <6>1. k <= l
            BY <5>2, <5>6, <5>7, <5>9
          <6>2. Hits(c) = IF k = l THEN 1 ELSE 0
            BY <4>1, <4>5, <5>8
          <6>3. visits[c] = IF k < l THEN 1 ELSE 0
            BY <3>1, <4>2, <4>5, <5>6, <5>7
          <6>4. Visited(c)'
            BY <4>3, <4>5, <5>9
          <6> QED BY <6>1, <6>2, <6>3, <6>4
        <5>10. CASE offset' # <<>>
          <6>1. PICK q \in Int : q = linearize(offsets, offset')
            BY <5>2, <5>3, <5>4, <5>10, Numbering
          <6>2. q > l /\ (k > l => q <= k)
            BY <5>2, <5>6, <5>7, <5>10, <6>1
          <6>3. Hits(c) = IF k = l THEN 1 ELSE 0
            BY <4>1, <4>5, <5>8
          <6>4. visits[c] = IF k < l THEN 1 ELSE 0
            BY <3>1, <4>2, <4>5, <5>6, <5>7
          <6>5. Visited(c)' <=> k < q
            BY <4>3, <4>5, <5>6, <5>10, <6>1
          <6> QED BY <6>2, <6>3, <6>4, <6>5
        <5> QED BY <5>9, <5>10
      <4> QED BY <4>4, <4>5
    <3> QED BY <3>3, <3>4
  <2>3. m.grid' = m.grid
    BY <1>2
  <2> QED BY <1>2, <1>3, <2>1, <2>2, <2>3 DEF VisitsInv
<1> QED BY <1>1, <1>3, <1>7, <1>8, <1>9 DEF WInv

\* The loop over a mapper keeps its invariant.
THEOREM WalkInvariance == WalkSpec => []WInv
<1>1. ASSUME WInv, [WalkNext]_walk PROVE WInv'
  <2>1. CASE Launch
    BY <1>1, <2>1, LaunchStep
  <2>2. CASE UNCHANGED walk
    <3>1. m' = m /\ mapper' = mapper /\ offset' = offset /\ launch' = launch /\ visits' = visits
      BY <2>2 DEF walk
    <3>2. /\ SetupInv' = SetupInv /\ strided' = strided /\ walked' = walked /\ Begin' = Begin /\ Dims' = Dims
          /\ layersFit' = layersFit /\ offsets' = offsets
      BY <3>1, Kept
    <3>3. SetupInv' /\ OffsetInv'
      BY <1>1, <3>1, <3>2 DEF WInv, OffsetInv
    <3>4. LaunchInv'
      <4>1. ~ strided => {getSuperCellIndex(b) : b \in blocks}' = {getSuperCellIndex(b) : b \in blocks}
        BY <3>1, LaunchKept
      <4>2. LaunchInv
        BY <1>1 DEF WInv
      <4> QED BY <3>1, <3>2, <4>1, <4>2 DEF LaunchInv
    <3>5. VisitsInv'
      <4>1. \A c : Visited(c)' <=> Visited(c)
        BY <3>1, <3>2, ExpectedKept DEF Visited
      <4> QED BY <1>1, <3>1, <3>2, <4>1 DEF WInv, VisitsInv
    <3> QED BY <3>3, <3>4, <3>5 DEF WInv
  <2>3. CASE WalkOver
    BY <2>2, <2>3 DEF WalkOver
  <2> QED BY <1>1, <2>1, <2>2, <2>3 DEF WalkNext
<1> QED BY <1>1, WalkStarts, PTL DEF WalkSpec

-----------------------------------------------------------------------------
(* What the loop processes.                                                *)

\* At the end of the loop every supercell of the area has been processed once.
LEMMA VisitedOnce == WInv => AreaVisitedOnce
<1> SUFFICES ASSUME WInv, offset = <<>>, layersFit, NEW c \in DOMAIN visits
             PROVE  visits[c] = IF expected(c) THEN 1 ELSE 0
  BY DEF AreaVisitedOnce
<1>1. c \in Blocks(m.grid) /\ visits[c] = IF Visited(c) THEN 1 ELSE 0
  BY DEF WInv, VisitsInv
<1>2. Visited(c) <=> expected(c)
  BY DEF Visited
<1> QED BY <1>1, <1>2

\* A multiple of the stride that is not 0 is out of reach of the neighbours.
LEMMA MultipleFar ==
    ASSUME NEW k \in Int, NEW s \in Nat, s >= 3, NEW x \in Int, x = k * s, x # 0
    PROVE  x \notin -2 .. 2
<1>1. k # 0
  OBVIOUS
<1>2. CASE k >= 1
  <2>1. k * s >= s
    <3>1. PICK j \in Nat : k = j + 1
      <4>1. k - 1 \in Nat /\ k = (k - 1) + 1
        BY <1>2
      <4> QED BY <4>1
    <3>2. k * s = j * s + s /\ j * s >= 0
      BY <3>1
    <3>3. j * s \in Int
      OBVIOUS
    <3> QED BY <3>2, <3>3
  <2> QED BY <2>1
<1>3. CASE k <= -1
  <2>1. k * s <= -s
    <3>1. PICK j \in Nat : k = -(j + 1)
      <4>1. -k - 1 \in Nat /\ k = -((-k - 1) + 1)
        BY <1>3
      <4> QED BY <4>1
    <3>2. k * s = -(j * s) - s /\ j * s >= 0
      BY <3>1
    <3>3. j * s \in Int
      OBVIOUS
    <3> QED BY <3>2, <3>3
  <2> QED BY <2>1
<1> QED BY <1>1, <1>2, <1>3

\* Supercells of a launch with a stride of at least 3 have no common neighbour.
LEMMA ApartInLaunch == WInv => LaunchesApart
<1> SUFFICES ASSUME WInv, strided, mapper.stride >= 3, NEW c \in launch, NEW d \in launch, c # d
             PROVE  \E i \in dims(c) : c[i] - d[i] \notin -2 .. 2
  BY DEF LaunchesApart
<1>1. SetupInv /\ LaunchInv
  BY DEF WInv
<1>2. Dims \in Nat /\ mapper.stride \in Nat
  BY <1>1, Accepted, StrideBox
<1>3. /\ c \in Vec(Dims) /\ d \in Vec(Dims)
      /\ \A i \in 1 .. Dims : \E k \in Int : c[i] - d[i] = k * mapper.stride
  BY <1>1 DEF LaunchInv
<1>4. dims(c) = 1 .. Dims
  BY <1>2, <1>3, VecDims
<1>5. PICK i \in 1 .. Dims : c[i] # d[i]
  BY <1>2, <1>3, VecEqual
<1>6. c[i] \in Int /\ d[i] \in Int
  BY <1>3 DEF Vec
<1>7. PICK k \in Int : c[i] - d[i] = k * mapper.stride
  BY <1>3
<1>8. PICK s \in Nat, x \in Int, y \in Int : s = mapper.stride /\ x = c[i] /\ y = d[i] /\ s >= 3
  BY <1>2, <1>6
<1>9. x - y \in Int /\ x - y = k * s /\ x - y # 0
  BY <1>5, <1>7, <1>8
<1>10. x - y \notin -2 .. 2
  BY <1>8, <1>9, MultipleFar
<1> QED BY <1>4, <1>8, <1>10

\* Moving there and back.
LEMMA PlusMinus ==
    ASSUME NEW n \in Nat, NEW v \in Vec(n), NEW w \in Vec(n)
    PROVE  minus(plus(v, w), w) = v
<1>1. plus(v, w) \in Vec(n) /\ \A d \in 1 .. n : plus(v, w)[d] = v[d] + w[d]
  BY PlusVec
<1>2. /\ minus(plus(v, w), w) \in Vec(n)
      /\ \A d \in 1 .. n : minus(plus(v, w), w)[d] = plus(v, w)[d] - w[d]
  BY <1>1, MinusVec
<1>3. ASSUME NEW d \in 1 .. n PROVE minus(plus(v, w), w)[d] = v[d]
  <2>1. PICK x \in Int, y \in Int : x = v[d] /\ y = w[d]
    BY DEF Vec
  <2> QED BY <1>1, <1>2, <2>1
<1> QED BY <1>2, <1>3, VecEqual

\* Indices relative to an area count its supercells from 0.
LEMMA OriginsAtZero == WInv => OriginsFit
<1> SUFFICES ASSUME WInv, mapper.kind = "area", launch # {}
             PROVE  /\ mapper.area = CORE =>
                          {relativeTo(CORE, m, c) : c \in launch} = Blocks(areaGridDim(CORE, m))
                    /\ mapper.area = CORE_BORDER =>
                          {relativeTo(BORDER, m, c) : c \in launch} = Blocks(withoutGuard(m))
  BY DEF OriginsFit
<1>1. SetupInv /\ LaunchInv /\ ~ strided
  BY DEF WInv, strided
<1>2. Dims \in Nat /\ Dims \in Dim /\ m.guard \in Vec(Dims)
  BY <1>1, Accepted
<1>3. launch = {getSuperCellIndex(b) : b \in blocks}
  BY <1>1 DEF LaunchInv
<1>4. withoutGuard(m) \in Vec(Dims) /\ minus(m.grid, times(4, m.guard)) \in Vec(Dims)
  BY <1>1, Extents
<1>5. times(2, m.guard) \in Vec(Dims)
  BY <1>2, TimesVec
<1>6. ASSUME mapper.area = CORE
      PROVE  {relativeTo(CORE, m, c) : c \in launch} = Blocks(areaGridDim(CORE, m))
  <2> DEFINE extent == minus(m.grid, times(4, m.guard))
             origin == times(2, m.guard)
  <2>1. areaGridDim(CORE, m) = extent
    BY DEF areaGridDim, ALL, CORE, BORDER, GUARD, CORE_BORDER
  <2>2. blocks = Blocks(extent)
    BY <1>6 DEF blocks, gridDim, strided, areaGridDim, ALL, CORE, BORDER, GUARD, CORE_BORDER
  <2>3. \A b \in blocks : getSuperCellIndex(b) = plus(b, origin)
    BY <1>6 DEF getSuperCellIndex, areaIndex, ALL, CORE, BORDER, GUARD, CORE_BORDER
  <2>4. \A c : relativeTo(CORE, m, c) = minus(c, origin)
    BY DEF relativeTo, CORE, BORDER
  <2> HIDE DEF extent, origin
  <2>5. extent \in Vec(Dims) /\ origin \in Vec(Dims)
    BY <1>4, <1>5 DEF extent, origin
  <2>6. \A b \in blocks : b \in Vec(Dims)
    BY <1>2, <2>2, <2>5, BlocksAre
  <2>7. \A b \in blocks : relativeTo(CORE, m, getSuperCellIndex(b)) = b
    BY <1>2, <2>3, <2>4, <2>5, <2>6, PlusMinus
  <2> QED BY <1>3, <2>1, <2>2, <2>7
<1>7. ASSUME mapper.area = CORE_BORDER
      PROVE  {relativeTo(BORDER, m, c) : c \in launch} = Blocks(withoutGuard(m))
  <2>2. blocks = Blocks(withoutGuard(m))
    BY <1>7 DEF blocks, gridDim, strided, areaGridDim, ALL, CORE, BORDER, GUARD, CORE_BORDER
  <2>3. \A b \in blocks : getSuperCellIndex(b) = plus(b, m.guard)
    BY <1>7 DEF getSuperCellIndex, areaIndex, ALL, CORE, BORDER, GUARD, CORE_BORDER
  <2>4. \A c : relativeTo(BORDER, m, c) = minus(c, m.guard)
    BY DEF relativeTo, CORE, BORDER
  <2>6. \A b \in blocks : b \in Vec(Dims)
    BY <1>2, <1>4, <2>2, BlocksAre
  <2>7. \A b \in blocks : relativeTo(BORDER, m, getSuperCellIndex(b)) = b
    BY <1>2, <2>3, <2>4, <2>6, PlusMinus
  <2> QED BY <1>3, <2>2, <2>7
<1> QED BY <1>6, <1>7

\* The loop over a mapper, as MapperWalk defines it from the kernels' mappers, processes every
\* supercell of its area once, strided launches keep their blocks apart, and indices relative
\* to an area start at 0: for every stride, in every domain the mapper's layers fit in (layersFit).
THEOREM LoopsCoverTheirArea == WalkSpec => []LaunchesCover
<1>1. WInv => LaunchesCover
  BY VisitedOnce, ApartInLaunch, OriginsAtZero DEF LaunchesCover
<1> QED BY <1>1, WalkInvariance, PTL

-----------------------------------------------------------------------------
(* Mirrored directions.                                                    *)

\* A direction by its digits, and the digits of its mirror image.
LEMMA DirectionOf ==
    ASSUME NEW x \in 0 .. 2, NEW y \in 0 .. 2, NEW z \in 0 .. 2, NEW ex, ex = x + 3 * y + 9 * z
    PROVE  /\ digit(ex, 1) = x /\ digit(ex, 2) = y /\ digit(ex, 3) = z
           /\ getMirroredExchangeType(ex) =
                 (IF x = 0 THEN 0 ELSE 3 - x) + 3 * (IF y = 0 THEN 0 ELSE 3 - y) + 9 * (IF z = 0 THEN 0 ELSE 3 - z)
<1>1. ex \in Nat
  OBVIOUS
<1>2. ex % 3 = x /\ (ex \div 3) % 3 = y /\ (ex \div 9) % 3 = z /\ ex \div 1 = ex
  OBVIOUS
<1>3. digit(ex, 1) = x /\ digit(ex, 2) = y /\ digit(ex, 3) = z
  BY <1>2, Powers DEF digit
<1>4. /\ contains(ex, RIGHT) <=> x = 1
      /\ contains(ex, LEFT) <=> x = 2
      /\ contains(ex, BOTTOM) <=> y = 1
      /\ contains(ex, TOP) <=> y = 2
      /\ contains(ex, BACK) <=> z = 1
      /\ contains(ex, FRONT) <=> z = 2
  <2> HIDE DEF digit
  <2> QED BY <1>3, Powers DEF contains, RIGHT, LEFT, BOTTOM, TOP, BACK, FRONT
<1>5. getMirroredExchangeType(ex) = (IF x = 1 THEN 2 ELSE 0) + (IF x = 2 THEN 1 ELSE 0)
         + (IF y = 1 THEN 6 ELSE 0) + (IF y = 2 THEN 3 ELSE 0)
         + (IF z = 2 THEN 9 ELSE 0) + (IF z = 1 THEN 18 ELSE 0)
  BY <1>4 DEF getMirroredExchangeType, RIGHT, LEFT, BOTTOM, TOP, BACK, FRONT
<1>6. /\ (IF x = 1 THEN 2 ELSE 0) + (IF x = 2 THEN 1 ELSE 0) = (IF x = 0 THEN 0 ELSE 3 - x)
      /\ (IF y = 1 THEN 6 ELSE 0) + (IF y = 2 THEN 3 ELSE 0) = 3 * (IF y = 0 THEN 0 ELSE 3 - y)
      /\ (IF z = 2 THEN 9 ELSE 0) + (IF z = 1 THEN 18 ELSE 0) = 9 * (IF z = 0 THEN 0 ELSE 3 - z)
  OBVIOUS
<1> QED BY <1>3, <1>5, <1>6

\* The digits of a direction of an exchange.
LEMMA DirectionDigits ==
    ASSUME NEW n \in Dim, NEW ex \in ExchangeTypes(n)
    PROVE  \E x, y, z \in 0 .. 2 : ex = x + 3 * y + 9 * z /\ (n = 2 => z = 0)
<1>1. ex \in Nat /\ (n = 2 => ex <= 8) /\ (n = 3 => ex <= 26)
  BY Directions
<1>2. n = 2 \/ n = 3
  BY DEF Dim
<1>3. ex <= 26
  BY <1>1, <1>2
<1>4. ex % 3 \in 0 .. 2 /\ (ex \div 3) % 3 \in 0 .. 2 /\ ex \div 9 \in 0 .. 2
  BY <1>1, <1>3
<1>5. ex = (ex % 3) + 3 * ((ex \div 3) % 3) + 9 * (ex \div 9)
  BY <1>1
<1>6. n = 2 => ex \div 9 = 0
  BY <1>1
<1> QED BY <1>4, <1>5, <1>6

\* Mirroring turns every digit around.
LEMMA MirrorDigits ==
    ASSUME NEW n \in Dim, NEW ex \in ExchangeTypes(n)
    PROVE  /\ getMirroredExchangeType(ex) \in ExchangeTypes(n)
           /\ \A d \in 1 .. n :
                 /\ digit(ex, d) = 0 => digit(getMirroredExchangeType(ex), d) = 0
                 /\ digit(ex, d) = 1 => digit(getMirroredExchangeType(ex), d) = 2
                 /\ digit(ex, d) = 2 => digit(getMirroredExchangeType(ex), d) = 1
<1>1. PICK x \in 0 .. 2, y \in 0 .. 2, z \in 0 .. 2 : ex = x + 3 * y + 9 * z /\ (n = 2 => z = 0)
  BY DirectionDigits
<1> DEFINE u == IF x = 0 THEN 0 ELSE 3 - x
           v == IF y = 0 THEN 0 ELSE 3 - y
           w == IF z = 0 THEN 0 ELSE 3 - z
           mirror == getMirroredExchangeType(ex)
<1>2. u \in 0 .. 2 /\ v \in 0 .. 2 /\ w \in 0 .. 2 /\ (n = 2 => w = 0)
  BY <1>1
<1>3. digit(ex, 1) = x /\ digit(ex, 2) = y /\ digit(ex, 3) = z /\ mirror = u + 3 * v + 9 * w
  BY <1>1, DirectionOf
<1>4. x + 3 * y + 9 * z # 0
  BY <1>1, Directions
<1>5. u + 3 * v + 9 * w # 0 /\ u + 3 * v + 9 * w <= 26 /\ (n = 2 => u + 3 * v + 9 * w <= 8)
  BY <1>1, <1>4
<1>6. mirror \in ExchangeTypes(n)
  <2> HIDE DEF u, v, w, mirror
  <2>1. mirror \in Nat /\ mirror # 0 /\ mirror <= 26 /\ (n = 2 => mirror <= 8)
    BY <1>2, <1>3, <1>5
  <2>2. CASE n = 2
    <3>1. mirror \in 1 .. 3^2 - 1
      BY <2>1, <2>2, Powers
    <3> QED BY <2>2, <3>1 DEF ExchangeTypes
  <2>3. CASE n = 3
    <3>1. mirror \in 1 .. 3^3 - 1
      BY <2>1, <2>3, Powers
    <3> QED BY <2>3, <3>1 DEF ExchangeTypes
  <2> QED BY <2>2, <2>3 DEF Dim
<1>7. digit(mirror, 1) = u /\ digit(mirror, 2) = v /\ digit(mirror, 3) = w
  <2> HIDE DEF u, v, w, mirror
  <2> QED BY <1>2, <1>3, DirectionOf
<1>8. /\ x = 0 => u = 0
      /\ x = 1 => u = 2
      /\ x = 2 => u = 1
      /\ y = 0 => v = 0
      /\ y = 1 => v = 2
      /\ y = 2 => v = 1
      /\ z = 0 => w = 0
      /\ z = 1 => w = 2
      /\ z = 2 => w = 1
  OBVIOUS
<1> HIDE DEF u, v, w, mirror
<1>9. ASSUME NEW d \in 1 .. n
      PROVE  /\ digit(ex, d) = 0 => digit(mirror, d) = 0
             /\ digit(ex, d) = 1 => digit(mirror, d) = 2
             /\ digit(ex, d) = 2 => digit(mirror, d) = 1
  <2>1. d = 1 \/ d = 2 \/ d = 3
    BY DEF Dim
  <2> QED BY <1>3, <1>7, <1>8, <2>1
<1> QED BY <1>6, <1>9 DEF mirror

\* Directions with the same digits are the same.
LEMMA DigitsTell ==
    ASSUME NEW n \in Dim, NEW ex \in ExchangeTypes(n), NEW other \in ExchangeTypes(n), ex # other
    PROVE  \E d \in 1 .. n : digit(ex, d) # digit(other, d)
<1>1. PICK x \in 0 .. 2, y \in 0 .. 2, z \in 0 .. 2 : ex = x + 3 * y + 9 * z /\ (n = 2 => z = 0)
  BY DirectionDigits
<1>2. PICK u \in 0 .. 2, v \in 0 .. 2, w \in 0 .. 2 : other = u + 3 * v + 9 * w /\ (n = 2 => w = 0)
  BY DirectionDigits
<1>3. digit(ex, 1) = x /\ digit(ex, 2) = y /\ digit(ex, 3) = z
  BY <1>1, DirectionOf
<1>4. digit(other, 1) = u /\ digit(other, 2) = v /\ digit(other, 3) = w
  BY <1>2, DirectionOf
<1>5. x # u \/ y # v \/ z # w
  BY <1>1, <1>2
<1>6. 1 \in 1 .. n /\ 2 \in 1 .. n /\ (n = 3 => 3 \in 1 .. n)
  BY DEF Dim
<1>7. z # w => n = 3
  BY <1>1, <1>2 DEF Dim
<1> QED BY <1>3, <1>4, <1>5, <1>6, <1>7

\* A direction has a digit that is not 0.
LEMMA DirectionMoves ==
    ASSUME NEW n \in Dim, NEW ex \in ExchangeTypes(n)
    PROVE  \E d \in 1 .. n : digit(ex, d) # 0
<1>1. PICK x \in 0 .. 2, y \in 0 .. 2, z \in 0 .. 2 : ex = x + 3 * y + 9 * z /\ (n = 2 => z = 0)
  BY DirectionDigits
<1>2. digit(ex, 1) = x /\ digit(ex, 2) = y /\ digit(ex, 3) = z
  BY <1>1, DirectionOf
<1>3. x # 0 \/ y # 0 \/ z # 0
  <2>1. ex # 0
    BY Directions
  <2> QED BY <1>1, <2>1
<1>4. 1 \in 1 .. n /\ 2 \in 1 .. n /\ (n = 3 => 3 \in 1 .. n)
  BY DEF Dim
<1>5. z # 0 => n = 3
  BY <1>1 DEF Dim
<1> QED BY <1>2, <1>3, <1>4, <1>5

-----------------------------------------------------------------------------
(* A guard supercell and the border supercell it is sent to.               *)

\* The first guard supercell of a direction.
GuardBegin(ex) ==
    [d \in 1 .. Dims |-> IF digit(ex, d) = 0 THEN m.guard[d] ELSE IF digit(ex, d) = 1 THEN m.grid[d] - m.guard[d] ELSE 0]

\* The launch over the guard of a direction, by components.
LEMMA GuardLaunch ==
    ASSUME SetupInv, NEW ex \in ExchangeTypes(Dims)
    PROVE  /\ exchangeGridDim(GUARD, m, ex) \in Vec(Dims) /\ GuardBegin(ex) \in Vec(Dims)
           /\ \A d \in 1 .. Dims :
                 exchangeGridDim(GUARD, m, ex)[d] =
                     IF digit(ex, d) # 0 THEN m.guard[d] ELSE m.grid[d] - 2 * m.guard[d]
           /\ \A b \in Vec(Dims) : exchangeIndex(GUARD, m, ex, b) = plus(b, GuardBegin(ex))
<1>1. Dims \in Nat /\ Dims \in Dim /\ dims(m.grid) = 1 .. Dims
  BY Accepted
<1>2. \A d \in 1 .. Dims : digit(ex, d) \in {0, 1, 2}
  BY <1>1, Directions
<1>3. \A d \in 1 .. Dims : m.grid[d] \in Nat /\ m.guard[d] \in Nat
  BY Accepted
<1>4. /\ withoutGuard(m) \in Vec(Dims)
      /\ \A d \in 1 .. Dims : withoutGuard(m)[d] = m.grid[d] - 2 * m.guard[d]
  BY Extents
<1>5. exchangeGridDim(GUARD, m, ex) = [d \in 1 .. Dims |-> IF digit(ex, d) # 0 THEN m.guard[d] ELSE withoutGuard(m)[d]]
  BY <1>1 DEF exchangeGridDim
<1>6. /\ exchangeGridDim(GUARD, m, ex) \in Vec(Dims)
      /\ \A d \in 1 .. Dims : exchangeGridDim(GUARD, m, ex)[d] =
                                  IF digit(ex, d) # 0 THEN m.guard[d] ELSE m.grid[d] - 2 * m.guard[d]
  BY <1>3, <1>4, <1>5 DEF Vec
<1>7. GuardBegin(ex) \in Vec(Dims)
  BY <1>3 DEF GuardBegin, Vec
<1>8. ASSUME NEW b \in Vec(Dims)
      PROVE  exchangeIndex(GUARD, m, ex, b) = plus(b, GuardBegin(ex))
  <2>1. dims(b) = 1 .. Dims /\ \A d \in 1 .. Dims : b[d] \in Int
    BY <1>1, VecDims
  <2> DEFINE shift(d) == CASE digit(ex, d) = 0 -> 1 * m.guard[d]
                           [] digit(ex, d) = 1 -> m.grid[d] - 1 * m.guard[d]
                           [] OTHER            -> (1 - 1) * m.guard[d]
  <2>2. exchangeIndex(GUARD, m, ex, b) = [d \in 1 .. Dims |-> b[d] + shift(d)]
    BY <2>1 DEF exchangeIndex
  <2>3. ASSUME NEW d \in 1 .. Dims PROVE shift(d) = GuardBegin(ex)[d]
    <3>1. PICK g \in Nat, G \in Nat : g = m.guard[d] /\ G = m.grid[d]
      BY <1>3
    <3>2. 1 * g = g /\ (1 - 1) * g = 0
      OBVIOUS
    <3>3. shift(d) = CASE digit(ex, d) = 0 -> g [] digit(ex, d) = 1 -> G - g [] OTHER -> 0
      BY <3>1, <3>2
    <3>4. GuardBegin(ex)[d] = IF digit(ex, d) = 0 THEN g ELSE IF digit(ex, d) = 1 THEN G - g ELSE 0
      BY <3>1 DEF GuardBegin
    <3> HIDE DEF shift
    <3> QED BY <1>2, <3>3, <3>4
  <2> HIDE DEF shift
  <2>4. plus(b, GuardBegin(ex)) = [d \in 1 .. Dims |-> b[d] + GuardBegin(ex)[d]]
    BY <2>1 DEF plus
  <2> QED BY <2>2, <2>3, <2>4
<1> QED BY <1>6, <1>7, <1>8

\* The way from a domain to its neighbour, counted in cells of length k.
Way(ex, k) == [d \in 1 .. Dims |-> getRelativeDirections(Dims, ex)[d] * withoutGuard(m)[d] * k]

\* The sender drops one component, and the receiver reads every other one where the sender put it.
LEMMA ReducedEntry ==
    ASSUME NEW n \in Dim, NEW ex \in ExchangeTypes(n), NEW v \in Vec(n), NEW d \in 1 .. n, digit(ex, d) = 0,
           NEW mirror \in ExchangeTypes(n), \A i \in 1 .. n : digit(mirror, i) = 0 <=> digit(ex, i) = 0
    PROVE  reduce(v, ex)[entry(n, mirror, d)] = v[d]
<1>1. Len(v) = n
  BY VecDims DEF Dim
<1>2. PICK e \in 1 .. n : digit(ex, e) # 0
  BY DirectionMoves
<1>3. CASE n = 2
  <2>1. 1 \in 1 .. n /\ 2 \in 1 .. n /\ d \in {1, 2} /\ e \in {1, 2}
    BY <1>3
  <2>2. entry(n, mirror, d) = 1
    BY <1>3 DEF entry
  <2>3. CASE d = 1
    <3>1. digit(ex, 1) = 0 /\ digit(ex, 2) # 0
      BY <1>2, <2>1, <2>3
    <3>2. reduce(v, ex) = <<v[1]>>
      BY <1>1, <1>3, <3>1 DEF reduce
    <3> QED BY <2>2, <2>3, <3>2
  <2>4. CASE d = 2
    <3>1. digit(ex, 1) # 0
      BY <1>2, <2>1, <2>4
    <3>2. reduce(v, ex) = <<v[2]>>
      BY <1>1, <1>3, <3>1 DEF reduce
    <3> QED BY <2>2, <2>4, <3>2
  <2> QED BY <2>1, <2>3, <2>4
<1>4. CASE n = 3
  <2>1. 1 \in 1 .. n /\ 2 \in 1 .. n /\ 3 \in 1 .. n /\ d \in {1, 2, 3} /\ e \in {1, 2, 3}
    BY <1>4
  <2>2. digit(mirror, 1) = 0 <=> digit(ex, 1) = 0
    BY <2>1
  <2>3. entry(n, mirror, d) = IF d = 1 THEN 1 ELSE IF d = 3 THEN 2 ELSE IF digit(ex, 1) # 0 THEN 1 ELSE 2
    BY <1>4, <2>2 DEF entry
  <2>4. reduce(v, ex) = IF digit(ex, 1) # 0 THEN <<v[2], v[3]>>
                        ELSE IF digit(ex, 3) # 0 THEN <<v[1], v[2]>>
                        ELSE IF digit(ex, 2) # 0 THEN <<v[1], v[3]>> ELSE <<0, 0>>
    BY <1>1, <1>4 DEF reduce
  <2>5. CASE digit(ex, 1) # 0
    <3>1. reduce(v, ex) = <<v[2], v[3]>> /\ d \in {2, 3}
      BY <2>1, <2>4, <2>5
    <3>2. entry(n, mirror, d) = IF d = 3 THEN 2 ELSE 1
      BY <2>3, <2>5, <3>1
    <3> QED BY <3>1, <3>2
  <2>6. CASE digit(ex, 1) = 0 /\ digit(ex, 3) # 0
    <3>1. reduce(v, ex) = <<v[1], v[2]>> /\ d \in {1, 2}
      BY <2>1, <2>4, <2>6
    <3>2. entry(n, mirror, d) = IF d = 1 THEN 1 ELSE 2
      BY <2>3, <2>6, <3>1
    <3> QED BY <3>1, <3>2
  <2>7. CASE digit(ex, 1) = 0 /\ digit(ex, 3) = 0
    <3>1. digit(ex, 2) # 0
      BY <1>2, <2>1, <2>7
    <3>2. reduce(v, ex) = <<v[1], v[3]>> /\ d \in {1, 3}
      BY <2>1, <2>4, <2>7, <3>1
    <3>3. entry(n, mirror, d) = IF d = 1 THEN 1 ELSE 2
      BY <2>3, <2>7, <3>2
    <3> QED BY <3>2, <3>3
  <2> QED BY <2>5, <2>6, <2>7
<1> QED BY <1>3, <1>4 DEF Dim

\* A particle of a guard supercell arrives where the neighbour's border covers its place.
LEMMA GuardArrives == WInv => GuardArrivesInBorder
<1> DEFINE ex     == mapper.ex
           mirror == getMirroredExchangeType(ex)
           moved  == [d \in dims(m.grid) |-> getRelativeDirections(Len(m.grid), ex)[d] * withoutGuard(m)[d]]
<1> SUFFICES ASSUME WInv, mapper.kind = "exchange", mapper.area = GUARD, m.guard = same(m.guard, 1),
                    NEW c \in launch
             PROVE  extend(reduce(c, ex), mirror, m.grid, m.guard) = minus(c, moved)
  BY DEF GuardArrivesInBorder
<1>1. SetupInv /\ LaunchInv /\ ~ strided
  BY DEF WInv, strided
<1>2. Dims \in Nat /\ Dims \in Dim /\ dims(m.grid) = 1 .. Dims /\ m.guard \in Vec(Dims) /\ m.grid \in Vec(Dims)
  BY <1>1, Accepted
<1>3. ex \in ExchangeTypes(Dims)
  BY <1>1, MapperFields
<1>4. /\ mirror \in ExchangeTypes(Dims)
      /\ \A d \in 1 .. Dims : /\ digit(ex, d) \in {0, 1, 2}
                              /\ digit(ex, d) = 0 => digit(mirror, d) = 0
                              /\ digit(ex, d) = 1 => digit(mirror, d) = 2
                              /\ digit(ex, d) = 2 => digit(mirror, d) = 1
  BY <1>2, <1>3, MirrorDigits, Directions
<1>5. \A d \in 1 .. Dims : m.guard[d] = 1
  BY <1>2, SameVec
<1>6. \A d \in 1 .. Dims : m.grid[d] \in Nat
  BY <1>1, Accepted
<1>7. PICK b : b \in Blocks(exchangeGridDim(GUARD, m, ex)) /\ c = exchangeIndex(GUARD, m, ex, b)
  <2>1. launch = {getSuperCellIndex(b) : b \in blocks}
    BY <1>1 DEF LaunchInv
  <2>2. blocks = Blocks(exchangeGridDim(GUARD, m, ex))
    BY DEF blocks, gridDim, strided
  <2>3. \A b : getSuperCellIndex(b) = exchangeIndex(GUARD, m, ex, b)
    BY DEF getSuperCellIndex
  <2> QED BY <2>1, <2>2, <2>3
<1>8. /\ exchangeGridDim(GUARD, m, ex) \in Vec(Dims) /\ GuardBegin(ex) \in Vec(Dims)
      /\ \A d \in 1 .. Dims : exchangeGridDim(GUARD, m, ex)[d] =
                                  IF digit(ex, d) # 0 THEN m.guard[d] ELSE m.grid[d] - 2 * m.guard[d]
  BY <1>1, <1>3, GuardLaunch
<1>9. /\ b \in Vec(Dims)
      /\ \A d \in 1 .. Dims : 0 <= b[d] /\ b[d] < exchangeGridDim(GUARD, m, ex)[d]
  BY <1>2, <1>7, <1>8, BlocksAre
<1>10. c = plus(b, GuardBegin(ex))
  BY <1>1, <1>3, <1>7, <1>9, GuardLaunch
<1>11. c \in Vec(Dims) /\ \A d \in 1 .. Dims : c[d] = b[d] + GuardBegin(ex)[d]
  BY <1>2, <1>8, <1>9, <1>10, PlusVec
<1>12. /\ withoutGuard(m) \in Vec(Dims)
       /\ \A d \in 1 .. Dims : withoutGuard(m)[d] = m.grid[d] - 2 * m.guard[d]
  BY <1>1, Extents
<1>13. minus(c, moved) = [d \in 1 .. Dims |-> c[d] - moved[d]]
  <2>1. dims(c) = 1 .. Dims
    BY <1>2, <1>11, VecDims
  <2> QED BY <2>1 DEF minus
<1> DEFINE back(d) == CASE digit(mirror, d) = 1 -> m.grid[d] - m.guard[d] - 1
                        [] digit(mirror, d) = 2 -> m.guard[d]
                        [] OTHER                -> reduce(c, ex)[entry(Dims, mirror, d)]
<1>14. extend(reduce(c, ex), mirror, m.grid, m.guard) = [d \in 1 .. Dims |-> back(d)]
  BY <1>2 DEF extend, Dims
<1>15. ASSUME NEW d \in 1 .. Dims PROVE back(d) = c[d] - moved[d]
  <2>1. PICK G \in Nat, k \in Int : G = m.grid[d] /\ k = b[d]
    BY <1>6, <1>9 DEF Vec
  <2>2. m.guard[d] = 1 /\ withoutGuard(m)[d] = G - 2
    BY <1>5, <1>12, <2>1
  <2>3. moved[d] = (IF digit(ex, d) = 2 THEN -1 ELSE digit(ex, d)) * (G - 2)
    BY <1>2, <2>2 DEF getRelativeDirections, Dims
  <2> HIDE DEF moved, mirror, ex
  <2>4. CASE digit(ex, d) = 0
    <3>1. moved[d] = 0
      BY <2>1, <2>3, <2>4
    <3>2. digit(mirror, d) = 0
      BY <1>4, <2>4
    <3>3. back(d) = reduce(c, ex)[entry(Dims, mirror, d)]
      BY <3>2
    <3>4. \A i \in 1 .. Dims : digit(mirror, i) = 0 <=> digit(ex, i) = 0
      BY <1>4
    <3>5. reduce(c, ex)[entry(Dims, mirror, d)] = c[d]
      BY <1>2, <1>3, <1>4, <1>11, <2>4, <3>4, ReducedEntry
    <3>6. c[d] \in Int
      BY <1>11 DEF Vec
    <3> QED BY <3>1, <3>3, <3>5, <3>6
  <2>5. CASE digit(ex, d) = 1
    <3>1. moved[d] = G - 2
      BY <2>1, <2>3, <2>5
    <3>2. digit(mirror, d) = 2
      BY <1>4, <2>5
    <3>3. back(d) = 1
      BY <2>2, <3>2
    <3>4. 0 <= k /\ k < 1
      BY <1>8, <1>9, <2>1, <2>2, <2>5
    <3>5. GuardBegin(ex)[d] = G - 1
      BY <2>1, <2>2, <2>5 DEF GuardBegin
    <3>6. c[d] = k + (G - 1)
      BY <1>11, <2>1, <3>5
    <3> QED BY <3>1, <3>3, <3>4, <3>6
  <2>6. CASE digit(ex, d) = 2
    <3>1. moved[d] = -(G - 2)
      BY <2>1, <2>3, <2>6
    <3>2. digit(mirror, d) = 1
      BY <1>4, <2>6
    <3>3. back(d) = G - 1 - 1
      BY <2>1, <2>2, <3>2
    <3>4. 0 <= k /\ k < 1
      BY <1>8, <1>9, <2>1, <2>2, <2>6
    <3>5. GuardBegin(ex)[d] = 0
      BY <2>6 DEF GuardBegin
    <3>6. c[d] = k + 0
      BY <1>11, <2>1, <3>5
    <3> QED BY <3>1, <3>3, <3>4, <3>6
  <2> QED BY <1>4, <2>4, <2>5, <2>6
<1> QED
  <2> HIDE DEF back, moved, mirror, ex
  <2> QED BY <1>13, <1>14, <1>15

-----------------------------------------------------------------------------
(* The boxes of cells of the halo exchanges.                               *)

\* Blocks moved by an origin are a box.
LEMMA BoxIs ==
    ASSUME NEW n \in Dim, NEW origin \in Vec(n), NEW extent \in Vec(n)
    PROVE  {plus(origin, b) : b \in Blocks(extent)} = Box(n, origin, extent)
<1>1. n \in Nat
  BY DEF Dim
<1> DEFINE idx == [b \in Blocks(extent) |-> plus(origin, b)]
<1>2. ASSUME NEW b \in Blocks(extent)
      PROVE  idx[b] \in Vec(n) /\ \A d \in 1 .. n : idx[b][d] = b[d] + origin[d]
  <2>1. b \in Vec(n)
    BY BlocksAre
  <2>2. plus(origin, b) \in Vec(n) /\ \A d \in 1 .. n : plus(origin, b)[d] = origin[d] + b[d]
    BY <1>1, <2>1, PlusVec
  <2>3. \A d \in 1 .. n : origin[d] \in Int /\ b[d] \in Int
    BY <2>1 DEF Vec
  <2>4. \A d \in 1 .. n : origin[d] + b[d] = b[d] + origin[d]
    BY <2>3
  <2>5. idx[b] = plus(origin, b)
    OBVIOUS
  <2> HIDE DEF idx
  <2> QED BY <2>2, <2>4, <2>5
<1>3. {plus(origin, b) : b \in Blocks(extent)} = {idx[b] : b \in Blocks(extent)}
  OBVIOUS
<1> HIDE DEF idx
<1>4. Exact(Blocks(extent), idx, Box(n, origin, extent))
  BY <1>2, MovedExact DEF Moves
<1> QED BY <1>3, <1>4 DEF Exact

\* A box moved.
LEMMA MovedBox ==
    ASSUME NEW n \in Nat, NEW origin \in Vec(n), NEW extent \in Vec(n), NEW way \in Vec(n),
           NEW target \in Vec(n), \A d \in 1 .. n : target[d] = origin[d] - way[d]
    PROVE  {minus(c, way) : c \in Box(n, origin, extent)} = Box(n, target, extent)
<1>1. \A d \in 1 .. n : origin[d] \in Int /\ extent[d] \in Int /\ way[d] \in Int
  BY DEF Vec
<1>2. ASSUME NEW c \in Box(n, origin, extent) PROVE minus(c, way) \in Box(n, target, extent)
  <2>1. c \in Vec(n) /\ \A d \in 1 .. n : origin[d] <= c[d] /\ c[d] < origin[d] + extent[d]
    BY DEF Box
  <2>2. minus(c, way) \in Vec(n) /\ \A d \in 1 .. n : minus(c, way)[d] = c[d] - way[d]
    BY <2>1, MinusVec
  <2>3. ASSUME NEW d \in 1 .. n
        PROVE  target[d] <= minus(c, way)[d] /\ minus(c, way)[d] < target[d] + extent[d]
    <3>1. PICK x \in Int, o \in Int, e \in Int, w \in Int :
              x = c[d] /\ o = origin[d] /\ e = extent[d] /\ w = way[d]
      BY <1>1, <2>1 DEF Vec
    <3>2. o <= x /\ x < o + e /\ target[d] = o - w /\ minus(c, way)[d] = x - w
      BY <2>1, <2>2, <3>1
    <3> QED BY <3>1, <3>2
  <2> QED BY <2>2, <2>3 DEF Box
<1>3. ASSUME NEW y \in Box(n, target, extent) PROVE \E c \in Box(n, origin, extent) : y = minus(c, way)
  <2>1. y \in Vec(n) /\ \A d \in 1 .. n : target[d] <= y[d] /\ y[d] < target[d] + extent[d]
    BY DEF Box
  <2>2. plus(y, way) \in Vec(n) /\ \A d \in 1 .. n : plus(y, way)[d] = y[d] + way[d]
    BY <2>1, PlusVec
  <2>3. ASSUME NEW d \in 1 .. n
        PROVE  origin[d] <= plus(y, way)[d] /\ plus(y, way)[d] < origin[d] + extent[d]
    <3>1. PICK x \in Int, o \in Int, e \in Int, w \in Int :
              x = y[d] /\ o = origin[d] /\ e = extent[d] /\ w = way[d]
      BY <1>1, <2>1 DEF Vec
    <3>2. o - w <= x /\ x < o - w + e /\ plus(y, way)[d] = x + w
      BY <2>1, <2>2, <3>1
    <3> QED BY <3>1, <3>2
  <2>4. plus(y, way) \in Box(n, origin, extent)
    BY <2>2, <2>3 DEF Box
  <2>5. minus(plus(y, way), way) = y
    BY <2>1, PlusMinus
  <2> QED BY <2>4, <2>5
<1> QED BY <1>2, <1>3

\* The box of an exchange as deep as the guard.
LEMMA ExchangeBoxIs ==
    ASSUME SetupInv, NEW ex \in ExchangeTypes(Dims), NEW area \in {GUARD, BORDER}
    PROVE  /\ exchangeOffset(area, m, m.guard, ex) \in Vec(Dims) /\ exchangeSize(m, m.guard, ex) \in Vec(Dims)
           /\ \A d \in 1 .. Dims :
                 /\ exchangeSize(m, m.guard, ex)[d] =
                        IF digit(ex, d) # 0 THEN m.guard[d] ELSE m.grid[d] - 2 * m.guard[d]
                 /\ digit(ex, d) = 0 => exchangeOffset(area, m, m.guard, ex)[d] = m.guard[d]
                 /\ digit(ex, d) = 1 => exchangeOffset(area, m, m.guard, ex)[d] =
                                            m.grid[d] - (IF area = GUARD THEN 1 ELSE 2) * m.guard[d]
                 /\ digit(ex, d) = 2 => exchangeOffset(area, m, m.guard, ex)[d] =
                                            IF area = GUARD THEN 0 ELSE m.guard[d]
           /\ ExchangeBox(area, m, m.guard, ex) =
                 Box(Dims, exchangeOffset(area, m, m.guard, ex), exchangeSize(m, m.guard, ex))
<1>1. Dims \in Nat /\ Dims \in Dim /\ dims(m.grid) = 1 .. Dims
  BY Accepted
<1>2. \A d \in 1 .. Dims : digit(ex, d) \in {0, 1, 2}
  BY <1>1, Directions
<1>3. \A d \in 1 .. Dims : m.grid[d] \in Nat /\ m.guard[d] \in Nat
  BY Accepted
<1>4. /\ withoutGuard(m) \in Vec(Dims)
      /\ \A d \in 1 .. Dims : withoutGuard(m)[d] = m.grid[d] - 2 * m.guard[d]
  BY Extents
<1> DEFINE size == exchangeSize(m, m.guard, ex)
           off  == exchangeOffset(area, m, m.guard, ex)
<1>5. /\ size \in Vec(Dims)
      /\ \A d \in 1 .. Dims : size[d] = IF digit(ex, d) # 0 THEN m.guard[d] ELSE m.grid[d] - 2 * m.guard[d]
  <2>1. size = [d \in 1 .. Dims |-> IF digit(ex, d) # 0 THEN m.guard[d] ELSE withoutGuard(m)[d]]
    BY <1>1 DEF exchangeSize
  <2> HIDE DEF size
  <2> QED BY <1>3, <1>4, <2>1 DEF Vec
<1> DEFINE at(d) == IF digit(ex, d) = 1 THEN m.grid[d] - m.guard[d] - (IF area = GUARD THEN 0 ELSE m.guard[d])
                    ELSE m.guard[d] - (IF area = GUARD /\ digit(ex, d) = 2 THEN m.guard[d] ELSE 0)
<1>6. off = [d \in 1 .. Dims |-> at(d)]
  BY <1>1 DEF exchangeOffset
<1>7. ASSUME NEW d \in 1 .. Dims
      PROVE  /\ at(d) \in Int
             /\ digit(ex, d) = 0 => at(d) = m.guard[d]
             /\ digit(ex, d) = 1 => at(d) = m.grid[d] - (IF area = GUARD THEN 1 ELSE 2) * m.guard[d]
             /\ digit(ex, d) = 2 => at(d) = IF area = GUARD THEN 0 ELSE m.guard[d]
  <2>1. PICK g \in Nat, G \in Nat : g = m.guard[d] /\ G = m.grid[d]
    BY <1>3
  <2>2. at(d) = IF digit(ex, d) = 1 THEN G - g - (IF area = GUARD THEN 0 ELSE g)
                ELSE g - (IF area = GUARD /\ digit(ex, d) = 2 THEN g ELSE 0)
    BY <2>1
  <2> HIDE DEF at
  <2>3. CASE area = GUARD
    <3>1. at(d) = IF digit(ex, d) = 1 THEN G - g ELSE g - (IF digit(ex, d) = 2 THEN g ELSE 0)
      BY <2>2, <2>3
    <3>2. G - (IF area = GUARD THEN 1 ELSE 2) * g = G - g
      BY <2>3
    <3> QED BY <1>2, <2>1, <2>3, <3>1, <3>2
  <2>4. CASE area # GUARD
    <3>1. at(d) = IF digit(ex, d) = 1 THEN G - g - g ELSE g
      BY <2>2, <2>4
    <3>2. G - (IF area = GUARD THEN 1 ELSE 2) * g = G - g - g
      BY <2>4
    <3> QED BY <1>2, <2>1, <2>4, <3>1, <3>2
  <2> QED BY <2>3, <2>4
<1> HIDE DEF at
<1>8. off \in Vec(Dims)
  BY <1>6, <1>7 DEF Vec
<1>9. ExchangeBox(area, m, m.guard, ex) = Box(Dims, off, size)
  <2>1. ExchangeBox(area, m, m.guard, ex) = {plus(off, b) : b \in Blocks(size)}
    BY DEF ExchangeBox
  <2> HIDE DEF off, size
  <2> QED BY <1>1, <1>5, <1>8, <2>1, BoxIs
<1> QED BY <1>5, <1>6, <1>7, <1>8, <1>9

\* What is sent in a direction is what the neighbour receives, in a box of its guard of its own.
LEMMA HaloMatches == WInv => HaloBoxesMatch
<1> DEFINE ex     == mapper.ex
           mirror == getMirroredExchangeType(ex)
           moved  == [d \in dims(m.grid) |-> getRelativeDirections(Len(m.grid), ex)[d] * withoutGuard(m)[d]]
           halo   == ExchangeBox(GUARD, m, m.guard, mirror)
<1> SUFFICES ASSUME WInv, mapper.kind = "exchange", mapper.area = GUARD
             PROVE  /\ {minus(c, moved) : c \in ExchangeBox(BORDER, m, m.guard, ex)} = halo
                    /\ \A c \in halo : inArea(c, GUARD)
                    /\ bordersOwned => \A c \in ExchangeBox(BORDER, m, m.guard, ex) : inArea(c, CORE_BORDER)
                    /\ \A other \in ExchangeTypes(Len(m.grid)) \ {mirror} :
                          ExchangeBox(GUARD, m, m.guard, other) \cap halo = {}
  BY DEF HaloBoxesMatch
<1>1. SetupInv
  BY DEF WInv
<1>2. Dims \in Nat /\ Dims \in Dim /\ dims(m.grid) = 1 .. Dims
  BY <1>1, Accepted
<1>3. ex \in ExchangeTypes(Dims)
  BY <1>1, MapperFields
<1>4. /\ mirror \in ExchangeTypes(Dims)
      /\ \A d \in 1 .. Dims : /\ digit(ex, d) \in {0, 1, 2}
                              /\ digit(ex, d) = 0 => digit(mirror, d) = 0
                              /\ digit(ex, d) = 1 => digit(mirror, d) = 2
                              /\ digit(ex, d) = 2 => digit(mirror, d) = 1
  BY <1>2, <1>3, MirrorDigits, Directions
<1>5. \A d \in 1 .. Dims : /\ m.grid[d] \in Nat /\ m.guard[d] \in Nat
                           /\ m.guard[d] >= 1 /\ m.grid[d] >= 2 * m.guard[d] + 1
  BY <1>1, Accepted
<1>6. /\ withoutGuard(m) \in Vec(Dims)
      /\ \A d \in 1 .. Dims : withoutGuard(m)[d] = m.grid[d] - 2 * m.guard[d]
  BY <1>1, Extents
<1>7. /\ moved \in Vec(Dims)
      /\ \A d \in 1 .. Dims :
            moved[d] = (IF digit(ex, d) = 2 THEN -1 ELSE digit(ex, d)) * (m.grid[d] - 2 * m.guard[d])
  <2>1. moved = [d \in 1 .. Dims |->
                   (IF digit(ex, d) = 2 THEN -1 ELSE digit(ex, d)) * (m.grid[d] - 2 * m.guard[d])]
    BY <1>2, <1>6 DEF getRelativeDirections, Dims
  <2>2. ASSUME NEW d \in 1 .. Dims
        PROVE  (IF digit(ex, d) = 2 THEN -1 ELSE digit(ex, d)) * (m.grid[d] - 2 * m.guard[d]) \in Int
    BY <1>4, <1>5
  <2> HIDE DEF moved
  <2> QED BY <2>1, <2>2 DEF Vec
<1> HIDE DEF moved, mirror, ex
<1>8. {minus(c, moved) : c \in ExchangeBox(BORDER, m, m.guard, ex)} = halo
  <2> DEFINE origin == exchangeOffset(BORDER, m, m.guard, ex)
             target == exchangeOffset(GUARD, m, m.guard, mirror)
             size   == exchangeSize(m, m.guard, ex)
             back   == exchangeSize(m, m.guard, mirror)
  <2>1. /\ origin \in Vec(Dims) /\ size \in Vec(Dims)
        /\ \A d \in 1 .. Dims :
              /\ size[d] = IF digit(ex, d) # 0 THEN m.guard[d] ELSE m.grid[d] - 2 * m.guard[d]
              /\ digit(ex, d) = 0 => origin[d] = m.guard[d]
              /\ digit(ex, d) = 1 => origin[d] = m.grid[d] - (IF BORDER = GUARD THEN 1 ELSE 2) * m.guard[d]
              /\ digit(ex, d) = 2 => origin[d] = IF BORDER = GUARD THEN 0 ELSE m.guard[d]
        /\ ExchangeBox(BORDER, m, m.guard, ex) = Box(Dims, origin, size)
    BY <1>1, <1>3, ExchangeBoxIs
  <2>2. /\ target \in Vec(Dims) /\ back \in Vec(Dims)
        /\ \A d \in 1 .. Dims :
              /\ back[d] = IF digit(mirror, d) # 0 THEN m.guard[d] ELSE m.grid[d] - 2 * m.guard[d]
              /\ digit(mirror, d) = 0 => target[d] = m.guard[d]
              /\ digit(mirror, d) = 1 => target[d] = m.grid[d] - (IF GUARD = GUARD THEN 1 ELSE 2) * m.guard[d]
              /\ digit(mirror, d) = 2 => target[d] = IF GUARD = GUARD THEN 0 ELSE m.guard[d]
        /\ halo = Box(Dims, target, back)
    BY <1>1, <1>4, ExchangeBoxIs
  <2> HIDE DEF origin, target, size, back, halo
  <2>3. BORDER # GUARD
    BY DEF BORDER, GUARD
  <2>4. \A d \in 1 .. Dims : size[d] = back[d]
    BY <1>4, <2>1, <2>2
  <2>5. size = back
    BY <1>2, <2>1, <2>2, <2>4, VecEqual
  <2>6. ASSUME NEW d \in 1 .. Dims PROVE target[d] = origin[d] - moved[d]
    <3>1. PICK g \in Nat, G \in Nat : g = m.guard[d] /\ G = m.grid[d]
      BY <1>5
    <3>2. moved[d] = (IF digit(ex, d) = 2 THEN -1 ELSE digit(ex, d)) * (G - 2 * g)
      BY <1>7, <3>1
    <3>3. CASE digit(ex, d) = 0
      <4>1. moved[d] = 0
        BY <3>2, <3>3
      <4>2. origin[d] = g /\ target[d] = g
        BY <1>4, <2>1, <2>2, <3>1, <3>3
      <4> QED BY <4>1, <4>2
    <3>4. CASE digit(ex, d) = 1
      <4>1. moved[d] = G - 2 * g
        BY <3>2, <3>4
      <4>2. origin[d] = G - 2 * g /\ target[d] = 0
        BY <1>4, <2>1, <2>2, <2>3, <3>1, <3>4
      <4> QED BY <4>1, <4>2
    <3>5. CASE digit(ex, d) = 2
      <4>1. moved[d] = -(G - 2 * g)
        BY <3>2, <3>5
      <4>2. origin[d] = g
        BY <2>1, <2>3, <3>1, <3>5
      <4>3. target[d] = G - 1 * g
        BY <1>4, <2>2, <3>1, <3>5
      <4> QED BY <4>1, <4>2, <4>3
    <3> QED BY <1>4, <3>3, <3>4, <3>5
  <2>7. Dims \in Nat /\ moved \in Vec(Dims)
    BY <1>2, <1>7
  <2>8. {minus(c, moved) : c \in Box(Dims, origin, size)} = Box(Dims, target, size)
    <3>1. origin \in Vec(Dims) /\ size \in Vec(Dims) /\ target \in Vec(Dims)
      BY <2>1, <2>2
    <3>2. \A d \in 1 .. Dims : target[d] = origin[d] - moved[d]
      BY <2>6
    <3> QED BY <2>7, <3>1, <3>2, MovedBox
  <2> QED BY <2>1, <2>2, <2>5, <2>8
\* Where a direction's box lies in the guard, in one dimension.
<1>9. ASSUME NEW side \in ExchangeTypes(Dims), NEW c \in ExchangeBox(GUARD, m, m.guard, side), NEW d \in 1 .. Dims
      PROVE  /\ c \in Vec(Dims) /\ c[d] \in Int
             /\ digit(side, d) = 0 => m.guard[d] <= c[d] /\ c[d] < m.grid[d] - m.guard[d]
             /\ digit(side, d) = 1 => m.grid[d] - m.guard[d] <= c[d]
             /\ digit(side, d) = 2 => c[d] < m.guard[d]
  <2> DEFINE off  == exchangeOffset(GUARD, m, m.guard, side)
             size == exchangeSize(m, m.guard, side)
  <2>1. /\ size[d] = IF digit(side, d) # 0 THEN m.guard[d] ELSE m.grid[d] - 2 * m.guard[d]
        /\ digit(side, d) = 0 => off[d] = m.guard[d]
        /\ digit(side, d) = 1 => off[d] = m.grid[d] - (IF GUARD = GUARD THEN 1 ELSE 2) * m.guard[d]
        /\ digit(side, d) = 2 => off[d] = IF GUARD = GUARD THEN 0 ELSE m.guard[d]
    BY <1>1, ExchangeBoxIs
  <2>2. ExchangeBox(GUARD, m, m.guard, side) = Box(Dims, off, size)
    BY <1>1, ExchangeBoxIs
  <2> HIDE DEF off, size
  <2>3. c \in Vec(Dims) /\ off[d] <= c[d] /\ c[d] < off[d] + size[d]
    BY <1>9, <2>2 DEF Box
  <2>4. PICK g \in Nat, G \in Nat, x \in Int : g = m.guard[d] /\ G = m.grid[d] /\ x = c[d]
    BY <1>5, <2>3 DEF Vec
  <2>5. digit(side, d) = 0 => off[d] = g /\ size[d] = G - 2 * g
    BY <2>1, <2>4
  <2>6. digit(side, d) = 1 => off[d] = G - 1 * g
    BY <2>1, <2>4
  <2>7. digit(side, d) = 2 => off[d] = 0 /\ size[d] = g
    BY <2>1, <2>4
  <2> QED BY <2>3, <2>4, <2>5, <2>6, <2>7
<1>10. ASSUME NEW c \in halo PROVE inArea(c, GUARD)
  <2>1. PICK d \in 1 .. Dims : digit(mirror, d) # 0
    BY <1>2, <1>4, DirectionMoves
  <2>2. digit(mirror, d) \in {1, 2}
    BY <1>2, <1>4, <2>1, Directions
  <2>3. /\ c \in Vec(Dims) /\ c[d] \in Int
        /\ digit(mirror, d) = 1 => m.grid[d] - m.guard[d] <= c[d]
        /\ digit(mirror, d) = 2 => c[d] < m.guard[d]
    BY <1>4, <1>9
  <2>4. dims(c) = 1 .. Dims
    BY <1>2, <2>3, VecDims
  <2>5. PICK g \in Nat, G \in Nat, x \in Int : g = m.guard[d] /\ G = m.grid[d] /\ x = c[d]
    BY <1>5, <2>3
  <2>6. 1 * g = g
    OBVIOUS
  <2>7. ~ within(c, d, 1)
    <3>1. low(c, d, 1) <=> x < g
      BY <2>5, <2>6 DEF low
    <3>2. high(c, d, 1) <=> x >= G - g
      BY <2>5, <2>6 DEF high
    <3>3. x < g \/ x >= G - g
      BY <2>2, <2>3, <2>5
    <3> QED BY <3>1, <3>2, <3>3 DEF within
  <2> QED BY <2>4, <2>7 DEF inArea, ALL, CORE, BORDER, GUARD, CORE_BORDER
<1>11. ASSUME NEW other \in ExchangeTypes(Dims), other # mirror
       PROVE  ExchangeBox(GUARD, m, m.guard, other) \cap halo = {}
  <2>1. PICK d \in 1 .. Dims : digit(mirror, d) # digit(other, d)
    BY <1>2, <1>4, <1>11, DigitsTell
  <2>2. digit(mirror, d) \in {0, 1, 2} /\ digit(other, d) \in {0, 1, 2}
    BY <1>2, <1>4, <1>11, Directions
  <2>3. PICK g \in Nat, G \in Nat : g = m.guard[d] /\ G = m.grid[d] /\ g >= 1 /\ G >= 2 * g + 1
    BY <1>5
  <2>4. ASSUME NEW c, c \in ExchangeBox(GUARD, m, m.guard, other), c \in halo PROVE FALSE
    <3>1. /\ digit(other, d) = 0 => g <= c[d] /\ c[d] < G - g
          /\ digit(other, d) = 1 => G - g <= c[d]
          /\ digit(other, d) = 2 => c[d] < g
      BY <1>9, <2>3, <2>4
    <3>2. /\ c[d] \in Int
          /\ digit(mirror, d) = 0 => g <= c[d] /\ c[d] < G - g
          /\ digit(mirror, d) = 1 => G - g <= c[d]
          /\ digit(mirror, d) = 2 => c[d] < g
      BY <1>4, <1>9, <2>3, <2>4
    <3>3. PICK x \in Int : x = c[d]
      BY <3>2
    <3> QED BY <2>1, <2>2, <2>3, <3>1, <3>2, <3>3
  <2> QED BY <2>4
<1>12. ASSUME bordersOwned, NEW c \in ExchangeBox(BORDER, m, m.guard, ex) PROVE inArea(c, CORE_BORDER)
  <2> DEFINE off  == exchangeOffset(BORDER, m, m.guard, ex)
             size == exchangeSize(m, m.guard, ex)
  <2>1. /\ \A d \in 1 .. Dims :
              /\ size[d] = IF digit(ex, d) # 0 THEN m.guard[d] ELSE m.grid[d] - 2 * m.guard[d]
              /\ digit(ex, d) = 0 => off[d] = m.guard[d]
              /\ digit(ex, d) = 1 => off[d] = m.grid[d] - (IF BORDER = GUARD THEN 1 ELSE 2) * m.guard[d]
              /\ digit(ex, d) = 2 => off[d] = IF BORDER = GUARD THEN 0 ELSE m.guard[d]
        /\ ExchangeBox(BORDER, m, m.guard, ex) = Box(Dims, off, size)
    BY <1>1, <1>3, ExchangeBoxIs
  <2> HIDE DEF off, size
  <2>2. BORDER # GUARD
    BY DEF BORDER, GUARD
  <2>3. c \in Vec(Dims) /\ \A d \in 1 .. Dims : off[d] <= c[d] /\ c[d] < off[d] + size[d]
    BY <1>12, <2>1 DEF Box
  <2>4. dims(c) = 1 .. Dims
    BY <1>2, <2>3, VecDims
  <2>5. ASSUME NEW d \in 1 .. Dims PROVE within(c, d, 1)
    <3>1. PICK g \in Nat, G \in Nat, x \in Int : g = m.guard[d] /\ G = m.grid[d] /\ x = c[d]
      BY <1>5, <2>3 DEF Vec
    <3>2. G >= 3 * g
      BY <1>2, <1>12, <3>1 DEF bordersOwned
    <3>3. off[d] <= x /\ x < off[d] + size[d]
      BY <2>3, <3>1
    <3>4. digit(ex, d) = 0 => off[d] = g /\ size[d] = G - 2 * g
      BY <2>1, <3>1
    <3>5. digit(ex, d) = 1 => off[d] = G - 2 * g /\ size[d] = g
      BY <2>1, <2>2, <3>1
    <3>6. digit(ex, d) = 2 => off[d] = g /\ size[d] = g
      BY <2>1, <2>2, <3>1
    <3>7. g <= x /\ x < G - g
      BY <1>4, <3>2, <3>3, <3>4, <3>5, <3>6
    <3>8. 1 * g = g
      OBVIOUS
    <3> QED BY <3>1, <3>7, <3>8 DEF within, low, high
  <2> QED BY <2>4, <2>5 DEF inArea, ALL, CORE, BORDER, GUARD, CORE_BORDER
<1> QED BY <1>8, <1>10, <1>11, <1>12 DEF Dims

-----------------------------------------------------------------------------
(* Guard cells that are added to the neighbour's border.                   *)

\* Indices that meet every element of a finite set once count it.
LEMMA ExactCardinality ==
    ASSUME NEW B, NEW idx, NEW E, Exact(B, idx, E), IsFiniteSet(B)
    PROVE  IsFiniteSet(E) /\ Cardinality(E) = Cardinality(B)
<1> DEFINE f == [b \in B |-> idx[b]]
<1>1. f \in [B -> E]
  BY DEF Exact
<1>2. \A a, b \in B : f[a] = f[b] => a = b
  BY DEF Exact
<1>3. \A c \in E : \E b \in B : f[b] = c
  BY DEF Exact
<1> HIDE DEF f
<1>4. f \in Bijection(B, E)
  BY <1>1, <1>2, <1>3 DEF Bijection, Injection, Surjection, IsInjective
<1>5. ExistsBijection(B, E)
  BY <1>4 DEF ExistsBijection
<1> QED BY <1>5, FS_Bijection

\* A launch has finitely many blocks.
LEMMA BlocksFinite ==
    ASSUME NEW n \in Dim, NEW e \in Extent(n)
    PROVE  IsFiniteSet(Blocks(e))
<1>1. PICK size \in Nat : size = productOfComponents(e)
  BY ProductNat
<1> DEFINE K == 0 .. size - 1
           idx == [k \in K |-> mapToND(e, k)]
<1>2. \A v \in Blocks(e) : linearize(e, v) \in K /\ mapToND(e, linearize(e, v)) = v
  BY <1>1, Numbering
<1>3. \A k \in K : mapToND(e, k) \in Blocks(e) /\ linearize(e, mapToND(e, k)) = k
  BY <1>1, Numbering
<1>4. IsFiniteSet(K)
  BY FS_Interval
<1> HIDE DEF K
<1>5. Exact(K, idx, Blocks(e))
  BY <1>2, <1>3 DEF Exact
<1> HIDE DEF idx
<1> QED BY <1>4, <1>5, ExactCardinality

\* Cells of a supercell, in one dimension.
LEMMA CellOfSupercell ==
    ASSUME NEW e \in Nat \ {0}, NEW D \in Int
    PROVE  /\ \A b, i \in Int : 0 <= b /\ b < D /\ 0 <= i /\ i < e => 0 <= e * b + i /\ e * b + i < e * D
           /\ \A c \in Int : 0 <= c /\ c < e * D =>
                 /\ c \div e \in Int /\ c % e \in Int
                 /\ 0 <= c \div e /\ c \div e < D /\ 0 <= c % e /\ c % e < e /\ c = e * (c \div e) + (c % e)
<1>1. ASSUME NEW b \in Int, NEW i \in Int, 0 <= b, b < D, 0 <= i, i < e
      PROVE  0 <= e * b + i /\ e * b + i < e * D
  <2>1. PICK p \in Int, q \in Int : p = e * b /\ q = e * D
    OBVIOUS
  <2>2. p >= 0
    BY <1>1, <2>1
  <2>3. e * (D - 1 - b) >= 0
    BY <1>1
  <2>4. e * (D - 1 - b) = q - e - p
    BY <2>1
  <2> QED BY <1>1, <2>1, <2>2, <2>3, <2>4
<1>2. ASSUME NEW c \in Int, 0 <= c, c < e * D
      PROVE  /\ c \div e \in Int /\ c % e \in Int
             /\ 0 <= c \div e /\ c \div e < D /\ 0 <= c % e /\ c % e < e /\ c = e * (c \div e) + (c % e)
  <2>1. c \in Nat
    BY <1>2
  <2>2. PICK q \in Nat, r \in Nat : q = c \div e /\ r = c % e /\ r < e /\ c = q * e + r
    BY <2>1, DivMod
  <2>3. q * e = e * q
    OBVIOUS
  <2>4. q < D
    <3>1. SUFFICES ASSUME q >= D PROVE FALSE
      OBVIOUS
    <3>2. e * (q - D) >= 0
      BY <3>1
    <3>3. PICK y \in Int, z \in Int : y = e * q /\ z = e * D
      OBVIOUS
    <3>4. e * (q - D) = y - z
      BY <3>3
    <3> QED BY <1>2, <2>2, <2>3, <3>2, <3>3, <3>4
  <2> QED BY <2>2, <2>3, <2>4
<1> QED BY <1>1, <1>2

\* The cells a launch over the guard reaches are a box.
LEMMA LaunchedCellsAre ==
    ASSUME SetupInv, NEW ex \in ExchangeTypes(Dims), NEW e \in Nat \ {0}
    PROVE  \A c : c \in launchedCells(m, e, ex) <=>
              /\ c \in Vec(Dims)
              /\ \A d \in 1 .. Dims : 0 <= c[d] /\ c[d] < e * exchangeGridDim(GUARD, m, ex)[d]
<1> DEFINE D == exchangeGridDim(GUARD, m, ex)
<1>1. Dims \in Nat /\ Dims \in Dim /\ m.grid \in Vec(Dims)
  BY Accepted
<1>2. D \in Vec(Dims)
  BY GuardLaunch
<1>3. launchedCells(m, e, ex) = {plus(times(e, b), i) : b \in Blocks(D), i \in Blocks(same(m.grid, e))}
  BY DEF launchedCells
<1> HIDE DEF D
<1>4. same(m.grid, e) \in Vec(Dims) /\ \A d \in 1 .. Dims : same(m.grid, e)[d] = e
  BY <1>1, SameVec
<1>5. \A b : b \in Blocks(D) <=> b \in Vec(Dims) /\ \A d \in 1 .. Dims : 0 <= b[d] /\ b[d] < D[d]
  BY <1>1, <1>2, BlocksAre
<1>6. \A i : i \in Blocks(same(m.grid, e)) <=> i \in Vec(Dims) /\ \A d \in 1 .. Dims : 0 <= i[d] /\ i[d] < e
  <2>1. \A i : i \in Blocks(same(m.grid, e)) <=>
               i \in Vec(Dims) /\ \A d \in 1 .. Dims : 0 <= i[d] /\ i[d] < same(m.grid, e)[d]
    BY <1>1, <1>4, BlocksAre
  <2> QED BY <1>4, <2>1
<1>7. ASSUME NEW b \in Blocks(D), NEW i \in Blocks(same(m.grid, e))
      PROVE  /\ plus(times(e, b), i) \in Vec(Dims)
             /\ \A d \in 1 .. Dims : 0 <= plus(times(e, b), i)[d] /\ plus(times(e, b), i)[d] < e * D[d]
  <2>1. b \in Vec(Dims) /\ i \in Vec(Dims)
    BY <1>5, <1>6
  <2>2. times(e, b) \in Vec(Dims) /\ \A d \in 1 .. Dims : times(e, b)[d] = e * b[d]
    BY <1>1, <2>1, TimesVec
  <2>3. /\ plus(times(e, b), i) \in Vec(Dims)
        /\ \A d \in 1 .. Dims : plus(times(e, b), i)[d] = times(e, b)[d] + i[d]
    BY <1>1, <2>1, <2>2, PlusVec
  <2>4. ASSUME NEW d \in 1 .. Dims
        PROVE  0 <= plus(times(e, b), i)[d] /\ plus(times(e, b), i)[d] < e * D[d]
    <3>1. b[d] \in Int /\ i[d] \in Int /\ D[d] \in Int
      BY <1>2, <2>1 DEF Vec
    <3>2. 0 <= b[d] /\ b[d] < D[d] /\ 0 <= i[d] /\ i[d] < e
      BY <1>5, <1>6
    <3>3. 0 <= e * b[d] + i[d] /\ e * b[d] + i[d] < e * D[d]
      BY <3>1, <3>2, CellOfSupercell
    <3> QED BY <2>2, <2>3, <3>3
  <2> QED BY <2>3, <2>4
<1>8. ASSUME NEW c \in Vec(Dims), \A d \in 1 .. Dims : 0 <= c[d] /\ c[d] < e * D[d]
      PROVE  c \in launchedCells(m, e, ex)
  <2> DEFINE b == [d \in 1 .. Dims |-> c[d] \div e]
             i == [d \in 1 .. Dims |-> c[d] % e]
  <2>1. ASSUME NEW d \in 1 .. Dims
        PROVE  /\ c[d] \div e \in Int /\ c[d] % e \in Int
               /\ 0 <= c[d] \div e /\ c[d] \div e < D[d] /\ 0 <= c[d] % e /\ c[d] % e < e
               /\ c[d] = e * (c[d] \div e) + (c[d] % e)
    <3>1. c[d] \in Int /\ D[d] \in Int /\ 0 <= c[d] /\ c[d] < e * D[d]
      BY <1>2, <1>8 DEF Vec
    <3> QED BY <3>1, CellOfSupercell
  <2>2. b \in Vec(Dims) /\ i \in Vec(Dims) /\ \A d \in 1 .. Dims : b[d] = c[d] \div e /\ i[d] = c[d] % e
    BY <2>1 DEF Vec
  <2> HIDE DEF b, i
  <2>3. b \in Blocks(D) /\ i \in Blocks(same(m.grid, e))
    BY <1>5, <1>6, <2>1, <2>2
  <2>4. times(e, b) \in Vec(Dims) /\ \A d \in 1 .. Dims : times(e, b)[d] = e * b[d]
    <3>1. Dims \in Nat /\ e \in Int /\ b \in Vec(Dims)
      BY <1>1, <2>2
    <3> QED BY <3>1, TimesVec, ZenonT(30)
  <2>5. /\ plus(times(e, b), i) \in Vec(Dims)
        /\ \A d \in 1 .. Dims : plus(times(e, b), i)[d] = times(e, b)[d] + i[d]
    BY <1>1, <2>2, <2>4, PlusVec
  <2>6. \A d \in 1 .. Dims : plus(times(e, b), i)[d] = c[d]
    BY <2>1, <2>2, <2>4, <2>5
  <2>7. plus(times(e, b), i) = c
    BY <1>1, <2>5, <2>6, VecEqual
  <2> QED BY <1>3, <2>3, <2>7
<1>9. ASSUME NEW c, c \in launchedCells(m, e, ex)
      PROVE  c \in Vec(Dims) /\ \A d \in 1 .. Dims : 0 <= c[d] /\ c[d] < e * D[d]
  <2>1. PICK b \in Blocks(D), i \in Blocks(same(m.grid, e)) : c = plus(times(e, b), i)
    BY <1>3, <1>9
  <2> QED BY <1>7, <2>1
<1> QED BY <1>8, <1>9 DEF D

\* The first cell of the launch an exchange of depth w reaches, and the extent of the exchange.
Skip(ex, w) == [d \in 1 .. Dims |-> IF digit(ex, d) = 2 THEN m.guard[d] * Edge - w ELSE 0]

Deep(ex, w) == [d \in 1 .. Dims |-> IF digit(ex, d) # 0 THEN w ELSE withoutGuard(m)[d] * Edge]

\* They are vectors.
LEMMA SkipAndDeep ==
    ASSUME SetupInv, NEW ex \in ExchangeTypes(Dims), NEW w \in 1 .. Edge
    PROVE  /\ Skip(ex, w) \in Vec(Dims) /\ Deep(ex, w) \in Extent(Dims) /\ Deep(ex, w) \in Vec(Dims)
           /\ \A d \in 1 .. Dims : m.guard[d] * Edge \in Int /\ m.guard[d] * Edge >= w
<1>1. Dims \in Nat /\ Dims \in Dim /\ Edge \in Nat
  BY Accepted, WalkConstants
<1>2. \A d \in 1 .. Dims : /\ m.grid[d] \in Nat /\ m.guard[d] \in Nat
                           /\ m.guard[d] >= 1 /\ m.grid[d] >= 2 * m.guard[d] + 1
  BY Accepted
<1>3. \A d \in 1 .. Dims : withoutGuard(m)[d] = m.grid[d] - 2 * m.guard[d]
  BY Extents
<1>4. ASSUME NEW d \in 1 .. Dims
      PROVE  /\ m.guard[d] * Edge \in Int /\ m.guard[d] * Edge >= w
             /\ withoutGuard(m)[d] * Edge \in Int /\ withoutGuard(m)[d] * Edge >= 0
  <2>1. PICK g \in Nat, W \in Nat : g = m.guard[d] /\ g >= 1 /\ W = withoutGuard(m)[d]
    BY <1>2, <1>3
  <2>2. (g - 1) * Edge >= 0 /\ (g - 1) * Edge = g * Edge - Edge /\ g * Edge \in Int
    BY <1>1, <2>1
  <2>3. g * Edge >= w
    BY <1>1, <2>2
  <2>4. W * Edge \in Int /\ W * Edge >= 0
    BY <1>1
  <2> QED BY <2>1, <2>2, <2>3, <2>4
<1>5. w \in Int /\ w >= 0
  BY <1>1
<1>6. Skip(ex, w) \in Vec(Dims)
  BY <1>4, <1>5 DEF Skip, Vec
<1>7. Deep(ex, w) \in Vec(Dims)
  BY <1>4, <1>5 DEF Deep, Vec
<1>8. \A d \in 1 .. Dims : Deep(ex, w)[d] >= 0
  BY <1>4, <1>5 DEF Deep
<1> QED BY <1>4, <1>6, <1>7, <1>8 DEF Extent

\* Cells of the guard as deep as the exchange.
Reaches(ex, w, c) ==
    \A d \in 1 .. Dims : /\ digit(ex, d) = 2 => c[d] >= beyond(m, Edge, w, d)
                         /\ digit(ex, d) = 1 => c[d] < w

\* They are a box of the launch, over the guard of the direction or of its mirror image.
LEMMA CellsReached ==
    ASSUME SetupInv, NEW ex \in ExchangeTypes(Dims), NEW side \in ExchangeTypes(Dims), NEW w \in 1 .. Edge,
           \A d \in 1 .. Dims : digit(side, d) = 0 <=> digit(ex, d) = 0
    PROVE  {c \in launchedCells(m, Edge, side) : Reaches(ex, w, c)} = Box(Dims, Skip(ex, w), Deep(ex, w))
<1>1. Dims \in Nat /\ Dims \in Dim /\ Edge \in Nat \ {0}
  BY Accepted, WalkConstants
<1>2. \A d \in 1 .. Dims : m.grid[d] \in Nat /\ m.guard[d] \in Nat
  BY Accepted
<1>3. \A d \in 1 .. Dims : withoutGuard(m)[d] = m.grid[d] - 2 * m.guard[d]
  BY Extents
<1>4. \A d \in 1 .. Dims : digit(ex, d) \in {0, 1, 2}
  BY <1>1, Directions
<1>5. \A d \in 1 .. Dims : exchangeGridDim(GUARD, m, side)[d] =
                               IF digit(side, d) # 0 THEN m.guard[d] ELSE m.grid[d] - 2 * m.guard[d]
  BY GuardLaunch
<1>6. \A d \in 1 .. Dims : m.guard[d] * Edge \in Int /\ m.guard[d] * Edge >= w
  BY SkipAndDeep
<1>7. ASSUME NEW c \in Vec(Dims), NEW d \in 1 .. Dims
      PROVE  (/\ 0 <= c[d] /\ c[d] < Edge * exchangeGridDim(GUARD, m, side)[d]
              /\ digit(ex, d) = 2 => c[d] >= beyond(m, Edge, w, d)
              /\ digit(ex, d) = 1 => c[d] < w)
             <=> Skip(ex, w)[d] <= c[d] /\ c[d] < Skip(ex, w)[d] + Deep(ex, w)[d]
  <2>1. PICK x \in Int, g \in Nat, W \in Int : x = c[d] /\ g = m.guard[d] /\ W = m.grid[d] - 2 * m.guard[d]
    BY <1>2, <1>7 DEF Vec
  <2>2. PICK p \in Int, q \in Int : p = g * Edge /\ q = W * Edge
    BY <1>1
  <2>3. Edge * g = p /\ Edge * W = q
    BY <1>1, <2>2
  <2>4. beyond(m, Edge, w, d) = p - w /\ p >= w
    BY <1>6, <2>1, <2>2 DEF beyond
  <2>5. CASE digit(ex, d) = 0
    <3>1. Edge * exchangeGridDim(GUARD, m, side)[d] = q
      BY <1>5, <2>1, <2>3, <2>5
    <3>2. Skip(ex, w)[d] = 0 /\ Deep(ex, w)[d] = q
      BY <1>3, <2>1, <2>2, <2>5 DEF Skip, Deep
    <3> QED BY <2>1, <2>5, <3>1, <3>2
  <2>6. CASE digit(ex, d) = 1
    <3>1. Edge * exchangeGridDim(GUARD, m, side)[d] = p
      BY <1>5, <2>1, <2>3, <2>6
    <3>2. Skip(ex, w)[d] = 0 /\ Deep(ex, w)[d] = w
      BY <2>6 DEF Skip, Deep
    <3> QED BY <1>1, <2>1, <2>4, <2>6, <3>1, <3>2
  <2>7. CASE digit(ex, d) = 2
    <3>1. Edge * exchangeGridDim(GUARD, m, side)[d] = p
      BY <1>5, <2>1, <2>3, <2>7
    <3>2. Skip(ex, w)[d] = p - w /\ Deep(ex, w)[d] = w
      BY <2>1, <2>2, <2>7 DEF Skip, Deep
    <3> QED BY <1>1, <2>1, <2>4, <2>7, <3>1, <3>2
  <2> QED BY <1>4, <2>5, <2>6, <2>7
<1>8. \A c : c \in launchedCells(m, Edge, side) <=>
         c \in Vec(Dims) /\ \A d \in 1 .. Dims : 0 <= c[d] /\ c[d] < Edge * exchangeGridDim(GUARD, m, side)[d]
  BY <1>1, LaunchedCellsAre
<1>9. ASSUME NEW c
      PROVE  c \in launchedCells(m, Edge, side) /\ Reaches(ex, w, c) <=> c \in Box(Dims, Skip(ex, w), Deep(ex, w))
  BY <1>7, <1>8 DEF Reaches, Box
<1> QED BY <1>9

\* The first cell of the guard.
LEMMA OriginIs ==
    ASSUME SetupInv, NEW ex \in ExchangeTypes(Dims)
    PROVE  /\ guardOrigin(m, Edge, ex) \in Vec(Dims)
           /\ \A d \in 1 .. Dims : guardOrigin(m, Edge, ex)[d] = Edge * GuardBegin(ex)[d]
<1>1. Dims \in Nat /\ Dims \in Dim /\ Edge \in Int /\ m.grid \in Vec(Dims)
  BY Accepted, WalkConstants
<1>2. same(m.grid, 0) \in Vec(Dims) /\ \A d \in 1 .. Dims : same(m.grid, 0)[d] = 0
  BY <1>1, SameVec
<1>3. exchangeIndex(GUARD, m, ex, same(m.grid, 0)) = plus(same(m.grid, 0), GuardBegin(ex))
      /\ GuardBegin(ex) \in Vec(Dims)
  BY <1>2, GuardLaunch
<1>4. /\ plus(same(m.grid, 0), GuardBegin(ex)) \in Vec(Dims)
      /\ \A d \in 1 .. Dims : plus(same(m.grid, 0), GuardBegin(ex))[d] = same(m.grid, 0)[d] + GuardBegin(ex)[d]
  BY <1>1, <1>2, <1>3, PlusVec
<1>5. \A d \in 1 .. Dims : plus(same(m.grid, 0), GuardBegin(ex))[d] = GuardBegin(ex)[d]
  <2>1. \A d \in 1 .. Dims : GuardBegin(ex)[d] \in Int
    BY <1>3 DEF Vec
  <2> QED BY <1>2, <1>4, <2>1
<1>6. plus(same(m.grid, 0), GuardBegin(ex)) = GuardBegin(ex)
  BY <1>1, <1>3, <1>4, <1>5, VecEqual
<1>7. guardOrigin(m, Edge, ex) = times(Edge, GuardBegin(ex))
  BY <1>3, <1>6 DEF guardOrigin
<1> QED BY <1>1, <1>3, <1>7, TimesVec

\* The way to the neighbour, by components.
LEMMA WayIs ==
    ASSUME SetupInv, NEW ex \in ExchangeTypes(Dims)
    PROVE  /\ Way(ex, Edge) \in Vec(Dims)
           /\ \A d \in 1 .. Dims :
                 /\ digit(ex, d) = 0 => Way(ex, Edge)[d] = 0
                 /\ digit(ex, d) = 1 => Way(ex, Edge)[d] = (m.grid[d] - 2 * m.guard[d]) * Edge
                 /\ digit(ex, d) = 2 => Way(ex, Edge)[d] = -((m.grid[d] - 2 * m.guard[d]) * Edge)
<1>1. Dims \in Nat /\ Dims \in Dim /\ Edge \in Int
  BY Accepted, WalkConstants
<1>2. \A d \in 1 .. Dims : m.grid[d] \in Nat /\ m.guard[d] \in Nat
  BY Accepted
<1>3. \A d \in 1 .. Dims : withoutGuard(m)[d] = m.grid[d] - 2 * m.guard[d]
  BY Extents
<1>4. \A d \in 1 .. Dims : digit(ex, d) \in {0, 1, 2}
  BY <1>1, Directions
<1> DEFINE at(d) == getRelativeDirections(Dims, ex)[d] * withoutGuard(m)[d] * Edge
<1>5. ASSUME NEW d \in 1 .. Dims
      PROVE  /\ at(d) \in Int
             /\ digit(ex, d) = 0 => at(d) = 0
             /\ digit(ex, d) = 1 => at(d) = (m.grid[d] - 2 * m.guard[d]) * Edge
             /\ digit(ex, d) = 2 => at(d) = -((m.grid[d] - 2 * m.guard[d]) * Edge)
  <2>1. PICK W \in Int : W = withoutGuard(m)[d] /\ W = m.grid[d] - 2 * m.guard[d]
    BY <1>2, <1>3
  <2>2. at(d) = (IF digit(ex, d) = 2 THEN -1 ELSE digit(ex, d)) * W * Edge
    BY <2>1 DEF getRelativeDirections
  <2>3. 0 * W * Edge = 0 /\ 1 * W * Edge = W * Edge /\ (-1) * W * Edge = -(W * Edge) /\ W * Edge \in Int
    BY <1>1
  <2> HIDE DEF at
  <2>4. CASE digit(ex, d) = 0
    BY <2>2, <2>3, <2>4
  <2>5. CASE digit(ex, d) = 1
    BY <2>1, <2>2, <2>3, <2>5
  <2>6. CASE digit(ex, d) = 2
    BY <2>1, <2>2, <2>3, <2>6
  <2> QED BY <1>4, <2>4, <2>5, <2>6
<1>6. Way(ex, Edge) = [d \in 1 .. Dims |-> at(d)]
  BY DEF Way
<1> HIDE DEF at
<1> QED BY <1>5, <1>6 DEF Vec

\* The cells the exchange in direction ex reaches.
Reached(ex, w) == Box(Dims, Skip(ex, w), Deep(ex, w))

\* What is copied to the exchange.
LEMMA SentCells ==
    ASSUME SetupInv, NEW ex \in ExchangeTypes(Dims), NEW w \in 1 .. Edge
    PROVE  copyGuardToExchange(m, Edge, w, ex) =
              {<<plus(guardOrigin(m, Edge, ex), c), minus(c, Skip(ex, w))>> : c \in Reached(ex, w)}
<1>1. Dims \in Nat
  BY Accepted
<1> DEFINE K == {k \in launchedCells(m, Edge, ex) : Reaches(ex, w, k)}
<1>2. K = Reached(ex, w)
  BY CellsReached DEF Reached
<1>3. ASSUME NEW c \in launchedCells(m, Edge, ex) PROVE c \in Vec(Dims) /\ dims(c) = 1 .. Dims
  <2>1. Edge \in Nat \ {0}
    BY WalkConstants
  <2>2. c \in Vec(Dims)
    BY <2>1, LaunchedCellsAre
  <2> QED BY <1>1, <2>2, VecDims
<1> DEFINE copied(c) == \A d \in dims(c) : /\ digit(ex, d) = 2 => c[d] >= beyond(m, Edge, w, d)
                                           /\ digit(ex, d) = 1 => c[d] < w
           there(c) == [d \in dims(c) |-> c[d] - IF digit(ex, d) = 2 THEN beyond(m, Edge, w, d) ELSE 0]
<1>4. copyGuardToExchange(m, Edge, w, ex) =
          {<<plus(guardOrigin(m, Edge, ex), c), there(c)>> : c \in {k \in launchedCells(m, Edge, ex) : copied(k)}}
  BY DEF copyGuardToExchange
<1>5. \A k \in launchedCells(m, Edge, ex) : copied(k) <=> Reaches(ex, w, k)
  BY <1>3 DEF Reaches
<1>6. {k \in launchedCells(m, Edge, ex) : copied(k)} = K
  BY <1>5
<1>7. ASSUME NEW c \in K PROVE there(c) = minus(c, Skip(ex, w))
  <2>1. dims(c) = 1 .. Dims
    BY <1>3
  <2>2. there(c) = [d \in 1 .. Dims |-> c[d] - IF digit(ex, d) = 2 THEN m.guard[d] * Edge - w ELSE 0]
    BY <2>1 DEF beyond
  <2>3. minus(c, Skip(ex, w)) = [d \in 1 .. Dims |-> c[d] - Skip(ex, w)[d]]
    BY <2>1 DEF minus
  <2>4. \A d \in 1 .. Dims : Skip(ex, w)[d] = IF digit(ex, d) = 2 THEN m.guard[d] * Edge - w ELSE 0
    BY DEF Skip
  <2> HIDE DEF there
  <2> QED BY <2>2, <2>3, <2>4
<1> HIDE DEF K, there, copied
<1> QED BY <1>2, <1>4, <1>6, <1>7

\* What the neighbour adds from it.
LEMMA AddedCells ==
    ASSUME SetupInv, NEW ex \in ExchangeTypes(Dims), NEW w \in 1 .. Edge
    PROVE  addExchangeToBorder(m, Edge, w, getMirroredExchangeType(ex)) =
              {<<minus(c, Skip(ex, w)), minus(plus(guardOrigin(m, Edge, ex), c), Way(ex, Edge))>> :
                   c \in Reached(ex, w)}
<1> DEFINE mirror == getMirroredExchangeType(ex)
<1>1. Dims \in Nat /\ Dims \in Dim /\ Edge \in Nat \ {0}
  BY Accepted, WalkConstants
<1>2. /\ mirror \in ExchangeTypes(Dims)
      /\ \A d \in 1 .. Dims : /\ digit(ex, d) \in {0, 1, 2}
                              /\ digit(ex, d) = 0 => digit(mirror, d) = 0
                              /\ digit(ex, d) = 1 => digit(mirror, d) = 2
                              /\ digit(ex, d) = 2 => digit(mirror, d) = 1
  BY <1>1, MirrorDigits, Directions
<1> HIDE DEF mirror
<1>3. \A d \in 1 .. Dims : /\ digit(mirror, d) = 0 <=> digit(ex, d) = 0
                           /\ digit(mirror, d) = 1 <=> digit(ex, d) = 2
                           /\ digit(mirror, d) = 2 <=> digit(ex, d) = 1
  BY <1>2
<1> DEFINE K == {k \in launchedCells(m, Edge, mirror) : Reaches(ex, w, k)}
<1>4. K = Reached(ex, w)
  BY <1>2, <1>3, CellsReached DEF Reached
<1>5. ASSUME NEW c \in launchedCells(m, Edge, mirror) PROVE c \in Vec(Dims) /\ dims(c) = 1 .. Dims
  <2>1. c \in Vec(Dims)
    BY <1>1, <1>2, LaunchedCellsAre
  <2> QED BY <1>1, <2>1, VecDims
<1> DEFINE added(c) == \A d \in dims(c) : /\ digit(mirror, d) = 1 => c[d] >= beyond(m, Edge, w, d)
                                          /\ digit(mirror, d) = 2 => c[d] < w
           shift(d) == CASE digit(mirror, d) = 1 -> -(m.guard[d] * Edge)
                         [] digit(mirror, d) = 2 -> m.guard[d] * Edge
                         [] OTHER -> 0
           here(c) == [d \in dims(c) |-> c[d] - IF digit(mirror, d) = 1 THEN beyond(m, Edge, w, d) ELSE 0]
           target(c) == [d \in dims(c) |-> guardOrigin(m, Edge, mirror)[d] + c[d] + shift(d)]
<1>6. addExchangeToBorder(m, Edge, w, mirror) =
          {<<here(c), target(c)>> : c \in {k \in launchedCells(m, Edge, mirror) : added(k)}}
  BY DEF addExchangeToBorder
<1>7. \A k \in launchedCells(m, Edge, mirror) : added(k) <=> Reaches(ex, w, k)
  BY <1>3, <1>5 DEF Reaches
<1>8. {k \in launchedCells(m, Edge, mirror) : added(k)} = K
  BY <1>7
<1>9. ASSUME NEW c \in K PROVE here(c) = minus(c, Skip(ex, w))
  <2>1. dims(c) = 1 .. Dims
    BY <1>5
  <2>2. here(c) = [d \in 1 .. Dims |-> c[d] - IF digit(ex, d) = 2 THEN m.guard[d] * Edge - w ELSE 0]
    BY <1>3, <2>1 DEF beyond
  <2>3. minus(c, Skip(ex, w)) = [d \in 1 .. Dims |-> c[d] - Skip(ex, w)[d]]
    BY <2>1 DEF minus
  <2>4. \A d \in 1 .. Dims : Skip(ex, w)[d] = IF digit(ex, d) = 2 THEN m.guard[d] * Edge - w ELSE 0
    BY DEF Skip
  <2> HIDE DEF here
  <2> QED BY <2>2, <2>3, <2>4
<1>10. ASSUME NEW c \in K
       PROVE  target(c) = minus(plus(guardOrigin(m, Edge, ex), c), Way(ex, Edge))
  <2>1. c \in Vec(Dims) /\ dims(c) = 1 .. Dims
    BY <1>5
  <2> DEFINE origin == guardOrigin(m, Edge, ex)
             back   == guardOrigin(m, Edge, mirror)
  <2>2. origin \in Vec(Dims) /\ \A d \in 1 .. Dims : origin[d] = Edge * GuardBegin(ex)[d]
    BY OriginIs
  <2>3. back \in Vec(Dims) /\ \A d \in 1 .. Dims : back[d] = Edge * GuardBegin(mirror)[d]
    BY <1>2, OriginIs
  <2> HIDE DEF origin, back
  <2>4. plus(origin, c) \in Vec(Dims) /\ \A d \in 1 .. Dims : plus(origin, c)[d] = origin[d] + c[d]
    BY <1>1, <2>1, <2>2, PlusVec
  <2>5. /\ Way(ex, Edge) \in Vec(Dims)
        /\ \A d \in 1 .. Dims :
              /\ digit(ex, d) = 0 => Way(ex, Edge)[d] = 0
              /\ digit(ex, d) = 1 => Way(ex, Edge)[d] = (m.grid[d] - 2 * m.guard[d]) * Edge
              /\ digit(ex, d) = 2 => Way(ex, Edge)[d] = -((m.grid[d] - 2 * m.guard[d]) * Edge)
    BY WayIs
  <2>6. dims(plus(origin, c)) = 1 .. Dims
    BY <1>1, <2>4, VecDims
  <2>7. minus(plus(origin, c), Way(ex, Edge)) = [d \in 1 .. Dims |-> plus(origin, c)[d] - Way(ex, Edge)[d]]
    BY <2>6 DEF minus
  <2>8. target(c) = [d \in 1 .. Dims |-> back[d] + c[d] + shift(d)]
    BY <2>1 DEF back
  <2>9. ASSUME NEW d \in 1 .. Dims
        PROVE  back[d] + c[d] + shift(d) = plus(origin, c)[d] - Way(ex, Edge)[d]
    <3>1. PICK g \in Nat, G \in Nat : g = m.guard[d] /\ G = m.grid[d]
      BY Accepted
    <3>2. PICK x \in Int : x = c[d]
      BY <2>1 DEF Vec
    <3>3. PICK p \in Int, q \in Int : p = Edge * g /\ q = Edge * G
      BY <1>1
    <3>4. Edge * (G - g) = q - p /\ (G - 2 * g) * Edge = q - 2 * p /\ g * Edge = p /\ Edge * 0 = 0
      BY <1>1, <3>3
    <3>5. plus(origin, c)[d] = origin[d] + x
      BY <2>4, <3>2
    <3>6. CASE digit(ex, d) = 0
      <4>1. digit(mirror, d) = 0
        BY <1>2, <3>6
      <4>2. origin[d] = p /\ back[d] = p
        BY <2>2, <2>3, <3>1, <3>3, <3>6, <4>1 DEF GuardBegin
      <4>3. shift(d) = 0 /\ Way(ex, Edge)[d] = 0
        BY <2>5, <3>6, <4>1
      <4> QED BY <3>2, <3>5, <4>2, <4>3
    <3>7. CASE digit(ex, d) = 1
      <4>1. digit(mirror, d) = 2
        BY <1>2, <3>7
      <4>2. GuardBegin(ex)[d] = G - g /\ GuardBegin(mirror)[d] = 0
        BY <3>1, <3>7, <4>1 DEF GuardBegin
      <4>3. origin[d] = q - p /\ back[d] = 0
        BY <2>2, <2>3, <3>4, <4>2
      <4>4. shift(d) = p
        BY <3>1, <3>4, <4>1
      <4>5. Way(ex, Edge)[d] = q - 2 * p
        BY <2>5, <3>1, <3>4, <3>7
      <4> QED BY <3>2, <3>5, <4>3, <4>4, <4>5
    <3>8. CASE digit(ex, d) = 2
      <4>1. digit(mirror, d) = 1
        BY <1>2, <3>8
      <4>2. GuardBegin(ex)[d] = 0 /\ GuardBegin(mirror)[d] = G - g
        BY <3>1, <3>8, <4>1 DEF GuardBegin
      <4>3. origin[d] = 0 /\ back[d] = q - p
        BY <2>2, <2>3, <3>4, <4>2
      <4>4. shift(d) = -p
        BY <3>1, <3>4, <4>1
      <4>5. Way(ex, Edge)[d] = -(q - 2 * p)
        BY <2>5, <3>1, <3>4, <3>8
      <4> QED BY <3>2, <3>5, <4>3, <4>4, <4>5
    <3> QED BY <1>2, <3>6, <3>7, <3>8
  <2> HIDE DEF target, shift
  <2> QED BY <2>7, <2>8, <2>9 DEF origin
<1> HIDE DEF K, here, target, added
<1> QED BY <1>4, <1>6, <1>8, <1>9, <1>10 DEF mirror

\* Pairs <<f, g>> and <<g, h>> of the elements of K: their common side counts both, and leads from
\* the one to the other.
OneToOne(K, g) == \A a, b \in K : g[a] = g[b] => a = b

Shared(K, f, g, h, sent, added) ==
    /\ {pair[2] : pair \in sent} = {g[c] : c \in K} /\ {pair[1] : pair \in added} = {g[c] : c \in K}
    /\ Cardinality(sent) = Cardinality({g[c] : c \in K})
    /\ Cardinality({pair[2] : pair \in added}) = Cardinality(sent)
    /\ \A pair \in sent : \E c \in K :
          /\ pair = <<f[c], g[c]>>
          /\ {other[2] : other \in {a \in added : a[1] = pair[2]}} = {h[c]}

\* They do.
LEMMA SharedSide ==
    ASSUME NEW K, IsFiniteSet(K), NEW f, NEW g, NEW h, OneToOne(K, g), OneToOne(K, h),
           NEW sent, NEW added,
           sent = {<<f[c], g[c]>> : c \in K}, added = {<<g[c], h[c]>> : c \in K}
    PROVE  Shared(K, f, g, h, sent, added)
<1> USE DEF OneToOne
<1>1. {pair[2] : pair \in sent} = {g[c] : c \in K}
  <2>1. ASSUME NEW c \in K PROVE \E pair \in sent : pair[2] = g[c]
    <3>1. <<f[c], g[c]>> \in sent
      OBVIOUS
    <3> QED BY <3>1
  <2>2. ASSUME NEW pair \in sent PROVE \E c \in K : pair[2] = g[c]
    <3>1. PICK c \in K : pair = <<f[c], g[c]>>
      OBVIOUS
    <3> QED BY <3>1
  <2> QED BY ONLY <2>1, <2>2
<1>7. {pair[1] : pair \in added} = {g[c] : c \in K}
  <2>1. ASSUME NEW c \in K PROVE \E pair \in added : pair[1] = g[c]
    <3>1. <<g[c], h[c]>> \in added
      OBVIOUS
    <3> QED BY <3>1
  <2>2. ASSUME NEW pair \in added PROVE \E c \in K : pair[1] = g[c]
    <3>1. PICK c \in K : pair = <<g[c], h[c]>>
      OBVIOUS
    <3> QED BY <3>1
  <2> QED BY ONLY <2>1, <2>2
<1>2. {pair[2] : pair \in added} = {h[c] : c \in K}
  <2>1. ASSUME NEW c \in K PROVE \E pair \in added : pair[2] = h[c]
    <3>1. <<g[c], h[c]>> \in added
      OBVIOUS
    <3> QED BY <3>1
  <2>2. ASSUME NEW pair \in added PROVE \E c \in K : pair[2] = h[c]
    <3>1. PICK c \in K : pair = <<g[c], h[c]>>
      OBVIOUS
    <3> QED BY <3>1
  <2> QED BY ONLY <2>1, <2>2
<1>3. Cardinality({g[c] : c \in K}) = Cardinality(K)
  <2>1. Exact(K, g, {g[c] : c \in K})
    BY DEF Exact
  <2> QED BY <2>1, ExactCardinality
<1>4. Cardinality({h[c] : c \in K}) = Cardinality(K)
  <2>1. Exact(K, h, {h[c] : c \in K})
    BY DEF Exact
  <2> QED BY <2>1, ExactCardinality
<1>5. Cardinality(sent) = Cardinality(K)
  <2> DEFINE pairs == [c \in K |-> <<f[c], g[c]>>]
  <2>1. \A a, b \in K : pairs[a] = pairs[b] => a = b
    OBVIOUS
  <2>2. Exact(K, pairs, sent)
    BY <2>1 DEF Exact
  <2> HIDE DEF pairs
  <2> QED BY <2>2, ExactCardinality
<1>6. ASSUME NEW pair \in sent
      PROVE  \E c \in K : /\ pair = <<f[c], g[c]>>
                          /\ {other[2] : other \in {a \in added : a[1] = pair[2]}} = {h[c]}
  <2>1. PICK c \in K : pair = <<f[c], g[c]>>
    OBVIOUS
  <2>2. pair[2] = g[c]
    BY <2>1
  <2>3. {a \in added : a[1] = g[c]} = {<<g[c], h[c]>>}
    <3>1. <<g[c], h[c]>> \in added /\ <<g[c], h[c]>>[1] = g[c]
      OBVIOUS
    <3>2. ASSUME NEW a \in added, a[1] = g[c] PROVE a = <<g[c], h[c]>>
      <4>1. PICK b \in K : a = <<g[b], h[b]>>
        OBVIOUS
      <4>2. g[b] = g[c]
        BY <3>2, <4>1
      <4>3. b = c
        BY <4>2
      <4> QED BY <4>1, <4>3
    <3> QED BY <3>1, <3>2
  <2>4. {other[2] : other \in {<<g[c], h[c]>>}} = {h[c]}
    OBVIOUS
  <2> QED BY <2>1, <2>2, <2>3, <2>4
<1> QED BY <1>1, <1>2, <1>3, <1>4, <1>5, <1>6, <1>7 DEF Shared

\* A guard cell is added once, to the border cell of the neighbour that covers its place.
LEMMA GuardAdded == WInv => GuardAddedOnce
<1> DEFINE ex == mapper.ex
           mirror == getMirroredExchangeType(ex)
           moved == [d \in dims(m.grid) |->
                       getRelativeDirections(Len(m.grid), ex)[d] * withoutGuard(m)[d] * Edge]
           extent(w) == [d \in dims(m.grid) |-> IF digit(ex, d) # 0 THEN w ELSE withoutGuard(m)[d] * Edge]
           sent(w)  == copyGuardToExchange(m, Edge, w, ex)
           added(w) == addExchangeToBorder(m, Edge, w, mirror)
<1> SUFFICES ASSUME WInv, mapper.kind = "exchange", mapper.area = GUARD, NEW width \in 1 .. Edge
             PROVE  /\ {pair[2] : pair \in sent(width)} = Blocks(extent(width))
                    /\ {pair[1] : pair \in added(width)} = Blocks(extent(width))
                    /\ Cardinality(sent(width)) = Cardinality(Blocks(extent(width)))
                    /\ Cardinality({pair[2] : pair \in added(width)}) = Cardinality(sent(width))
                    /\ \A pair \in sent(width) :
                          {other[2] : other \in {a \in added(width) : a[1] = pair[2]}} = {minus(pair[1], moved)}
  BY DEF GuardAddedOnce
<1>1. SetupInv
  BY DEF WInv
<1>2. Dims \in Nat /\ Dims \in Dim /\ dims(m.grid) = 1 .. Dims
  BY <1>1, Accepted
<1>3. ex \in ExchangeTypes(Dims)
  BY <1>1, MapperFields
<1>4. moved = Way(ex, Edge)
  BY <1>2 DEF Way, Dims
<1>5. extent(width) = Deep(ex, width)
  BY <1>2 DEF Deep
<1> DEFINE K == Reached(ex, width)
           skip == Skip(ex, width)
           deep == Deep(ex, width)
           origin == guardOrigin(m, Edge, ex)
           way == Way(ex, Edge)
           f == [c \in K |-> plus(origin, c)]
           g == [c \in K |-> minus(c, skip)]
           h == [c \in K |-> minus(plus(origin, c), way)]
<1>6. sent(width) = {<<plus(origin, c), minus(c, skip)>> : c \in K}
  BY <1>1, <1>3, SentCells
<1>7. added(width) = {<<minus(c, skip), minus(plus(origin, c), way)>> : c \in K}
  BY <1>1, <1>3, AddedCells
<1>8. skip \in Vec(Dims) /\ deep \in Extent(Dims) /\ deep \in Vec(Dims)
  BY <1>1, <1>3, SkipAndDeep
<1>9. origin \in Vec(Dims) /\ way \in Vec(Dims)
  BY <1>1, <1>3, OriginIs, WayIs
<1>10. K = Box(Dims, skip, deep)
  BY DEF Reached
<1> HIDE DEF K, skip, deep, origin, way, sent, added, extent, moved, mirror, ex
<1>11. \A c \in K : c \in Vec(Dims)
  BY <1>10 DEF Box
<1>12. {minus(c, skip) : c \in K} = Blocks(deep)
  <2> DEFINE zero == same(skip, 0)
  <2>1. zero \in Vec(Dims) /\ \A d \in 1 .. Dims : zero[d] = 0
    <3>1. 0 \in Int
      OBVIOUS
    <3> QED BY <1>2, <1>8, <3>1, SameVec
  <2> HIDE DEF zero
  <2>2. \A d \in 1 .. Dims : zero[d] = skip[d] - skip[d]
    <3>1. \A d \in 1 .. Dims : skip[d] \in Int
      BY <1>8 DEF Vec
    <3> QED BY <2>1, <3>1
  <2>3. {minus(c, skip) : c \in K} = Box(Dims, zero, deep)
    BY <1>2, <1>8, <1>10, <2>1, <2>2, MovedBox
  <2>4. \A b : b \in Blocks(deep) <=> b \in Vec(Dims) /\ \A d \in 1 .. Dims : 0 <= b[d] /\ b[d] < deep[d]
    BY <1>2, <1>8, BlocksAre
  <2>5. \A d \in 1 .. Dims : 0 + deep[d] = deep[d]
    BY <1>8 DEF Vec
  <2>6. ASSUME NEW b \in Vec(Dims)
        PROVE  b \in Box(Dims, zero, deep) <=> \A d \in 1 .. Dims : 0 <= b[d] /\ b[d] < deep[d]
    BY <2>1, <2>5 DEF Box
  <2>7. \A b \in Box(Dims, zero, deep) : b \in Vec(Dims)
    BY DEF Box
  <2> QED BY <2>3, <2>4, <2>6, <2>7
\* Moving by a fixed vector loses nothing.
<1>13. ASSUME NEW a \in Vec(Dims), NEW b \in Vec(Dims), NEW v \in Vec(Dims), minus(a, v) = minus(b, v)
       PROVE  a = b
  <2>1. ASSUME NEW d \in 1 .. Dims PROVE a[d] = b[d]
    <3>1. a[d] \in Int /\ b[d] \in Int /\ v[d] \in Int
      BY <1>13 DEF Vec
    <3>2. minus(a, v)[d] = a[d] - v[d] /\ minus(b, v)[d] = b[d] - v[d]
      BY <1>2, <1>13, MinusVec
    <3> QED BY <1>13, <3>1, <3>2
  <2> QED BY <1>2, <2>1, VecEqual
<1>14. ASSUME NEW a \in Vec(Dims), NEW b \in Vec(Dims), NEW v \in Vec(Dims), plus(v, a) = plus(v, b)
       PROVE  a = b
  <2>1. ASSUME NEW d \in 1 .. Dims PROVE a[d] = b[d]
    <3>1. a[d] \in Int /\ b[d] \in Int /\ v[d] \in Int
      BY <1>14 DEF Vec
    <3>2. plus(v, a)[d] = v[d] + a[d] /\ plus(v, b)[d] = v[d] + b[d]
      BY <1>2, <1>14, PlusVec
    <3>3. v[d] + a[d] = v[d] + b[d]
      BY <1>14, <3>2
    <3>4. PICK x \in Int, y \in Int, z \in Int : x = a[d] /\ y = b[d] /\ z = v[d]
      BY ONLY <3>1
    <3>5. z + x = z + y
      BY ONLY <3>3, <3>4
    <3>6. x = y
      BY ONLY <3>5, x \in Int, y \in Int, z \in Int
    <3> QED BY ONLY <3>4, <3>6
  <2> QED BY <1>2, <2>1, VecEqual
<1>15. \A c \in K : f[c] = plus(origin, c) /\ g[c] = minus(c, skip) /\ h[c] = minus(plus(origin, c), way)
  OBVIOUS
<1> HIDE DEF f, g, h
<1>16. \A a, b \in K : g[a] = g[b] => a = b
  BY <1>8, <1>11, <1>13, <1>15
<1>17. \A a, b \in K : h[a] = h[b] => a = b
  <2>1. \A c \in K : plus(origin, c) \in Vec(Dims)
    BY <1>2, <1>9, <1>11, PlusVec
  <2> QED BY <1>9, <1>11, <1>13, <1>14, <1>15, <2>1
<1>18. {g[c] : c \in K} = Blocks(deep)
  BY <1>12, <1>15
<1>19. IsFiniteSet(K)
  <2> DEFINE away == [b \in Blocks(deep) |-> plus(skip, b)]
  <2>1. \A b \in Blocks(deep) : b \in Vec(Dims)
    BY <1>2, <1>8, BlocksAre
  <2>2. {plus(skip, b) : b \in Blocks(deep)} = K
    BY <1>2, <1>8, <1>10, BoxIs
  <2>3. \A b \in Blocks(deep) : away[b] = plus(skip, b)
    OBVIOUS
  <2> HIDE DEF away
  <2>4. \A a, b \in Blocks(deep) : away[a] = away[b] => a = b
    BY <1>8, <1>14, <2>1, <2>3
  <2>5. Exact(Blocks(deep), away, K)
    BY <2>2, <2>3, <2>4 DEF Exact
  <2>6. IsFiniteSet(Blocks(deep))
    BY <1>2, <1>8, BlocksFinite
  <2> QED BY <2>5, <2>6, ExactCardinality
<1>20. sent(width) = {<<f[c], g[c]>> : c \in K}
  BY <1>6, <1>15
<1>21. added(width) = {<<g[c], h[c]>> : c \in K}
  BY <1>7, <1>15
<1>22. /\ {pair[2] : pair \in sent(width)} = {g[c] : c \in K}
       /\ {pair[1] : pair \in added(width)} = {g[c] : c \in K}
       /\ Cardinality(sent(width)) = Cardinality({g[c] : c \in K})
       /\ Cardinality({pair[2] : pair \in added(width)}) = Cardinality(sent(width))
       /\ \A pair \in sent(width) : \E c \in K :
             /\ pair = <<f[c], g[c]>>
             /\ {other[2] : other \in {a \in added(width) : a[1] = pair[2]}} = {h[c]}
  <2>1. OneToOne(K, g) /\ OneToOne(K, h)
    BY <1>16, <1>17 DEF OneToOne
  <2>2. Shared(K, f, g, h, sent(width), added(width))
    BY <1>19, <1>20, <1>21, <2>1, SharedSide
  <2> QED BY ONLY <2>2 DEF Shared
<1>23. extent(width) = deep /\ moved = way
  BY <1>4, <1>5 DEF deep, way
<1>24. ASSUME NEW pair \in sent(width)
       PROVE  {other[2] : other \in {a \in added(width) : a[1] = pair[2]}} = {minus(pair[1], moved)}
  <2>1. PICK c \in K : /\ pair = <<f[c], g[c]>>
                       /\ {other[2] : other \in {a \in added(width) : a[1] = pair[2]}} = {h[c]}
    BY <1>22
  <2>2. pair[1] = f[c]
    BY <2>1
  <2>3. h[c] = minus(f[c], way)
    BY <1>15
  <2>4. h[c] = minus(pair[1], moved)
    BY <1>23, <2>2, <2>3
  <2> QED BY <2>1, <2>4
<1> QED BY <1>18, <1>22, <1>23, <1>24

\* Both ends of an exchange mean the same supercells and the same cells: a particle of a guard
\* supercell is sent to the border supercell that covers its place (reduce and extend), the box of
\* cells a rank sends is the box its neighbour receives and overlaps no other direction's box, and
\* what a field holds in its guard is added to the neighbour's border once.
THEOREM ExchangesMeet == WalkSpec => []ExchangeEndsMatch
<1>1. WInv => ExchangeEndsMatch
  BY GuardArrives, HaloMatches, GuardAdded DEF ExchangeEndsMatch
<1> QED BY <1>1, WalkInvariance, PTL

\* MapperWalk's property of the kernels' mappers and of the index arithmetic of the exchanges, for
\* every guard, every stride and every supercell in two or three dimensions.  In every domain the
\* constructor accepts: both ends of an exchange mean the same supercells and cells, strided launches
\* keep apart, and the mappers of GUARD, of CORE + BORDER and of the whole domain, intervals, ranges
\* and guard exchanges process each supercell of their area once.  The mappers that tell BORDER from
\* CORE do so where the layers fit (layersFit: grid >= 4 * guard, 3 * guard for BorderMapping); in
\* narrower accepted domains they do not, and nothing is claimed.
THEOREM MappersAreExact == WalkSpec => []MappersExact
<1>1. LaunchesCover /\ ExchangeEndsMatch => MappersExact
  BY DEF MappersExact
<1> QED BY <1>1, LoopsCoverTheirArea, ExchangesMeet, PTL

-----------------------------------------------------------------------------
(* Topology: the places of the ranks.                                      *)

nodesOf == gpuNodes.nodes

GridDims == Len(gpuNodes.nodes)

\* A grid of ranks is a vector of positive numbers.
LEMMA GridIs ==
    ASSUME gpuNodes \in Grids
    PROVE  /\ GridDims \in Dim /\ GridDims \in Nat /\ nodesOf \in Vec(GridDims)
           /\ dims(nodesOf) = 1 .. GridDims /\ 2 \in 1 .. GridDims
           /\ \A d \in 1 .. GridDims : nodesOf[d] \in Nat \ {0}
<1>1. nodesOf \in Seq(Nat \ {0}) /\ GridDims \in {2, 3}
  BY TopologyConstants DEF nodesOf, GridDims
<1>2. nodesOf \in [1 .. GridDims -> Nat \ {0}]
  BY <1>1 DEF nodesOf, GridDims
<1>3. 2 \in 1 .. GridDims
  BY <1>1
<1> QED BY <1>1, <1>2, <1>3 DEF Dim, Vec, dims, nodesOf, GridDims

\* Multiples of n do not count.
LEMMA ModShift ==
    ASSUME NEW n \in Nat \ {0}, NEW x \in Int, NEW k \in Int
    PROVE  (x + k * n) % n = x % n
<1>1. PICK q \in Int, r \in Int : q = x \div n /\ r = x % n /\ x = q * n + r /\ 0 <= r /\ r < n
  OBVIOUS
<1>2. x + k * n = (q + k) * n + r
  BY <1>1
<1>3. PICK y \in Int : y = x + k * n
  OBVIOUS
<1>4. PICK b \in Int : b = q + k
  OBVIOUS
<1>5. y = b * n + r
  BY <1>2, <1>3, <1>4
<1>6. y % n = r
  BY <1>1, <1>5, Residue
<1> QED BY <1>1, <1>3, <1>6

\* A number of the grid is its own residue.
LEMMA ModSmall ==
    ASSUME NEW n \in Nat \ {0}, NEW x \in Int, 0 <= x, x < n
    PROVE  x % n = x
<1>1. 0 \in Int /\ x = 0 * n + x
  OBVIOUS
<1> QED BY <1>1, Residue

\* A residue may be taken before or after something is added.
LEMMA ModPlus ==
    ASSUME NEW n \in Nat \ {0}, NEW x \in Int, NEW y \in Int
    PROVE  ((x % n) + y) % n = (x + y) % n
<1>1. PICK q \in Int, r \in Int : q = x \div n /\ r = x % n /\ x = q * n + r
  OBVIOUS
<1>2. PICK z \in Int : z = r + y
  OBVIOUS
<1>3. x + y = z + q * n
  BY <1>1, <1>2
<1>4. (z + q * n) % n = z % n
  BY <1>2, ModShift
<1> QED BY <1>1, <1>2, <1>3, <1>4

\* C's remainder, moved into the grid when it is negative, is the residue.
LEMMA RemainderFixed ==
    ASSUME NEW n \in Nat \ {0}, NEW x \in Int
    PROVE  /\ remainder(x, n) \in Int
           /\ (IF remainder(x, n) < 0 THEN remainder(x, n) + n ELSE remainder(x, n)) = x % n
           /\ remainder(x, n) % n = x % n
<1>1. CASE x >= 0
  <2>1. remainder(x, n) = x % n /\ x % n \in Int /\ 0 <= x % n /\ x % n < n
    BY <1>1 DEF remainder
  <2>2. (x % n) % n = x % n
    BY <2>1, ModSmall
  <2> QED BY <2>1, <2>2
<1>2. CASE x < 0
  <2>1. PICK z \in Nat : z = -x
    BY <1>2
  <2>2. PICK q \in Int, r \in Int : q = z \div n /\ r = z % n /\ z = q * n + r /\ 0 <= r /\ r < n
    OBVIOUS
  <2>3. remainder(x, n) = -r
    BY <1>2, <2>1, <2>2 DEF remainder
  <2>4. x = -r + (-q) * n
    BY <2>1, <2>2
  <2>5. PICK t \in Int, b \in Int : t = -r /\ b = -q
    OBVIOUS
  <2>6. x % n = t % n
    <3>1. (t + b * n) % n = t % n
      BY ModShift
    <3>2. x = t + b * n
      BY <2>4, <2>5
    <3> QED BY <3>1, <3>2
  <2>7. (IF t < 0 THEN t + n ELSE t) = t % n
    <3>1. CASE r = 0
      BY <2>2, <2>5, <3>1, ModSmall
    <3>2. CASE r > 0
      <4>1. PICK u \in Int : u = n - r
        OBVIOUS
      <4>2. -1 \in Int /\ t = (-1) * n + u /\ 0 <= u /\ u < n
        BY <2>2, <2>5, <3>2, <4>1
      <4>3. t % n = u
        BY <4>2, Residue
      <4> QED BY <2>5, <3>2, <4>1, <4>3
    <3> QED BY <2>2, <3>1, <3>2
  <2> QED BY <2>3, <2>5, <2>6, <2>7
<1> QED BY <1>1, <1>2

\* How far a rank has slid.
along(d, y) == IF d = 2 THEN y ELSE 0

\* Where something that started at v is, and where something at c started.
away(v, y) == [d \in 1 .. GridDims |-> (v[d] + along(d, y)) % nodesOf[d]]

home(c, y) == [d \in 1 .. GridDims |-> (c[d] - along(d, y)) % nodesOf[d]]

\* The places of the grid.
InGrid(v) == v \in Vec(GridDims) /\ \A d \in 1 .. GridDims : 0 <= v[d] /\ v[d] < nodesOf[d]

\* Both are places of the grid.
LEMMA Placed ==
    ASSUME gpuNodes \in Grids, NEW v \in Vec(GridDims), NEW y \in Int
    PROVE  InGrid(away(v, y)) /\ InGrid(home(v, y))
<1>1. ASSUME NEW d \in 1 .. GridDims
      PROVE  /\ (v[d] + along(d, y)) % nodesOf[d] \in 0 .. nodesOf[d] - 1
             /\ (v[d] - along(d, y)) % nodesOf[d] \in 0 .. nodesOf[d] - 1
  <2>1. PICK n \in Nat \ {0}, x \in Int, z \in Int : n = nodesOf[d] /\ x = v[d] /\ z = along(d, y)
    BY GridIs DEF Vec, along
  <2> QED BY <2>1
<1>2. \A d \in 1 .. GridDims : nodesOf[d] \in Nat
  BY GridIs
<1> QED BY <1>1, <1>2 DEF InGrid, away, home, Vec

\* To slide and to look up where one started are inverse.
LEMMA AwayHome ==
    ASSUME gpuNodes \in Grids, NEW v \in Vec(GridDims), NEW y \in Int
    PROVE  /\ \A d \in 1 .. GridDims : away(home(v, y), y)[d] = v[d] % nodesOf[d]
           /\ \A d \in 1 .. GridDims : home(away(v, y), y)[d] = v[d] % nodesOf[d]
<1>1. ASSUME NEW d \in 1 .. GridDims
      PROVE  /\ away(home(v, y), y)[d] = v[d] % nodesOf[d]
             /\ home(away(v, y), y)[d] = v[d] % nodesOf[d]
  <2>1. PICK n \in Nat \ {0}, x \in Int, z \in Int : n = nodesOf[d] /\ x = v[d] /\ z = along(d, y)
    BY GridIs DEF Vec, along
  <2>2. PICK a \in Int, b \in Int, w \in Int : a = x - z /\ b = x + z /\ w = -z
    OBVIOUS
  <2>3. ((a % n) + z) % n = (a + z) % n /\ ((b % n) + w) % n = (b + w) % n
    BY <2>2, ModPlus
  <2>4. a + z = x /\ b + w = x
    BY <2>2
  <2>5. (a % n) \in Int /\ (b % n) \in Int
    OBVIOUS
  <2>6. (b % n) + w = (b % n) - z
    BY <2>2, <2>5
  <2>7. away(home(v, y), y)[d] = ((a % n) + z) % n /\ home(away(v, y), y)[d] = ((b % n) - z) % n
    BY <2>1, <2>2 DEF away, home
  <2> QED BY <2>1, <2>3, <2>4, <2>6, <2>7
<1> QED BY <1>1

\* The number of a place, row by row.
rankOf(v) == IF GridDims = 2 THEN v[1] * nodesOf[2] + v[2]
                               ELSE (v[1] * nodesOf[2] + v[2]) * nodesOf[3] + v[3]

\* The components behind one.
LEMMA Behind ==
    /\ \A x, y \in Int : SubSeq(<<x, y>>, 2, 2) = <<y>> /\ SubSeq(<<x, y>>, 3, 2) = <<>>
    /\ \A x, y, z \in Int : /\ SubSeq(<<x, y, z>>, 2, 3) = <<y, z>> /\ SubSeq(<<x, y, z>>, 3, 3) = <<z>>
                            /\ SubSeq(<<x, y, z>>, 4, 3) = <<>>
<1>1. ASSUME NEW x \in Int, NEW y \in Int
      PROVE  SubSeq(<<x, y>>, 2, 2) = <<y>> /\ SubSeq(<<x, y>>, 3, 2) = <<>>
  <2> DEFINE s == SubSeq(<<x, y>>, 2, 2)
  <2>1. <<x, y>> \in Seq(Int)
    OBVIOUS
  <2>2. s \in Seq(Int) /\ Len(s) = 1 /\ s[1] = y
    BY <2>1
  <2>3. SubSeq(<<x, y>>, 3, 2) = <<>>
    OBVIOUS
  <2> HIDE DEF s
  <2>4. s = <<y>>
    BY <2>2
  <2> QED BY <2>3, <2>4 DEF s
<1>2. ASSUME NEW x \in Int, NEW y \in Int, NEW z \in Int
      PROVE  /\ SubSeq(<<x, y, z>>, 2, 3) = <<y, z>> /\ SubSeq(<<x, y, z>>, 3, 3) = <<z>>
             /\ SubSeq(<<x, y, z>>, 4, 3) = <<>>
  <2> DEFINE s == SubSeq(<<x, y, z>>, 2, 3)
             t == SubSeq(<<x, y, z>>, 3, 3)
  <2>1. <<x, y, z>> \in Seq(Int)
    OBVIOUS
  <2>2. s \in Seq(Int) /\ Len(s) = 2 /\ s[1] = y /\ s[2] = z
    BY <2>1
  <2>3. t \in Seq(Int) /\ Len(t) = 1 /\ t[1] = z
    BY <2>1
  <2>4. SubSeq(<<x, y, z>>, 4, 3) = <<>>
    OBVIOUS
  <2> HIDE DEF s, t
  <2>5. s = <<y, z>>
    BY <2>2
  <2>6. t = <<z>>
    BY <2>3
  <2> QED BY <2>4, <2>5, <2>6 DEF s, t
<1> QED BY <1>1, <1>2

\* What MPI_Cart_coords computes, in two and three dimensions.
LEMMA CartIs ==
    ASSUME gpuNodes \in Grids, NEW r \in Nat
    PROVE  /\ DOMAIN cartCoordinates(r) = 1 .. GridDims
           /\ GridDims = 2 => /\ cartCoordinates(r)[1] = (r \div nodesOf[2]) % nodesOf[1]
                              /\ cartCoordinates(r)[2] = r % nodesOf[2]
           /\ GridDims = 3 => /\ cartCoordinates(r)[1] = (r \div (nodesOf[3] * nodesOf[2])) % nodesOf[1]
                              /\ cartCoordinates(r)[2] = (r \div nodesOf[3]) % nodesOf[2]
                              /\ cartCoordinates(r)[3] = r % nodesOf[3]
<1> DEFINE left(d) == SubSeq(nodesOf, d + 1, GridDims)
<1>1. cartCoordinates(r) = [d \in 1 .. GridDims |-> (r \div productOfComponents(left(d))) % nodesOf[d]]
  BY DEF cartCoordinates, dims, nodesOf, GridDims
<1>2. r \div 1 = r
  OBVIOUS
<1>3. ASSUME GridDims = 2
      PROVE  /\ cartCoordinates(r)[1] = (r \div nodesOf[2]) % nodesOf[1]
             /\ cartCoordinates(r)[2] = r % nodesOf[2]
  <2>1. PICK a \in Nat \ {0}, b \in Nat \ {0} : nodesOf = <<a, b>> /\ nodesOf[1] = a /\ nodesOf[2] = b
    BY <1>3, GridIs, Tuples
  <2>2. left(1) = <<b>> /\ left(2) = <<>>
    <3>1. left(1) = SubSeq(<<a, b>>, 2, 2) /\ left(2) = SubSeq(<<a, b>>, 3, 2)
      BY <1>3, <2>1
    <3>2. a \in Int /\ b \in Int
      OBVIOUS
    <3> HIDE DEF left
    <3> QED BY ONLY <3>1, <3>2, Behind
  <2>3. 1 \in 1 .. GridDims /\ 2 \in 1 .. GridDims
    BY <1>3
  <2> HIDE DEF left
  <2>4. productOfComponents(left(1)) = b /\ productOfComponents(left(2)) = 1
    BY <2>2, Products
  <2> QED BY <1>1, <1>2, <2>1, <2>3, <2>4
<1>4. ASSUME GridDims = 3
      PROVE  /\ cartCoordinates(r)[1] = (r \div (nodesOf[3] * nodesOf[2])) % nodesOf[1]
             /\ cartCoordinates(r)[2] = (r \div nodesOf[3]) % nodesOf[2]
             /\ cartCoordinates(r)[3] = r % nodesOf[3]
  <2>1. PICK a \in Nat \ {0}, b \in Nat \ {0}, c \in Nat \ {0} :
           nodesOf = <<a, b, c>> /\ nodesOf[1] = a /\ nodesOf[2] = b /\ nodesOf[3] = c
    BY <1>4, GridIs, Tuples
  <2>2. left(1) = <<b, c>> /\ left(2) = <<c>> /\ left(3) = <<>>
    <3>1. /\ left(1) = SubSeq(<<a, b, c>>, 2, 3) /\ left(2) = SubSeq(<<a, b, c>>, 3, 3)
          /\ left(3) = SubSeq(<<a, b, c>>, 4, 3)
      BY <1>4, <2>1
    <3>2. a \in Int /\ b \in Int /\ c \in Int
      OBVIOUS
    <3> HIDE DEF left
    <3> QED BY ONLY <3>1, <3>2, Behind
  <2>3. 1 \in 1 .. GridDims /\ 2 \in 1 .. GridDims /\ 3 \in 1 .. GridDims
    BY <1>4
  <2> HIDE DEF left
  <2>4. productOfComponents(left(1)) = b * c /\ productOfComponents(left(2)) = c /\ productOfComponents(left(3)) = 1
    BY <2>2, Products
  <2>5. b * c = c * b
    OBVIOUS
  <2> QED BY <1>1, <1>2, <2>1, <2>3, <2>4, <2>5
<1> QED BY <1>1, <1>3, <1>4

\* Who is the rank of a place: the place's number.
LEMMA RankNumber ==
    ASSUME gpuNodes \in Grids, NEW c \in Vec(GridDims), NEW y \in Int
    PROVE  rankAt(c, y) = rankOf(home(c, y))
<1> DEFINE moved(d) == IF d = 2 /\ nodesOf[2] > 1 THEN remainder(c[2] - y, nodesOf[2]) ELSE c[d]
           inGrid(d) == remainder(moved(d), nodesOf[d])
           started(d) == IF inGrid(d) < 0 THEN inGrid(d) + nodesOf[d] ELSE inGrid(d)
           Step(f) == [d \in 0 .. GridDims |-> IF d = 0 THEN 0 ELSE f[d - 1] * nodesOf[d] + started(d)]
           Chosen == CHOOSE f : f = Step(f)
<1>1. rankAt(c, y) = Chosen[GridDims]
  BY DEF rankAt, nodesOf, GridDims
<1>2. ASSUME NEW d \in 1 .. GridDims PROVE started(d) = home(c, y)[d] /\ started(d) \in Int
  <2>1. PICK n \in Nat \ {0}, x \in Int : n = nodesOf[d] /\ x = c[d]
    BY GridIs DEF Vec
  <2>2. home(c, y)[d] = (x - along(d, y)) % n
    BY <2>1 DEF home
  <2>3. CASE d = 2 /\ n > 1
    <3>1. PICK z \in Int : z = x - y
      OBVIOUS
    <3>2. PICK t \in Int : t = remainder(z, n) /\ t % n = z % n
      BY RemainderFixed
    <3>3. moved(d) = t
      BY <2>1, <2>3, <3>1, <3>2
    <3>4. started(d) = t % n
      <4> HIDE DEF moved
      <4> QED BY <2>1, <3>3, RemainderFixed
    <3>5. home(c, y)[d] = z % n
      BY <2>2, <2>3, <3>1 DEF along
    <3>6. z % n \in Int
      OBVIOUS
    <3> QED BY <3>2, <3>4, <3>5, <3>6
  <2>4. CASE ~(d = 2 /\ n > 1)
    <3>1. moved(d) = x
      BY <2>1, <2>4
    <3>2. started(d) = x % n
      <4> HIDE DEF moved
      <4> QED BY <2>1, <3>1, RemainderFixed
    <3>3. x % n = (x - along(d, y)) % n
      <4>1. CASE d # 2
        BY <4>1 DEF along
      <4>2. CASE n = 1
        <5>1. \A k \in Int : k % 1 = 0
          OBVIOUS
        <5>2. x - along(d, y) \in Int
          BY DEF along
        <5> QED BY <4>2, <5>1, <5>2
      <4> QED BY <2>4, <4>1, <4>2
    <3>4. x % n \in Int
      OBVIOUS
    <3> QED BY <2>2, <3>2, <3>3, <3>4
  <2> QED BY <2>3, <2>4
<1> HIDE DEF started
<1>3. CASE GridDims = 2
  <2>1. PICK n \in Nat \ {0}, s \in Int, t \in Int :
           n = nodesOf[2] /\ s = started(1) /\ t = started(2)
    BY <1>2, <1>3, GridIs
  <2>2. PICK k \in Int : k = s * n + t
    OBVIOUS
  <2> DEFINE g == [d \in 0 .. GridDims |-> IF d = 0 THEN 0 ELSE IF d = 1 THEN s ELSE k]
  <2>3. 0 .. GridDims = {0, 1, 2} /\ nodesOf[1] \in Int
    BY <1>3, GridIs
  <2>4. g = Step(g)
    <3>1. 0 * nodesOf[1] + s = s
      BY <2>3
    <3> QED BY <2>1, <2>2, <2>3, <3>1
  <2>5. Chosen = Step(Chosen)
    BY <2>4
  <2> HIDE DEF Chosen
  <2>6. Chosen[0] = 0
    BY <2>3, <2>5
  <2>7. Chosen[1] = Chosen[1 - 1] * nodesOf[1] + s /\ Chosen[2] = Chosen[2 - 1] * n + t
    BY <2>1, <2>3, <2>5
  <2>8. Chosen[1] = s
    BY <2>3, <2>6, <2>7
  <2>9. Chosen[2] = s * n + t
    BY <2>7, <2>8
  <2>10. home(c, y)[1] = s /\ home(c, y)[2] = t
    BY <1>2, <1>3, <2>1
  <2> QED BY <1>1, <1>3, <2>1, <2>9, <2>10 DEF rankOf
<1>4. CASE GridDims = 3
  <2>1. PICK n \in Nat \ {0}, o \in Nat \ {0}, s \in Int, t \in Int, u \in Int :
           n = nodesOf[2] /\ o = nodesOf[3] /\ s = started(1) /\ t = started(2) /\ u = started(3)
    BY <1>2, <1>4, GridIs
  <2>2. PICK k \in Int, l \in Int : k = s * n + t /\ l = k * o + u
    OBVIOUS
  <2> DEFINE g == [d \in 0 .. GridDims |-> IF d = 0 THEN 0 ELSE IF d = 1 THEN s ELSE IF d = 2 THEN k ELSE l]
  <2>3. 0 .. GridDims = {0, 1, 2, 3} /\ nodesOf[1] \in Int
    BY <1>4, GridIs
  <2>4. g = Step(g)
    <3>1. 0 * nodesOf[1] + s = s
      BY <2>3
    <3>2. \A d \in 0 .. GridDims : g[d] = IF d = 0 THEN 0 ELSE g[d - 1] * nodesOf[d] + started(d)
      <4>1. g[0] = 0 /\ g[1] = s /\ g[2] = k /\ g[3] = l
        BY <2>3
      <4> HIDE DEF g
      <4>2. g[1] = g[1 - 1] * nodesOf[1] + started(1)
        BY <2>1, <3>1, <4>1
      <4>3. g[2] = g[2 - 1] * nodesOf[2] + started(2)
        BY <2>1, <2>2, <4>1
      <4>4. g[3] = g[3 - 1] * nodesOf[3] + started(3)
        BY <2>1, <2>2, <4>1
      <4> QED BY <2>3, <4>1, <4>2, <4>3, <4>4
    <3> QED BY <3>2
  <2>5. Chosen = Step(Chosen)
    BY <2>4
  <2> HIDE DEF Chosen
  <2>6. Chosen[0] = 0
    BY <2>3, <2>5
  <2>7. /\ Chosen[1] = Chosen[1 - 1] * nodesOf[1] + s /\ Chosen[2] = Chosen[2 - 1] * n + t
        /\ Chosen[3] = Chosen[3 - 1] * o + u
    BY <2>1, <2>3, <2>5
  <2>8. Chosen[1] = s
    BY <2>3, <2>6, <2>7
  <2>9. Chosen[2] = k
    BY <2>2, <2>7, <2>8
  <2>10. Chosen[3] = (s * n + t) * o + u
    BY <2>2, <2>7, <2>9
  <2>11. home(c, y)[1] = s /\ home(c, y)[2] = t /\ home(c, y)[3] = u
    BY <1>2, <1>4, <2>1
  <2> QED BY <1>1, <1>4, <2>1, <2>10, <2>11 DEF rankOf
<1> QED BY <1>3, <1>4, GridIs DEF Dim

\* Ranks and places of the grid correspond.
LEMMA PlaceOfRank ==
    ASSUME gpuNodes \in Grids, NEW r \in Members
    PROVE  InGrid(cartCoordinates(r)) /\ rankOf(cartCoordinates(r)) = r
<1>1. r \in Nat /\ \A d \in 1 .. GridDims : nodesOf[d] \in Nat \ {0}
  BY GridIs DEF Members
<1>2. ASSUME NEW v, DOMAIN v = 1 .. GridDims, v = cartCoordinates(r),
             \A d \in 1 .. GridDims : v[d] \in Int /\ 0 <= v[d] /\ v[d] < nodesOf[d]
      PROVE  InGrid(v)
  <2>1. v = [d \in 1 .. GridDims |-> v[d]]
    BY <1>2 DEF cartCoordinates, dims, GridDims
  <2>2. v \in Vec(GridDims)
    BY <1>2, <2>1 DEF Vec
  <2> QED BY <1>2, <2>2 DEF InGrid
<1>3. CASE GridDims = 2
  <2>1. PICK a \in Nat \ {0}, b \in Nat \ {0} : a = nodesOf[1] /\ b = nodesOf[2]
    BY <1>1, <1>3
  <2>2. productOfComponents(nodesOf) = a * b /\ nodesOf \in Vec(2)
    BY <1>3, <2>1, GridIs, ProductIs
  <2>3. a * b = b * a /\ a \in Int
    OBVIOUS
  <2>4. r < b * a
    BY <2>2, <2>3 DEF Members, nodesOf
  <2>5. PICK q \in Nat, t \in Nat : q = r \div b /\ t = r % b /\ r = q * b + t /\ t < b
    BY <1>1, DivMod
  <2>6. q < a
    BY <1>1, <2>3, <2>4, <2>5, PlaneOf
  <2>7. q % a = q
    BY <2>6, ModSmall
  <2>8. cartCoordinates(r)[1] = q /\ cartCoordinates(r)[2] = t /\ DOMAIN cartCoordinates(r) = 1 .. GridDims
    BY <1>1, <1>3, <2>1, <2>5, <2>7, CartIs
  <2>9. 1 .. GridDims = {1, 2}
    BY <1>3
  <2>10. \A d \in 1 .. GridDims : /\ cartCoordinates(r)[d] \in Int /\ 0 <= cartCoordinates(r)[d]
                                  /\ cartCoordinates(r)[d] < nodesOf[d]
    <3> DEFINE Fits(d) == cartCoordinates(r)[d] \in Int /\ 0 <= cartCoordinates(r)[d] /\ cartCoordinates(r)[d] < nodesOf[d]
    <3>0. q \in Int /\ 0 <= q /\ q < a /\ t \in Int /\ 0 <= t /\ t < b
      BY <2>5, <2>6
    <3>1. Fits(1) /\ Fits(2)
      BY ONLY <2>1, <2>8, <3>0
    <3> HIDE DEF Fits
    <3>2. \A d \in 1 .. GridDims : Fits(d)
      BY <3>1, <2>9
    <3> QED BY <3>2 DEF Fits
  <2>11. rankOf(cartCoordinates(r)) = r
    BY <1>3, <2>1, <2>5, <2>8 DEF rankOf
  <2> QED BY <1>2, <2>8, <2>10, <2>11
<1>4. CASE GridDims = 3
  <2>1. PICK a \in Nat \ {0}, b \in Nat \ {0}, c \in Nat \ {0} :
           a = nodesOf[1] /\ b = nodesOf[2] /\ c = nodesOf[3]
    BY <1>1, <1>4
  <2>2. productOfComponents(nodesOf) = a * b * c /\ nodesOf \in Vec(3)
    BY <1>4, <2>1, GridIs, ProductIs
  <2>3. a * b * c = c * b * a /\ a \in Int
    OBVIOUS
  <2>4. r < c * b * a
    BY <2>2, <2>3 DEF Members, nodesOf
  <2>5. /\ r % c \in Nat /\ r % c < c
        /\ (r \div c) % b \in Nat /\ (r \div c) % b < b
        /\ r \div (c * b) \in Nat /\ r \div (c * b) < a
        /\ r = (r % c) + ((r \div c) % b) * c + (r \div (c * b)) * (c * b)
    BY <1>1, <2>3, <2>4, SolidOf, ZenonT(60)
  <2>6. PICK x \in Nat, y \in Nat, z \in Nat :
           x = r % c /\ y = (r \div c) % b /\ z = r \div (c * b)
    BY <2>5
  <2>7. x < c /\ y < b /\ z < a /\ r = x + y * c + z * (c * b)
    BY <2>5, <2>6
  <2>8. z % a = z
    BY <2>7, ModSmall
  <2>9. /\ cartCoordinates(r)[1] = z /\ cartCoordinates(r)[2] = y /\ cartCoordinates(r)[3] = x
        /\ DOMAIN cartCoordinates(r) = 1 .. GridDims
    BY <1>1, <1>4, <2>1, <2>6, <2>8, CartIs
  <2>10. 1 .. GridDims = {1, 2, 3}
    BY <1>4
  <2>11. \A d \in 1 .. GridDims : /\ cartCoordinates(r)[d] \in Int /\ 0 <= cartCoordinates(r)[d]
                                  /\ cartCoordinates(r)[d] < nodesOf[d]
    <3> DEFINE Fits(d) == cartCoordinates(r)[d] \in Int /\ 0 <= cartCoordinates(r)[d] /\ cartCoordinates(r)[d] < nodesOf[d]
    <3>0. /\ z \in Int /\ 0 <= z /\ z < a /\ y \in Int /\ 0 <= y /\ y < b
          /\ x \in Int /\ 0 <= x /\ x < c
      BY <2>7
    <3>1. Fits(1) /\ Fits(2) /\ Fits(3)
      BY ONLY <2>1, <2>9, <3>0
    <3> HIDE DEF Fits
    <3>2. \A d \in 1 .. GridDims : Fits(d)
      BY <3>1, <2>10
    <3> QED BY <3>2 DEF Fits
  <2>12. rankOf(cartCoordinates(r)) = (z * b + y) * c + x
    BY <1>4, <2>1, <2>9 DEF rankOf
  <2>13. (z * b + y) * c + x = x + y * c + z * (c * b)
    OBVIOUS
  <2> QED BY <1>2, <2>7, <2>9, <2>11, <2>12, <2>13
<1> QED BY <1>3, <1>4, GridIs DEF Dim

\* Every place of the grid is that of a rank.
LEMMA RankOfPlace ==
    ASSUME gpuNodes \in Grids, NEW v, InGrid(v)
    PROVE  rankOf(v) \in Members /\ cartCoordinates(rankOf(v)) = v
<1>1. \A d \in 1 .. GridDims : nodesOf[d] \in Nat \ {0} /\ v[d] \in Nat /\ v[d] < nodesOf[d]
  BY GridIs DEF InGrid, Vec
<1>2. ASSUME NEW r, DOMAIN cartCoordinates(r) = 1 .. GridDims,
             \A d \in 1 .. GridDims : cartCoordinates(r)[d] = v[d]
      PROVE  cartCoordinates(r) = v
  <2>1. cartCoordinates(r) = [d \in 1 .. GridDims |-> cartCoordinates(r)[d]]
    BY DEF cartCoordinates, dims, GridDims
  <2>2. v = [d \in 1 .. GridDims |-> v[d]]
    BY DEF InGrid, Vec
  <2> QED BY <1>2, <2>1, <2>2
<1>3. CASE GridDims = 2
  <2>1. PICK a \in Nat \ {0}, b \in Nat \ {0}, q \in Nat, t \in Nat :
           a = nodesOf[1] /\ b = nodesOf[2] /\ q = v[1] /\ t = v[2] /\ q < a /\ t < b
    BY <1>1, <1>3
  <2>2. productOfComponents(nodesOf) = a * b /\ nodesOf \in Vec(2)
    BY <1>3, <2>1, GridIs, ProductIs
  <2>3. a * b = b * a /\ a \in Int
    OBVIOUS
  <2>4. PICK r \in Int : r = q * b + t
    OBVIOUS
  <2>5. r \in Nat /\ r < b * a
    BY <2>1, <2>3, <2>4, PlaneTo
  <2>6. r \div b = q /\ r % b = t
    BY <2>1, <2>4, DivModUnique, ZenonT(60)
  <2>7. q % a = q
    BY <2>1, ModSmall
  <2>8. rankOf(v) = r
    BY <1>3, <2>1, <2>4 DEF rankOf
  <2>9. r \in Members
    BY <2>2, <2>3, <2>5 DEF Members, nodesOf
  <2>10. cartCoordinates(r)[1] = q /\ cartCoordinates(r)[2] = t /\ DOMAIN cartCoordinates(r) = 1 .. GridDims
    BY <1>3, <2>1, <2>5, <2>6, <2>7, CartIs
  <2>11. 1 .. GridDims = {1, 2}
    BY <1>3
  <2>12. cartCoordinates(r) = v
    BY <1>2, <2>1, <2>10, <2>11
  <2> QED BY <2>8, <2>9, <2>12
<1>4. CASE GridDims = 3
  <2>1. PICK a \in Nat \ {0}, b \in Nat \ {0}, c \in Nat \ {0}, z \in Nat, y \in Nat, x \in Nat :
           /\ a = nodesOf[1] /\ b = nodesOf[2] /\ c = nodesOf[3]
           /\ z = v[1] /\ y = v[2] /\ x = v[3] /\ z < a /\ y < b /\ x < c
    <3>1. 1 \in 1 .. GridDims /\ 2 \in 1 .. GridDims /\ 3 \in 1 .. GridDims
      BY <1>4
    <3> QED BY <1>1, <3>1, Zenon
  <2>2. productOfComponents(nodesOf) = a * b * c /\ nodesOf \in Vec(3)
    BY <1>4, <2>1, GridIs, ProductIs
  <2>3. a * b * c = c * b * a /\ a \in Int
    OBVIOUS
  <2>4. Numbered(c, b, a, x, y, z)
    BY <2>1, <2>3, SolidTo
  <2>5. PICK r \in Nat : r = number(c, b, x, y, z)
    BY <2>4 DEF Numbered
  <2>6. r < c * b * a /\ r % c = x /\ (r \div c) % b = y /\ r \div (c * b) = z
    BY <2>4, <2>5 DEF Numbered
  <2>7. z % a = z
    BY <2>1, ModSmall
  <2>8. (z * b + y) * c + x = x + y * c + z * (c * b)
    OBVIOUS
  <2>9. rankOf(v) = r
    BY <1>4, <2>1, <2>5, <2>8 DEF rankOf, number
  <2>10. r \in Members
    BY <2>2, <2>3, <2>6 DEF Members, nodesOf
  <2>11. /\ cartCoordinates(r)[1] = z /\ cartCoordinates(r)[2] = y /\ cartCoordinates(r)[3] = x
         /\ DOMAIN cartCoordinates(r) = 1 .. GridDims
    BY <1>4, <2>1, <2>6, <2>7, CartIs
  <2>12. 1 .. GridDims = {1, 2, 3}
    BY <1>4
  <2>13. cartCoordinates(r) = v
    BY <1>2, <2>1, <2>11, <2>12
  <2> QED BY <2>9, <2>10, <2>13
<1> QED BY <1>3, <1>4, GridIs DEF Dim

\* What the slides have done to a rank.
LEMMA SlidIs ==
    ASSUME gpuNodes \in Grids, NEW v, InGrid(v), NEW y \in Int
    PROVE  slidCoordinates(v, y) = away(v, y)
<1>1. \A d \in 1 .. GridDims : nodesOf[d] \in Nat \ {0} /\ v[d] \in Int /\ 0 <= v[d] /\ v[d] < nodesOf[d]
  BY GridIs DEF InGrid, Vec
<1>2. dims(v) = 1 .. GridDims /\ 2 \in 1 .. GridDims
  BY GridIs, VecDims DEF InGrid
<1> DEFINE moved == IF nodesOf[2] > 1 THEN remainder(v[2] + y, nodesOf[2]) ELSE v[2]
           fixed == IF moved < 0 THEN moved + nodesOf[2] ELSE moved
<1>3. slidCoordinates(v, y) = [d \in 1 .. GridDims |-> IF d # 2 THEN v[d] ELSE fixed]
  BY <1>2 DEF slidCoordinates, nodesOf
<1>4. fixed = (v[2] + y) % nodesOf[2]
  <2>1. PICK n \in Nat \ {0}, x \in Int : n = nodesOf[2] /\ x = v[2] /\ 0 <= x /\ x < n
    BY <1>1, <1>2
  <2>2. CASE n > 1
    <3>1. PICK z \in Int : z = x + y
      OBVIOUS
    <3>2. moved = remainder(z, n)
      BY <2>1, <2>2, <3>1
    <3> HIDE DEF moved
    <3> QED BY <2>1, <3>1, <3>2, RemainderFixed
  <2>3. CASE n = 1
    <3>1. x = 0 /\ \A k \in Int : k % 1 = 0
      BY <2>1, <2>3
    <3> QED BY <2>1, <2>3, <3>1
  <2> QED BY <2>2, <2>3
<1>5. ASSUME NEW d \in 1 .. GridDims, d # 2 PROVE v[d] = (v[d] + along(d, y)) % nodesOf[d]
  <2>1. PICK n \in Nat \ {0}, x \in Int : n = nodesOf[d] /\ x = v[d] /\ 0 <= x /\ x < n
    BY <1>1
  <2>2. x % n = x /\ x + 0 = x
    BY <2>1, ModSmall
  <2> QED BY <1>5, <2>1, <2>2 DEF along
<1>6. \A d \in 1 .. GridDims : (IF d # 2 THEN v[d] ELSE fixed) = (v[d] + along(d, y)) % nodesOf[d]
  <2> HIDE DEF fixed
  <2> QED BY <1>4, <1>5 DEF along
<1> HIDE DEF fixed
<1> QED BY <1>3, <1>6 DEF away

\* The offset after s slides.
LEMMA SlideOnceIs ==
    ASSUME gpuNodes \in Grids, NEW s \in Nat
    PROVE  slideOnce(-(s % nodesOf[2])) = -((s + 1) % nodesOf[2])
<1>1. PICK n \in Nat \ {0} : n = nodesOf[2]
  BY GridIs
<1>2. PICK q \in Int, r \in Int : q = s \div n /\ r = s % n /\ s = q * n + r /\ 0 <= r /\ r < n
  OBVIOUS
<1>3. slideOnce(-r) = IF -r - 1 = -n THEN 0 ELSE -r - 1
  BY <1>1 DEF slideOnce, nodesOf
<1>4. PICK t \in Int, b \in Int : t = s + 1 /\ b = q + 1
  OBVIOUS
<1> SUFFICES slideOnce(-r) = -(t % n)
  BY <1>1, <1>2, <1>4
<1>5. CASE r + 1 = n
  <2>1. t = b * n + 0 /\ 0 \in Int
    BY <1>2, <1>4, <1>5
  <2>2. t % n = 0
    BY <2>1, Residue
  <2> QED BY <1>2, <1>3, <1>5, <2>2
<1>6. CASE r + 1 < n
  <2>1. PICK u \in Int : u = r + 1
    OBVIOUS
  <2>2. t = q * n + u /\ 0 <= u /\ u < n
    BY <1>2, <1>4, <1>6, <2>1
  <2>3. t % n = u
    BY <2>2, Residue
  <2> QED BY <1>2, <1>3, <1>6, <2>1, <2>3
<1> QED BY <1>2, <1>5, <1>6

\* slide() k times, fewer than there are ranks along y, leaves the offset -k.
LEMMA SlideTimesIs ==
    ASSUME gpuNodes \in Grids, NEW k \in Nat, k < nodesOf[2]
    PROVE  slideTimes[k] = -k
<1> DEFINE g == [n \in Nat |-> -(n % nodesOf[2])]
           Step(f) == [n \in Nat |-> IF n = 0 THEN 0 ELSE slideOnce(f[n - 1])]
<1>1. nodesOf[2] \in Nat \ {0}
  BY GridIs
<1>2. g = Step(g)
  <2>1. ASSUME NEW n \in Nat PROVE g[n] = IF n = 0 THEN 0 ELSE slideOnce(g[n - 1])
    <3>1. CASE n = 0
      <4>1. 0 % nodesOf[2] = 0
        BY <1>1
      <4> QED BY <3>1, <4>1
    <3>2. CASE n # 0
      <4>1. PICK p \in Nat : p = n - 1 /\ n = p + 1
        BY <3>2
      <4>2. g[n] = -((p + 1) % nodesOf[2]) /\ g[n - 1] = -(p % nodesOf[2])
        BY <4>1
      <4> HIDE DEF g
      <4> QED BY <3>2, <4>2, SlideOnceIs
    <3> QED BY <3>1, <3>2
  <2> QED BY <2>1
<1>3. slideTimes = Step(slideTimes)
  <2>1. slideTimes = CHOOSE f : f = Step(f)
    BY DEF slideTimes
  <2> QED BY <1>2, <2>1
<1>4. \A n \in Nat : slideTimes[n] = IF n = 0 THEN 0 ELSE slideOnce(slideTimes[n - 1])
  BY <1>3
<1> DEFINE Wrong == {n \in Nat : slideTimes[n] # g[n]}
<1>5. Wrong = {}
  <2> SUFFICES ASSUME Wrong # {} PROVE FALSE
    OBVIOUS
  <2>1. Wrong \subseteq Nat
    OBVIOUS
  <2>2. PICK x \in Wrong : \A y \in Wrong : x <= y
    <3> HIDE DEF Wrong
    <3> QED BY <2>1, LeastNat
  <2>3. x \in Nat /\ slideTimes[x] # g[x]
    OBVIOUS
  <2>4. \A n \in Nat : g[n] = IF n = 0 THEN 0 ELSE slideOnce(g[n - 1])
    BY <1>2
  <2> HIDE DEF g
  <2>5. x # 0
    BY <1>4, <2>3, <2>4
  <2>6. x - 1 \in Nat /\ x - 1 \notin Wrong
    <3>1. x - 1 \in Nat /\ ~ (x <= x - 1)
      BY <2>3, <2>5
    <3> HIDE DEF Wrong
    <3> QED BY <2>2, <3>1
  <2>7. slideTimes[x - 1] = g[x - 1]
    BY <2>6
  <2> QED BY <1>4, <2>3, <2>4, <2>5, <2>7
<1>6. slideTimes[k] = g[k]
  <2> HIDE DEF g
  <2> QED BY <1>5
<1>7. PICK n \in Nat \ {0} : n = nodesOf[2]
  BY <1>1
<1>8. k % n = k
  BY <1>7, ModSmall
<1> QED BY <1>6, <1>7, <1>8

-----------------------------------------------------------------------------
(* Topology: the inductive invariant.                                      *)

\* The offset of every rank follows from the number of slides alone, although slide() counts
\* it down and a restart starts from 0 again.
slid == -(slides % nodesOf[2])

TInv ==
    /\ gpuNodes \in Grids /\ slides \in Nat
    /\ node = [rank \in Members |-> withOffsets(updateCoordinates(rank, slid), slides * LocalSize)]

\* It holds of the ranks init() leaves.
LEMMA TopologyStart == TopologyInit => TInv
<1> SUFFICES ASSUME TopologyInit PROVE TInv
  OBVIOUS
<1>1. gpuNodes \in Grids /\ slides = 0
  BY DEF TopologyInit
<1>2. PICK n \in Nat \ {0} : n = nodesOf[2]
  BY <1>1, GridIs
<1>3. 0 % n = 0 /\ 0 * LocalSize = 0
  BY TopologyConstants
<1>4. slid = 0 /\ slides * LocalSize = 0
  BY <1>1, <1>2, <1>3 DEF slid
<1> QED BY <1>1, <1>4 DEF TopologyInit, TInv

\* rankAt in a grid n.
rankIn(n, c, yoffset) ==
    LET started(d) ==
            LET moved == IF d = 2 /\ n[2] > 1 THEN remainder(c[2] - yoffset, n[2]) ELSE c[d]
                inGrid == remainder(moved, n[d])
            IN  IF inGrid < 0 THEN inGrid + n[d] ELSE inGrid
        upTo[d \in 0 .. Len(n)] == IF d = 0 THEN 0 ELSE upTo[d - 1] * n[d] + started(d)
    IN  upTo[Len(n)]

\* A grid that stays says the same of its ranks.
LEMMA SameGrid ==
    ASSUME gpuNodes' = gpuNodes
    PROVE  /\ Members' = Members /\ nodesOf' = nodesOf
           /\ \A rank, y, at : withOffsets(updateCoordinates(rank, y), at)' = withOffsets(updateCoordinates(rank, y), at)
<1>1. Members' = Members /\ nodesOf' = nodesOf
  BY DEF Members, nodesOf
<1>2. \A rank : cartCoordinates(rank)' = cartCoordinates(rank)
  BY DEF cartCoordinates
<1>3. \A v, y : slidCoordinates(v, y)' = slidCoordinates(v, y)
  BY DEF slidCoordinates
<1>4. \A c : outside(c)' <=> outside(c)
  BY DEF outside
<1>5. \A c, y : rankAt(c, y)' = rankAt(c, y)
  <2>1. \A c, y : rankAt(c, y) = rankIn(gpuNodes.nodes, c, y)
    BY DEF rankAt, rankIn
  <2>2. \A c, y : rankAt(c, y)' = rankIn(gpuNodes'.nodes, c, y)
    BY DEF rankAt, rankIn
  <2> QED BY <2>1, <2>2
<1>6. \A rank, y : updateCoordinates(rank, y)' = updateCoordinates(rank, y)
  BY <1>2, <1>3, <1>4, <1>5 DEF updateCoordinates
<1> QED BY <1>1, <1>6 DEF withOffsets

\* A slide and a restart keep it.
LEMMA TopologyStep == TInv /\ [TopologyNext]_topology => TInv'
<1> SUFFICES ASSUME TInv, [TopologyNext]_topology PROVE TInv'
  OBVIOUS
<1>1. PICK n \in Nat \ {0} : n = nodesOf[2]
  BY GridIs DEF TInv
<1>2. gpuNodes \in Grids /\ slides \in Nat /\ LocalSize \in Nat
  BY TopologyConstants DEF TInv
<1>3. CASE slide
  <2>1. gpuNodes' = gpuNodes /\ slides' = slides + 1
    BY <1>3 DEF slide
  <2>2. slideOnce(slid) = -((slides + 1) % nodesOf[2])
    BY <1>2, SlideOnceIs DEF slid
  <2>3. \A rank \in Members : node[rank].yoffset = slid /\ node[rank].global = slides * LocalSize
    BY DEF TInv, withOffsets, updateCoordinates
  <2>4. slides * LocalSize + LocalSize = (slides + 1) * LocalSize
    BY <1>2
  <2>5. node' = [rank \in Members |->
                   withOffsets(updateCoordinates(rank, -((slides + 1) % nodesOf[2])), (slides + 1) * LocalSize)]
    <3>1. node' = [rank \in Members |->
                     withOffsets(updateCoordinates(rank, slideOnce(node[rank].yoffset)), node[rank].global + LocalSize)]
      BY <1>3 DEF slide
    <3> QED BY <2>2, <2>3, <2>4, <3>1
  <2>6. slides + 1 \in Nat
    BY <1>2
  <2> QED BY <1>2, <2>1, <2>5, <2>6, SameGrid DEF TInv, slid
<1>4. CASE setStateAfterSlides
  <2>1. gpuNodes' = gpuNodes /\ slides' = slides
    BY <1>4 DEF setStateAfterSlides
  <2>2. PICK k \in Nat : k = slides % n /\ k < n
    BY <1>2
  <2>3. slideTimes[k] = -k
    BY <1>1, <1>2, <2>2, SlideTimesIs
  <2>4. slideTimes[slides % gpuNodes.nodes[2]] = slid
    BY <1>1, <2>2, <2>3 DEF slid, nodesOf
  <2>5. node' = node
    BY <1>4, <2>4 DEF setStateAfterSlides, TInv
  <2> QED BY <2>1, <2>5, SameGrid DEF TInv, slid
<1>5. CASE UNCHANGED topology
  BY <1>5, SameGrid DEF topology, TInv, slid
<1> QED BY <1>3, <1>4, <1>5 DEF TopologyNext

\* The window's position determines where every rank is and whom it has beside it.
THEOREM TopologyInvariance == TopologySpec => []TInv
BY TopologyStart, TopologyStep, PTL DEF TopologySpec

\* What a rank knows.
LEMMA NodeIs ==
    ASSUME TInv, NEW r \in Members
    PROVE  /\ InGrid(cartCoordinates(r)) /\ InGrid(node[r].coordinates)
           /\ node[r].coordinates = away(cartCoordinates(r), slid) /\ slid \in Int
           /\ \A ex \in ExchangeTypes(GridDims) :
                 LET beside == plus(node[r].coordinates, getRelativeDirections(GridDims, ex))
                 IN  /\ ex \in node[r].communicationMask <=> ~outside(beside)
                     /\ ~outside(beside) => node[r].ranks[ex] = rankAt(beside, slid)
<1>1. gpuNodes \in Grids /\ slides \in Nat
  BY DEF TInv
<1>2. slid \in Int
  <2>1. PICK n \in Nat \ {0} : n = nodesOf[2]
    BY <1>1, GridIs
  <2> QED BY <1>1, <2>1 DEF slid
<1>3. InGrid(cartCoordinates(r)) /\ cartCoordinates(r) \in Vec(GridDims)
  BY <1>1, PlaceOfRank DEF InGrid
<1>4. node[r] = withOffsets(updateCoordinates(r, slid), slides * LocalSize)
  BY DEF TInv
<1>5. slidCoordinates(cartCoordinates(r), slid) = away(cartCoordinates(r), slid)
  BY <1>1, <1>2, <1>3, SlidIs
<1>6. node[r].coordinates = away(cartCoordinates(r), slid)
  BY <1>4, <1>5 DEF withOffsets, updateCoordinates
<1>7. InGrid(node[r].coordinates)
  BY <1>1, <1>2, <1>3, <1>6, Placed
<1> DEFINE beside(ex) == plus(slidCoordinates(cartCoordinates(r), slid), getRelativeDirections(GridDims, ex))
<1>8. /\ node[r].ranks = [ex \in ExchangeTypes(GridDims) |-> IF outside(beside(ex)) THEN -1 ELSE rankAt(beside(ex), slid)]
      /\ node[r].communicationMask = {ex \in ExchangeTypes(GridDims) : ~outside(beside(ex))}
  BY <1>4 DEF withOffsets, updateCoordinates, GridDims
<1>9. slidCoordinates(cartCoordinates(r), slid) = node[r].coordinates
  BY <1>5, <1>6
<1> QED BY <1>2, <1>3, <1>6, <1>7, <1>8, <1>9

\* Directions are steps to a neighbour, and the mirrored direction leads back.
LEMMA DirectionsAre ==
    ASSUME NEW n \in Dim, NEW ex \in ExchangeTypes(n)
    PROVE  LET mirror == getMirroredExchangeType(ex)
           IN  /\ mirror \in ExchangeTypes(n)
               /\ getRelativeDirections(n, ex) \in Vec(n) /\ getRelativeDirections(n, mirror) \in Vec(n)
               /\ \A d \in 1 .. n : getRelativeDirections(n, mirror)[d] = -getRelativeDirections(n, ex)[d]
<1> DEFINE mirror == getMirroredExchangeType(ex)
<1>1. mirror \in ExchangeTypes(n) /\ ex \in Nat /\ 1 .. n \subseteq 1 .. 3
  <2>1. mirror \in ExchangeTypes(n)
    BY MirrorDigits
  <2>2. n \in Nat /\ 3^n \in Int
    BY DEF Dim
  <2>3. \A k \in 1 .. 3^n - 1 : k \in Nat
    BY <2>2
  <2> QED BY <2>1, <2>3 DEF ExchangeTypes, Dim
<1>2. ASSUME NEW d \in 1 .. n
      PROVE  /\ digit(ex, d) \in {0, 1, 2}
             /\ digit(ex, d) = 0 => digit(mirror, d) = 0
             /\ digit(ex, d) = 1 => digit(mirror, d) = 2
             /\ digit(ex, d) = 2 => digit(mirror, d) = 1
  BY <1>1, DigitRange, MirrorDigits
<1> HIDE DEF mirror
<1> DEFINE step(k) == IF k = 2 THEN -1 ELSE k
<1>3. ASSUME NEW d \in 1 .. n
      PROVE  /\ step(digit(ex, d)) \in Int /\ step(digit(mirror, d)) \in Int
             /\ step(digit(mirror, d)) = -step(digit(ex, d))
  BY <1>2
<1>4. /\ getRelativeDirections(n, ex) = [d \in 1 .. n |-> step(digit(ex, d))]
      /\ getRelativeDirections(n, mirror) = [d \in 1 .. n |-> step(digit(mirror, d))]
  BY DEF getRelativeDirections
<1> HIDE DEF step
<1>5. /\ getRelativeDirections(n, ex) \in Vec(n) /\ getRelativeDirections(n, mirror) \in Vec(n)
      /\ \A d \in 1 .. n : getRelativeDirections(n, mirror)[d] = -getRelativeDirections(n, ex)[d]
  BY <1>3, <1>4 DEF Vec
<1> QED BY <1>1, <1>5 DEF mirror

\* Every place of the grid has a rank, and it is the one that started there.
LEMMA Places == TInv => PlacesTaken
<1> SUFFICES ASSUME TInv PROVE PlacesTaken
  OBVIOUS
<1>1. gpuNodes \in Grids /\ slides \in Nat
  BY DEF TInv
<1>2. /\ GridDims \in Dim /\ GridDims \in Nat /\ nodesOf \in Vec(GridDims) /\ 2 \in 1 .. GridDims
      /\ \A d \in 1 .. GridDims : nodesOf[d] \in Nat \ {0}
  BY <1>1, GridIs
<1>3. \A b : b \in Blocks(nodesOf) <=> InGrid(b)
  BY <1>2, BlocksAre DEF InGrid
<1>4. slid \in Int
  <2>1. PICK n \in Nat \ {0} : n = nodesOf[2]
    BY <1>2
  <2> QED BY <1>1, <2>1 DEF slid
<1>5. {node[r].coordinates : r \in Members} = Blocks(nodesOf)
  <2>1. ASSUME NEW r \in Members PROVE node[r].coordinates \in Blocks(nodesOf)
    BY <1>3, NodeIs
  <2>2. ASSUME NEW b \in Blocks(nodesOf) PROVE \E r \in Members : node[r].coordinates = b
    <3>1. InGrid(b) /\ b \in Vec(GridDims)
      BY <1>3 DEF InGrid
    <3>2. InGrid(home(b, slid))
      BY <1>1, <1>4, <3>1, Placed
    <3>3. PICK r \in Members : cartCoordinates(r) = home(b, slid)
      BY <1>1, <3>2, RankOfPlace
    <3>4. node[r].coordinates = away(home(b, slid), slid)
      BY <3>3, NodeIs
    <3>5. ASSUME NEW d \in 1 .. GridDims PROVE away(home(b, slid), slid)[d] = b[d]
      <4>1. away(home(b, slid), slid)[d] = b[d] % nodesOf[d]
        BY <1>1, <1>4, <3>1, AwayHome
      <4>2. PICK n \in Nat \ {0}, x \in Int : n = nodesOf[d] /\ x = b[d] /\ 0 <= x /\ x < n
        BY <1>2, <3>1 DEF InGrid, Vec
      <4>3. x % n = x
        BY <4>2, ModSmall
      <4> QED BY <4>1, <4>2, <4>3
    <3>6. away(home(b, slid), slid) \in Vec(GridDims)
      BY <1>1, <1>4, <3>2, Placed DEF InGrid
    <3>7. away(home(b, slid), slid) = b
      BY <1>2, <3>1, <3>5, <3>6, VecEqual
    <3> QED BY <3>4, <3>7
  <2> QED BY <2>1, <2>2
<1>6. ASSUME NEW r \in Members
      PROVE  node[r].coordinates =
                [cartCoordinates(r) EXCEPT ![2] = (cartCoordinates(r)[2] - slides) % nodesOf[2]]
  <2>1. PICK v : v = cartCoordinates(r) /\ InGrid(v)
    BY NodeIs
  <2>2. node[r].coordinates = away(v, slid) /\ v \in Vec(GridDims)
    BY <2>1, NodeIs DEF InGrid
  <2>3. \A d \in 1 .. GridDims : d # 2 => away(v, slid)[d] = v[d]
    <3>1. ASSUME NEW d \in 1 .. GridDims, d # 2 PROVE away(v, slid)[d] = v[d]
      <4>1. PICK n \in Nat \ {0}, x \in Int : n = nodesOf[d] /\ x = v[d] /\ 0 <= x /\ x < n
        BY <1>2, <2>1 DEF InGrid, Vec
      <4>2. x % n = x /\ x + 0 = x
        BY <4>1, ModSmall
      <4> QED BY <3>1, <4>1, <4>2 DEF away, along
    <3> QED BY <3>1
  <2>4. away(v, slid)[2] = (v[2] - slides) % nodesOf[2]
    <3>1. PICK n \in Nat \ {0}, x \in Int : n = nodesOf[2] /\ x = v[2]
      BY <1>2, <2>2 DEF Vec
    <3>2. PICK q \in Int, t \in Int : q = slides \div n /\ t = slides % n /\ slides = q * n + t
      BY <1>1
    <3>3. PICK z \in Int : z = x - slides
      BY <1>1
    <3>4. x - t = z + q * n
      BY <1>1, <3>2, <3>3
    <3>5. (x - t) % n = z % n
      <4>1. (z + q * n) % n = z % n
        BY ModShift
      <4> QED BY <3>4, <4>1
    <3>6. away(v, slid)[2] = (x + -t) % n
      BY <1>2, <3>1, <3>2 DEF away, along, slid
    <3>7. x + -t = x - t
      OBVIOUS
    <3> QED BY <3>1, <3>3, <3>5, <3>6, <3>7
  <2>5. away(v, slid) = [d \in 1 .. GridDims |-> away(v, slid)[d]]
    BY DEF away
  <2>6. DOMAIN v = 1 .. GridDims /\ v = [d \in 1 .. GridDims |-> v[d]]
    BY <2>2 DEF Vec
  <2>7. away(v, slid) = [v EXCEPT ![2] = (v[2] - slides) % nodesOf[2]]
    BY <1>2, <2>3, <2>4, <2>5, <2>6
  <2> QED BY <2>1, <2>2, <2>7
<1>7. ASSUME NEW r \in Members
      PROVE  node[r].local = node[r].coordinates[2] * LocalSize /\ node[r].global = slides * LocalSize
  BY DEF TInv, withOffsets
<1> QED BY <1>5, <1>6, <1>7 DEF PlacesTaken, nodesOf

\* The rank beside r, seen from there.
LEMMA Beside ==
    ASSUME TInv, NEW r \in Members, NEW ex \in ExchangeTypes(GridDims),
           NEW there, there = plus(node[r].coordinates, getRelativeDirections(GridDims, ex)),
           ~outside(there)
    PROVE  LET other  == rankAt(there, slid)
               mirror == getMirroredExchangeType(ex)
               back   == plus(node[other].coordinates, getRelativeDirections(GridDims, mirror))
           IN  /\ other \in Members /\ mirror \in ExchangeTypes(GridDims)
               /\ node[other].coordinates = [d \in 1 .. GridDims |-> there[d] % nodesOf[d]]
               /\ ~outside(back) /\ rankAt(back, slid) = r
<1> DEFINE other  == rankAt(there, slid)
           mirror == getMirroredExchangeType(ex)
           back   == plus(node[other].coordinates, getRelativeDirections(GridDims, mirror))
           here   == node[r].coordinates
           way    == getRelativeDirections(GridDims, ex)
<1>1. gpuNodes \in Grids
  BY DEF TInv
<1>2. /\ GridDims \in Dim /\ GridDims \in Nat /\ \A d \in 1 .. GridDims : nodesOf[d] \in Nat \ {0}
  BY <1>1, GridIs
<1>3. /\ InGrid(here) /\ here = away(cartCoordinates(r), slid) /\ slid \in Int
      /\ InGrid(cartCoordinates(r)) /\ cartCoordinates(r) \in Vec(GridDims)
  BY NodeIs DEF InGrid
<1>4. /\ mirror \in ExchangeTypes(GridDims)
      /\ way \in Vec(GridDims) /\ getRelativeDirections(GridDims, mirror) \in Vec(GridDims)
      /\ \A d \in 1 .. GridDims : getRelativeDirections(GridDims, mirror)[d] = -way[d]
  BY <1>2, DirectionsAre
<1>5. here \in Vec(GridDims)
  BY <1>3 DEF InGrid
<1> HIDE DEF here, way, mirror
<1>6. there \in Vec(GridDims) /\ \A d \in 1 .. GridDims : there[d] = here[d] + way[d]
  BY <1>2, <1>4, <1>5, PlusVec DEF here, way
<1>7. other = rankOf(home(there, slid))
  BY <1>1, <1>3, <1>6, RankNumber
<1>8. InGrid(home(there, slid))
  BY <1>1, <1>3, <1>6, Placed
<1>9. other \in Members /\ cartCoordinates(other) = home(there, slid)
  BY <1>1, <1>7, <1>8, RankOfPlace
<1> HIDE DEF other
<1>10. node[other].coordinates = away(home(there, slid), slid) /\ InGrid(node[other].coordinates)
  BY <1>9, NodeIs
<1>11. \A d \in 1 .. GridDims : node[other].coordinates[d] = there[d] % nodesOf[d]
  BY <1>1, <1>3, <1>6, <1>10, AwayHome
<1>12. node[other].coordinates = [d \in 1 .. GridDims |-> there[d] % nodesOf[d]]
  <2>1. node[other].coordinates = [d \in 1 .. GridDims |-> node[other].coordinates[d]]
    BY <1>10 DEF away
  <2> QED BY <1>11, <2>1
<1>13. back \in Vec(GridDims) /\ \A d \in 1 .. GridDims : back[d] = (there[d] % nodesOf[d]) - way[d]
  <2>1. node[other].coordinates \in Vec(GridDims)
    BY <1>10 DEF InGrid
  <2>2. /\ back \in Vec(GridDims)
        /\ \A d \in 1 .. GridDims : back[d] = node[other].coordinates[d] + getRelativeDirections(GridDims, mirror)[d]
    BY <1>2, <1>4, <2>1, PlusVec
  <2>3. ASSUME NEW d \in 1 .. GridDims PROVE back[d] = (there[d] % nodesOf[d]) - way[d]
    <3>1. PICK x \in Int, w \in Int : x = node[other].coordinates[d] /\ w = way[d]
      BY <1>4, <2>1 DEF Vec
    <3>2. x + -w = x - w
      OBVIOUS
    <3> QED BY <1>4, <1>11, <2>2, <3>1, <3>2
  <2> QED BY <2>2, <2>3
<1> HIDE DEF back
<1>14. ASSUME NEW d \in 1 .. GridDims, gpuNodes.periodic[d] = 0
       PROVE  0 <= back[d] /\ back[d] < nodesOf[d]
  <2>1. PICK n \in Nat \ {0}, x \in Int, w \in Int, t \in Int :
           n = nodesOf[d] /\ x = here[d] /\ w = way[d] /\ t = there[d] /\ t = x + w /\ 0 <= x /\ x < n
    BY <1>2, <1>3, <1>4, <1>5, <1>6 DEF InGrid, Vec
  <2>2. 0 <= t /\ t < n
    <3>1. dims(there) = 1 .. GridDims
      BY <1>2, <1>6, VecDims
    <3>2. ~(there[d] < 0 \/ there[d] >= gpuNodes.nodes[d])
      BY <1>14, <3>1 DEF outside
    <3> QED BY <2>1, <3>2 DEF nodesOf
  <2>3. t % n = t
    BY <2>2, ModSmall
  <2>4. back[d] = t - w
    BY <1>13, <2>1, <2>3
  <2> QED BY <2>1, <2>4
<1>15. ~outside(back)
  <2>1. dims(back) = 1 .. GridDims
    BY <1>2, <1>13, VecDims
  <2>2. \A d \in 1 .. GridDims : gpuNodes.periodic[d] = 0 => ~(back[d] < 0 \/ back[d] >= gpuNodes.nodes[d])
    <3>1. ASSUME NEW d \in 1 .. GridDims, gpuNodes.periodic[d] = 0
          PROVE  ~(back[d] < 0 \/ back[d] >= gpuNodes.nodes[d])
      <4>1. PICK n \in Nat, x \in Int : n = gpuNodes.nodes[d] /\ x = back[d] /\ 0 <= x /\ x < n
        BY <1>2, <1>13, <1>14, <3>1 DEF Vec, nodesOf
      <4> QED BY <4>1
    <3> QED BY <3>1
  <2> QED BY <2>1, <2>2 DEF outside
<1>16. rankAt(back, slid) = rankOf(home(back, slid))
  BY <1>1, <1>3, <1>13, RankNumber
<1>17. ASSUME NEW d \in 1 .. GridDims PROVE home(back, slid)[d] = cartCoordinates(r)[d]
  <2>1. PICK n \in Nat \ {0}, x \in Int, w \in Int, t \in Int, a \in Int, s \in Int :
           /\ n = nodesOf[d] /\ x = here[d] /\ w = way[d] /\ t = there[d] /\ t = x + w
           /\ a = along(d, slid) /\ s = cartCoordinates(r)[d] /\ 0 <= s /\ s < n
    <3>1. here[d] \in Int /\ way[d] \in Int /\ there[d] \in Int /\ there[d] = here[d] + way[d]
      BY <1>4, <1>5, <1>6 DEF Vec
    <3>2. nodesOf[d] \in Nat \ {0} /\ along(d, slid) \in Int
      BY <1>2, <1>3 DEF along
    <3>3. /\ cartCoordinates(r)[d] \in Int /\ 0 <= cartCoordinates(r)[d]
          /\ cartCoordinates(r)[d] < nodesOf[d]
      BY <1>3 DEF InGrid, Vec
    <3> QED BY ONLY <3>1, <3>2, <3>3, Zenon
  <2>2. PICK u \in Int : u = (-w) - a
    <3>1. (-w) - a \in Int
      OBVIOUS
    <3> QED BY ONLY <3>1, Zenon
  <2>3. home(back, slid)[d] = ((t % n) - w - a) % n
    BY <1>13, <2>1 DEF home
  <2>4. t % n \in Int
    OBVIOUS
  <2>5. (t % n) - w - a = (t % n) + u
    BY <2>2, <2>4
  <2>6. ((t % n) + u) % n = (t + u) % n
    BY ModPlus
  <2>7. t + u = x - a
    BY <2>1, <2>2
  <2>8. (x - a) % n = home(here, slid)[d]
    BY <2>1 DEF home
  <2>9. home(here, slid)[d] = s % n
    BY <1>1, <1>3, <2>1, AwayHome
  <2>10. s % n = s
    BY <2>1, ModSmall
  <2> QED BY <2>1, <2>3, <2>5, <2>6, <2>7, <2>8, <2>9, <2>10
<1>18. home(back, slid) = cartCoordinates(r)
  <2>1. home(back, slid) \in Vec(GridDims)
    BY <1>1, <1>3, <1>13, Placed DEF InGrid
  <2> QED BY <1>2, <1>3, <1>17, <2>1, VecEqual
<1>19. rankAt(back, slid) = r
  BY <1>1, <1>16, <1>18, PlaceOfRank
<1> QED BY <1>4, <1>9, <1>12, <1>15, <1>19 DEF other, back, mirror

\* Neighbours know each other.
LEMMA Mutual == TInv => NeighboursMutual
<1> SUFFICES ASSUME TInv, NEW r \in Members, NEW ex \in ExchangeTypes(GridDims)
             PROVE  LET n     == nodesOf
                        there == plus(node[r].coordinates, getRelativeDirections(GridDims, ex))
                        other == node[r].ranks[ex]
                    IN  IF ex \in node[r].communicationMask
                        THEN /\ other \in Members
                             /\ node[other].coordinates = [d \in dims(n) |-> there[d] % n[d]]
                             /\ getMirroredExchangeType(ex) \in node[other].communicationMask
                             /\ node[other].ranks[getMirroredExchangeType(ex)] = r
                        ELSE \E d \in dims(n) : gpuNodes.periodic[d] = 0 /\ there[d] \notin 0 .. n[d] - 1
  BY DEF NeighboursMutual, nodesOf, GridDims
<1> DEFINE there == plus(node[r].coordinates, getRelativeDirections(GridDims, ex))
<1>1. gpuNodes \in Grids
  BY DEF TInv
<1>2. /\ GridDims \in Dim /\ GridDims \in Nat /\ dims(nodesOf) = 1 .. GridDims
      /\ \A d \in 1 .. GridDims : nodesOf[d] \in Nat \ {0}
  BY <1>1, GridIs
<1>3. /\ ex \in node[r].communicationMask <=> ~outside(there)
      /\ ~outside(there) => node[r].ranks[ex] = rankAt(there, slid)
  BY NodeIs
<1>4. CASE ~outside(there)
  <2> DEFINE other  == rankAt(there, slid)
             mirror == getMirroredExchangeType(ex)
             back   == plus(node[other].coordinates, getRelativeDirections(GridDims, mirror))
  <2> HIDE DEF there
  <2>1. /\ other \in Members /\ mirror \in ExchangeTypes(GridDims)
        /\ node[other].coordinates = [d \in 1 .. GridDims |-> there[d] % nodesOf[d]]
        /\ ~outside(back) /\ rankAt(back, slid) = r
    BY <1>4, Beside DEF there
  <2> HIDE DEF other, mirror
  <2>2. mirror \in node[other].communicationMask /\ node[other].ranks[mirror] = r
    BY <2>1, NodeIs
  <2>3. node[r].ranks[ex] = other
    BY <1>3, <1>4 DEF other
  <2> QED BY <1>2, <1>3, <1>4, <2>1, <2>2, <2>3 DEF mirror, there
<1>5. CASE outside(there)
  <2>1. there \in Vec(GridDims)
    <3>1. node[r].coordinates \in Vec(GridDims)
      BY NodeIs DEF InGrid
    <3>2. getRelativeDirections(GridDims, ex) \in Vec(GridDims)
      BY <1>2, DirectionsAre
    <3> QED BY <1>2, <3>1, <3>2, PlusVec
  <2>2. dims(there) = 1 .. GridDims
    BY <1>2, <2>1, VecDims
  <2> HIDE DEF there
  <2>3. PICK d \in 1 .. GridDims : gpuNodes.periodic[d] = 0 /\ (there[d] < 0 \/ there[d] >= nodesOf[d])
    BY <1>5, <2>2 DEF outside, nodesOf
  <2>4. PICK n \in Nat, x \in Int : n = nodesOf[d] /\ x = there[d]
    BY <1>2, <2>1 DEF Vec
  <2>5. there[d] \notin 0 .. nodesOf[d] - 1
    BY <2>3, <2>4
  <2> QED BY <1>2, <1>3, <1>5, <2>3, <2>5 DEF there
<1> QED BY <1>4, <1>5

\* CommunicatorMPI::updateCoordinates gives every place of the grid to one rank and pairs the
\* neighbours of all directions, for every grid of ranks, periodic or not, after any number of
\* slides and restarts: TopologyAgrees, and with it what FieldExchange assumes of its neighbours.
THEOREM RanksAgreeOnTopology == TopologySpec => []TopologyAgrees
<1>1. TInv => TopologyAgrees
  BY Places, Mutual DEF TopologyAgrees
<1> QED BY <1>1, TopologyInvariance, PTL
=============================================================================
