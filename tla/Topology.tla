------------------------------ MODULE Topology ------------------------------
(***************************************************************************)
(* Where every rank's domain lies and who its neighbours are, while the    *)
(* window slides along y and when a restart restores it                    *)
(* (communication/CommunicatorMPI.cpp, mappings/simulation/                *)
(* GridController.hpp, SubGrid.hpp).                                       *)
(*                                                                         *)
(* All ranks slide in the same iteration.                                  *)
(***************************************************************************)
EXTENDS Mappings

CONSTANTS
    Grids,     \* [nodes |-> ranks per dimension, periodic |-> 0 or 1 per dimension]
    LocalSize, \* cells of a local domain along y
    MaxSlides  \* bound: slides of a run

\* The code is built for two or three dimensions.
ASSUME TopologyConstants ==
    /\ \A grid \in Grids : /\ grid.nodes \in Seq(Nat \ {0}) /\ Len(grid.nodes) \in {2, 3}
                          /\ grid.periodic \in [1 .. Len(grid.nodes) -> {0, 1}]
    /\ LocalSize \in Nat

VARIABLES
    gpuNodes,  \* the grid of ranks
    node,      \* by rank: yoffset, coordinates, ranks, communicationMask, local and global offset
    slides     \* how often the window has moved

topology == <<gpuNodes, node, slides>>

\* The ranks of a grid.
Members == 0 .. productOfComponents(gpuNodes.nodes) - 1

\* Row-major, the last component varies fastest.  External: MPI_Cart_coords.
cartCoordinates(rank) ==
    LET n == gpuNodes.nodes
    IN  [d \in dims(n) |-> (rank \div productOfComponents(SubSeq(n, d + 1, Len(n)))) % n[d]]

\* What C's remainder is for a dividend that may be negative.
remainder(a, b) == IF a >= 0 THEN a % b ELSE -((-a) % b)

-----------------------------------------------------------------------------
(* CommunicatorMPI.                                                        *)

\* Where this rank is after the slides.
slidCoordinates(base, yoffset) ==
    [d \in dims(base) |->
        IF d # 2 THEN base[d]
        ELSE LET n     == gpuNodes.nodes[2]
                 moved == IF n > 1 THEN remainder(base[2] + yoffset, n) ELSE base[2]
             IN  IF moved < 0 THEN moved + n ELSE moved]

outside(c) == \E d \in dims(c) : gpuNodes.periodic[d] = 0 /\ (c[d] < 0 \/ c[d] >= gpuNodes.nodes[d])

\* Mutant: the neighbour is looked up where it has slid to.
rankAt_Slid(c, yoffset) ==
    LET n == gpuNodes.nodes
        upTo[d \in 0 .. Len(n)] == IF d = 0 THEN 0 ELSE upTo[d - 1] * n[d] + (c[d] % n[d])
    IN  upTo[Len(n)]

\* The rank that started at the place now called c.
rankAt(c, yoffset) ==
    LET n == gpuNodes.nodes
        started(d) ==
            LET moved == IF d = 2 /\ n[2] > 1 THEN remainder(c[2] - yoffset, n[2]) ELSE c[d]
                inGrid == remainder(moved, n[d])
            IN  IF inGrid < 0 THEN inGrid + n[d] ELSE inGrid
        upTo[d \in 0 .. Len(n)] == IF d = 0 THEN 0 ELSE upTo[d - 1] * n[d] + started(d)
    IN  upTo[Len(n)]

\* coordinates, ranks[] and communicationMask of a rank; ranks[ex] is -1 without a neighbour.
updateCoordinates(rank, yoffset) ==
    LET dim == Len(gpuNodes.nodes)
        at  == slidCoordinates(cartCoordinates(rank), yoffset)
        beside(ex) == plus(at, getRelativeDirections(dim, ex))
    IN  [yoffset |-> yoffset, coordinates |-> at,
         ranks |-> [ex \in ExchangeTypes(dim) |->
                      IF outside(beside(ex)) THEN -1 ELSE rankAt(beside(ex), yoffset)],
         communicationMask |-> {ex \in ExchangeTypes(dim) : ~outside(beside(ex))}]

slideOnce(yoffset) == IF yoffset - 1 = -gpuNodes.nodes[2] THEN 0 ELSE yoffset - 1

\* slide() as often as setStateAfterSlides calls it, from the 0 that init() left.
slideTimes[n \in Nat] == IF n = 0 THEN 0 ELSE slideOnce(slideTimes[n - 1])

-----------------------------------------------------------------------------
(* GridController.                                                         *)

\* updateDomainOffset: where the local domain lies in the global one, and that in the total.
withOffsets(state, globalOffset) ==
    [yoffset |-> state.yoffset, coordinates |-> state.coordinates, ranks |-> state.ranks,
     communicationMask |-> state.communicationMask,
     local |-> state.coordinates[2] * LocalSize, global |-> globalOffset]

TopologyInit ==
    /\ gpuNodes \in Grids
    /\ node = [rank \in Members |-> withOffsets(updateCoordinates(rank, 0), 0)]
    /\ slides = 0

slide ==
    /\ slides < MaxSlides
    /\ node' = [rank \in Members |->
                  withOffsets(updateCoordinates(rank, slideOnce(node[rank].yoffset)),
                              node[rank].global + LocalSize)]
    /\ slides' = slides + 1 /\ UNCHANGED gpuNodes

\* A restart: every rank is initialised and told how often the window had moved.
setStateAfterSlides ==
    /\ slides > 0
    /\ node' = [rank \in Members |->
                  withOffsets(updateCoordinates(rank, slideTimes[slides % gpuNodes.nodes[2]]),
                              slides * LocalSize)]
    /\ UNCHANGED <<gpuNodes, slides>>

TopologyNext == slide \/ setStateAfterSlides

TopologySpec == TopologyInit /\ [][TopologyNext]_topology

-----------------------------------------------------------------------------
\* Every place of the grid belongs to one rank, after any number of slides and a restart in
\* between: the rank that started s places further along y has arrived, and the domains lie
\* where the window is.
PlacesTaken ==
    LET n == gpuNodes.nodes
    IN  /\ {node[r].coordinates : r \in Members} = Blocks(n)
        /\ \A r \in Members :
              /\ node[r].coordinates =
                    [cartCoordinates(r) EXCEPT ![2] = (cartCoordinates(r)[2] - slides) % n[2]]
              /\ node[r].local = node[r].coordinates[2] * LocalSize
              /\ node[r].global = slides * LocalSize

\* A rank's neighbour in a direction is the rank whose domain lies there, across the edge
\* of a periodic dimension too, and that rank's neighbour in the mirrored direction is this
\* one: what one side sends the other expects.
NeighboursMutual ==
    LET n == gpuNodes.nodes
    IN  \A r \in Members : \A ex \in ExchangeTypes(Len(n)) :
           LET there == plus(node[r].coordinates, getRelativeDirections(Len(n), ex))
               other == node[r].ranks[ex]
           IN  IF ex \in node[r].communicationMask
               THEN /\ other \in Members
                    /\ node[other].coordinates = [d \in dims(n) |-> there[d] % n[d]]
                    /\ getMirroredExchangeType(ex) \in node[other].communicationMask
                    /\ node[other].ranks[getMirroredExchangeType(ex)] = r
               ELSE \E d \in dims(n) : gpuNodes.periodic[d] = 0 /\ there[d] \notin 0 .. n[d] - 1

\* All ranks agree on who is where.
TopologyAgrees == PlacesTaken /\ NeighboursMutual
=============================================================================
