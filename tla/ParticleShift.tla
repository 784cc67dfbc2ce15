---------------------------- MODULE ParticleShift ---------------------------
(***************************************************************************)
(* ParticlesBase::shiftParticles: KernelShiftParticles over the CORE and   *)
(* BORDER, one launch per offset of a stride mapper                        *)
(* (particles/ParticlesBase.hpp, ParticlesBase.kernel,                     *)
(* particles/algorithm/ForEach.hpp).                                       *)
(*                                                                         *)
(* The blocks of a launch run concurrently.  A block takes one step per    *)
(* access to the lists it shares with its neighbours: it loads their last  *)
(* frames, delivers what leaves one own frame in one direction, adds to    *)
(* their counters, and packs its own list.                                 *)
(***************************************************************************)
EXTENDS ParticlesBox, Mappings

CONSTANTS
    Desc,      \* the mapping description
    Fillings   \* initial contents: the masks in each supercell's list

ASSUME ShiftConstants == Cells = Blocks(Desc.grid)

VARIABLES
    box,       \* the particle box
    only,      \* onlyProcessMustShiftSupercells
    offset,    \* the mapper's offset; <<>> after the last launch
    block,     \* the blocks of the launch, by supercell
    origin     \* history: the supercell each particle must end in

vars == <<box, only, offset, block, origin>>

Directions == ExchangeTypes(Len(Desc.grid))

\* Mutant: supercells that share a neighbour run in one launch.
Stride_Two == 2

\* The stride of shiftParticles.
Stride == 3

neighbour(c, ex) == plus(c, getRelativeDirections(Len(c), ex))

isValidSupercellIdx(c) == \A d \in dims(c) : 0 <= c[d] /\ c[d] < Desc.grid[d]

-----------------------------------------------------------------------------
(* Launches.                                                               *)

Extent == areaGridDim(CORE_BORDER, Desc)

idle == [pc |-> "start", frame |-> NullFrame, low |-> [ex \in Directions |-> NullFrame],
         count |-> [ex \in Directions |-> 0], new |-> [ex \in Directions |-> 0],
         fill |-> [first |-> NullFrame, last |-> NullFrame, full |-> 0]]

blocksAt(o) == [c \in StrideCells(Desc.guard, Extent, Stride, o) |-> idle]

Init ==
    /\ \E filling \in Fillings :
          /\ box = boxOf(filling)
          /\ origin = [p \in UNION {{<<c, i>> : i \in DOMAIN filling[c]} : c \in Cells} |->
                         LET mask == filling[p[1]][p[2]]
                         IN  IF mask = 1 THEN p[1] ELSE neighbour(p[1], mask - 1)]
    /\ only \in BOOLEAN
    /\ offset = same(Desc.grid, 0)
    /\ block = blocksAt(offset)

\* mapper.next() and the next launch; the queue starts it when the last one is done.
NextLaunch ==
    /\ offset # <<>> /\ \A c \in DOMAIN block : block[c].pc = "done"
    /\ offset' = next(Extent, Stride, offset)
    /\ block' = IF offset' = <<>> THEN <<>> ELSE blocksAt(offset')
    /\ UNCHANGED <<box, only, origin>>

-----------------------------------------------------------------------------
(* KernelShiftParticles of supercell c.                                    *)

\* The neighbour's last frame is used if it is there and not full.
loads(c, ex) ==
    LET n == neighbour(c, ex) IN
    /\ isValidSupercellIdx(n) /\ box.last[n] # NullFrame /\ getSizeLastFrame(box, n) < FrameSize

\* The master clears mustShift; a block without work returns, the others load the
\* last frames of their neighbours.
Load(c) ==
    /\ block[c].pc = "start"
    /\ LET processed == ~only \/ box.mustShift[c]
           size(ex)  == IF loads(c, ex) THEN getSizeLastFrame(box, neighbour(c, ex)) ELSE 0
       IN  /\ box' = [box EXCEPT !.mustShift[c] = @ /\ ~processed]
           /\ block' = [block EXCEPT ![c] =
                IF ~processed \/ box.num[c] = 0 THEN [@ EXCEPT !.pc = "done"]
                ELSE [@ EXCEPT !.pc = "frame", !.frame = box.first[c],
                        !.low = [ex \in Directions |->
                                   IF loads(c, ex) THEN box.last[neighbour(c, ex)] ELSE NullFrame],
                        !.count = [ex \in Directions |-> size(ex)],
                        !.new = [ex \in Directions |-> -size(ex)]]]
    /\ UNCHANGED <<only, offset, origin>>

\* The low frame is full: the high frame takes its place.
rotates(count) == count >= FrameSize

\* The particles of the block's frame that leave in direction ex: reserve their places
\* after the neighbour's, make the low and the high frame if they are needed, copy, and
\* rotate the frames.  A direction no particle of the frame leaves in changes nothing.
Deliver(c, ex) ==
    LET k      == block[c]
        n      == neighbour(c, ex)
        lanes  == Lanes(withMask(box, k.frame, {ex + 1}))
        count  == k.count[ex] + Len(lanes)
        newLow == k.low[ex] = NullFrame
        low    == IF newLow THEN getEmptyFrame(box) ELSE k.low[ex]
        b1     == IF newLow THEN setAsLastFrame(allocate(box, low), low, n) ELSE box
        more   == count > FrameSize
        high   == IF more THEN getEmptyFrame(b1) ELSE NullFrame
        b2     == IF more THEN setAsLastFrame(allocate(b1, high), high, n) ELSE b1
        fits   == least(Len(lanes), FrameSize - k.count[ex])
        rest   == SubSeq(lanes, fits + 1, Len(lanes))
        b3     == move(b2, k.frame, lanes, low, [i \in 1 .. fits |-> k.count[ex] + i - 1], fits)
    IN  /\ k.pc = "frame" /\ lanes # <<>> /\ isValidSupercellIdx(n)
        /\ box' = IF rest = <<>> THEN b3
                  ELSE move(b3, k.frame, rest, high, [i \in 1 .. Len(rest) |-> i - 1], Len(rest))
        /\ block' = [block EXCEPT ![c] =
                       IF rotates(count)
                       THEN [k EXCEPT !.count[ex] = count - FrameSize, !.low[ex] = high,
                                      !.new[ex] = @ + FrameSize]
                       ELSE [k EXCEPT !.count[ex] = count, !.low[ex] = low]]
        /\ UNCHANGED <<only, offset, origin>>

\* Go on with the block's next frame.
NextFrame(c) ==
    LET k == block[c] more == box.next[k.frame] IN
    /\ k.pc = "frame" /\ \A i \in Slots : box.slot[k.frame][i].mask < 2
    /\ block' = [block EXCEPT ![c].frame = more, ![c].pc = IF more = NullFrame THEN "publish" ELSE "frame"]
    /\ UNCHANGED <<box, only, offset, origin>>

\* Particles a block has added to its neighbour in direction ex.
arrived(k, ex) == k.new[ex] + k.count[ex]

\* The neighbours' counters, then the start of KernelFillGaps.
Publish(c) ==
    /\ block[c].pc = "publish"
    /\ LET k == block[c]
           Grown == {ex \in Directions : arrived(k, ex) > 0 /\ isValidSupercellIdx(neighbour(c, ex))}
           added(n) == {ex \in Grown : neighbour(c, ex) = n}
       IN  box' = [box EXCEPT !.num = [n \in Cells |->
                     IF added(n) = {} THEN @[n] ELSE @[n] + arrived(k, CHOOSE ex \in added(n) : TRUE)]]
    /\ block' = [block EXCEPT ![c].pc = "fill", ![c].fill = fillStart(box, c)]
    /\ UNCHANGED <<only, offset, origin>>

\* KernelFillGaps: one turn of its loop, or what follows it.
FillGaps(c) ==
    /\ block[c].pc = "fill"
    /\ IF fillLoops(block[c].fill)
       THEN LET s == fillRound(box, c, block[c].fill)
            IN  box' = s.box /\ block' = [block EXCEPT ![c].fill = s.fill]
       ELSE /\ box' = fillLast(box, c, block[c].fill)
            /\ block' = [block EXCEPT ![c].pc = "done"]
    /\ UNCHANGED <<only, offset, origin>>

Block(c) == Load(c) \/ (\E ex \in Directions : Deliver(c, ex)) \/ NextFrame(c) \/ Publish(c) \/ FillGaps(c)

Over == offset = <<>> /\ UNCHANGED vars

Next == NextLaunch \/ (\E c \in DOMAIN block : Block(c)) \/ Over

\* The device runs every block of a launch, and the queue the next launch.
Spec == Init /\ [][Next]_vars /\ WF_vars(Next)

-----------------------------------------------------------------------------
\* Every supercell's list is doubly linked and complete, and every allocated frame is
\* in exactly one list, whichever blocks are at work.
ListsConsistent == wellFormed(box)

\* Every particle is in exactly one slot at any time: none is lost or copied by a
\* block, by two blocks that reserve places in one frame, or by the packing.
ParticlesConserved ==
    LET Places == UNION {places(box, c) : c \in Cells} IN
    /\ {box.slot[a[1]][a[2]].who : a \in Places} = DOMAIN origin
    /\ Cardinality(Places) = Cardinality(DOMAIN origin)

\* Between launches every list is packed and every supercell counts its particles
\* exactly: getSizeLastFrame, which the next launch appends after, is right.
PackedBetweenLaunches ==
    (\A c \in DOMAIN block : block[c].pc \in {"start", "done"}) => \A c \in Cells : packed(box, c)

\* Concurrent blocks leave whole lists and every particle, packed after each launch.
BoxConsistent == ListsConsistent /\ ParticlesConserved /\ PackedBetweenLaunches

\* After the last launch every particle is in the supercell it moved to, marked as
\* staying, also when that supercell was processed before or after its own.
ParticlesArrive ==
    offset = <<>> =>
        \A c \in Cells :
            /\ content(box, c) = {p \in DOMAIN origin : origin[p] = c}
            /\ \A a \in places(box, c) : box.slot[a[1]][a[2]].mask = 1

\* The shift ends.
ShiftEnds == <>(offset = <<>>)
=============================================================================
