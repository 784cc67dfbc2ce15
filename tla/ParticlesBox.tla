---------------------------- MODULE ParticlesBox ----------------------------
(***************************************************************************)
(* The frame lists of a particle species                                   *)
(* (particles/memory/boxes/ParticlesBox.hpp, dataTypes/SuperCell.hpp) and  *)
(* the kernels that keep them packed (particles/ParticlesBase.kernel).     *)
(*                                                                         *)
(* A box is a record: heap, the set of allocated frames; slot, the         *)
(* particle and multiMask of every slot of a frame; next and prev, the     *)
(* list pointers of a frame; first, last, num and mustShift of a           *)
(* supercell.  A multiMask of 0 is a gap; 1 a particle that stays; ex + 1  *)
(* one that leaves in direction ex.                                        *)
(***************************************************************************)
EXTENDS Integers, Sequences, FiniteSets, FiniteSetsExt

CONSTANTS
    Cells,      \* supercells
    Frames,     \* addresses on the device heap: 1 .. n
    FrameSize   \* slots of a frame

ASSUME BoxConstants == Frames \subseteq Nat \ {0} /\ FrameSize \in Nat \ {0}

NullFrame == 0

Slots == 0 .. FrameSize - 1

Gap == [who |-> <<>>, mask |-> 0]

Particle(who, mask) == [who |-> who, mask |-> mask]

EmptyFrame == [i \in Slots |-> Gap]

\* deselect<multiMask>: every attribute but the mask.
deselected == {"who"}

\* Assignment through a particle's handle: the source has every attribute of the target.
assign(dest, src, attributes) == [a \in DOMAIN dest |-> IF a \in attributes THEN src[a] ELSE dest[a]]

-----------------------------------------------------------------------------
(* Allocation and lists.                                                   *)

\* getEmptyFrame: any free address; the frame's masks are zeroed.  Tries that fail change nothing,
\* and after the last of them the kernel is aborted: the heap is large enough for those modelled.
getEmptyFrame(b) == CHOOSE f \in Frames \ b.heap : \A g \in Frames \ b.heap : f <= g

allocate(b, f) == [b EXCEPT !.heap = @ \cup {f}, !.slot[f] = EmptyFrame]

\* removeFrame.
free(b, f) == [b EXCEPT !.heap = @ \ {f}, !.slot[f] = EmptyFrame, !.next[f] = NullFrame, !.prev[f] = NullFrame]

\* setAsLastFrame up to and with the atomic exchange of the supercell's last frame.
exchangeLast(b, f, c) == [b EXCEPT !.next[f] = NullFrame, !.prev[f] = b.last[c], !.last[c] = f]

\* The rest of setAsLastFrame: the predecessor, or the supercell, points to the frame.
linkLast(b, f, c) ==
    IF b.prev[f] = NullFrame THEN [b EXCEPT !.first[c] = f] ELSE [b EXCEPT !.next[b.prev[f]] = f]

setAsLastFrame(b, f, c) == linkLast(exchangeLast(b, f, c), f, c)

\* removeLastFrame; nothing if there is none.
removeLastFrame(b, c) ==
    LET last == b.last[c]
        prev == b.prev[last]
    IN  IF last = NullFrame THEN b
        ELSE IF prev # NullFrame
        THEN free([b EXCEPT !.next[prev] = NullFrame, !.last[c] = prev], last)
        ELSE free([b EXCEPT !.first[c] = NullFrame, !.last[c] = NullFrame], last)

\* The list of supercell c from its first frame on, at most all frames long.
listOf(b, c) ==
    LET from[n \in 0 .. Cardinality(Frames), f \in Frames \cup {NullFrame}] ==
            IF f = NullFrame \/ n = 0 THEN <<>> ELSE <<f>> \o from[n - 1, b.next[f]]
    IN  from[Cardinality(Frames), b.first[c]]

\* KernelDeleteParticles of the supercells C.
deleteParticles(b, C) ==
    LET gone == {f \in b.heap : \E c \in C : \E i \in DOMAIN listOf(b, c) : listOf(b, c)[i] = f}
        frames(f, g) == [h \in Frames |-> IF h \in gone THEN g ELSE f[h]]
        cells(f, v) == [c \in Cells |-> IF c \in C THEN v ELSE f[c]]
    IN  [b EXCEPT !.heap = @ \ gone, !.slot = frames(@, EmptyFrame), !.next = frames(@, NullFrame),
                  !.prev = frames(@, NullFrame), !.first = cells(@, NullFrame),
                  !.last = cells(@, NullFrame), !.num = cells(@, 0)]

getSizeLastFrame(b, c) == IF b.num[c] = 0 THEN 0 ELSE ((b.num[c] - 1) % FrameSize) + 1

addParticles(b, c, n) == [b EXCEPT !.num[c] = @ + n]

-----------------------------------------------------------------------------
(* The lanes of a block take the slots of a frame in slot order.  Which    *)
(* lane is first decides which of several particles with the same mask     *)
(* takes which of several gaps: nothing later tells them apart.            *)

Lanes(S) == SelectSeq([i \in 1 .. FrameSize |-> i - 1], LAMBDA i : i \in S)

withMask(b, f, masks) == {i \in Slots : b.slot[f][i].mask \in masks}

live(b, f) == {i \in Slots : b.slot[f][i].mask # 0}

\* Mutant: the copy takes the mask along.
move_KeepMask(b, f, from, g, to, n) ==
    LET target(i) == CHOOSE k \in 1 .. n : to[k] = i
        filled == [b EXCEPT !.slot[g] = [i \in Slots |->
                     IF \E k \in 1 .. n : to[k] = i THEN b.slot[f][from[target(i)]] ELSE b.slot[g][i]]]
    IN  [filled EXCEPT !.slot[f] = [i \in Slots |->
           IF \E k \in 1 .. n : from[k] = i THEN Gap ELSE filled.slot[f][i]]]

\* n lanes move the particles of `from' in frame f to the slots `to' of frame g, mask 1.
move(b, f, from, g, to, n) ==
    LET target(i) == CHOOSE k \in 1 .. n : to[k] = i
        filled == [b EXCEPT !.slot[g] = [i \in Slots |->
                     IF \E k \in 1 .. n : to[k] = i
                     THEN assign(Particle(<<>>, 1), b.slot[f][from[target(i)]], deselected) ELSE b.slot[g][i]]]
    IN  [filled EXCEPT !.slot[f] = [i \in Slots |->
           IF \E k \in 1 .. n : from[k] = i THEN Gap ELSE filled.slot[f][i]]]

-----------------------------------------------------------------------------
(* Boxes to start from: one particle <<c, i>> for each of the given masks. *)

EmptyBox ==
    [heap |-> {}, slot |-> [f \in Frames |-> EmptyFrame],
     next |-> [f \in Frames |-> NullFrame], prev |-> [f \in Frames |-> NullFrame],
     first |-> [c \in Cells |-> NullFrame], last |-> [c \in Cells |-> NullFrame],
     num |-> [c \in Cells |-> 0], mustShift |-> [c \in Cells |-> FALSE]]

framesFor(n) == (n + FrameSize - 1) \div FrameSize

\* Append a packed list with these masks to an empty supercell.
putMasks(b, c, masks) ==
    LET upTo[k \in 0 .. framesFor(Len(masks))] ==
            IF k = 0 THEN b
            ELSE LET f == getEmptyFrame(upTo[k - 1])
                     new == setAsLastFrame(allocate(upTo[k - 1], f), f, c)
                     at(i) == (k - 1) * FrameSize + i + 1
                 IN  [new EXCEPT !.slot[f] = [i \in Slots |->
                        IF at(i) <= Len(masks) THEN Particle(<<c, at(i)>>, masks[at(i)]) ELSE Gap]]
    IN  [upTo[framesFor(Len(masks))] EXCEPT
            !.num[c] = Len(masks), !.mustShift[c] = \E i \in DOMAIN masks : masks[i] > 1]

boxOf(filling) ==
    FoldSet(LAMBDA c, b : putMasks(b, c, filling[c]), EmptyBox, {c \in Cells : filling[c] # <<>>})

-----------------------------------------------------------------------------
(* KernelFillGaps of one supercell, c: `fill' is its shared memory, with   *)
(* the two frame pointers and the count of particles in full frames.       *)

fillStart(b, c) == [first |-> b.first[c], last |-> b.last[c], full |-> 0]

fillLoops(fill) == fill.first # NullFrame /\ fill.first # fill.last

\* Gaps of the first frame and particles of the last, in lane order.
fillGapsOf(b, fill) == Lanes(withMask(b, fill.first, {0}))

fillParticlesOf(b, fill) == Lanes(withMask(b, fill.last, {1}))

least(i, j) == IF i < j THEN i ELSE j

\* The first frame is full: count it and go on with the next.
fillAdvance(b, fill) == [fill EXCEPT !.full = @ + FrameSize, !.first = b.next[fill.first]]

\* Mutant: the last frame is not given back when the gaps are not all filled.
fillRound_Stay(b, c, fill) ==
    LET gaps  == fillGapsOf(b, fill)
        parts == fillParticlesOf(b, fill)
        moved == move(b, fill.last, parts, fill.first, gaps, least(Len(gaps), Len(parts)))
    IN  IF Len(gaps) = 0 \/ Len(gaps) < Len(parts)
        THEN [box |-> moved, fill |-> fillAdvance(moved, fill)]
        ELSE [box |-> moved, fill |-> fill]

\* One round of the loop: the frames after it, and the shared memory.
fillRound(b, c, fill) ==
    LET gaps  == fillGapsOf(b, fill)
        parts == fillParticlesOf(b, fill)
        moved == move(b, fill.last, parts, fill.first, gaps, least(Len(gaps), Len(parts)))
        prev  == moved.prev[fill.last]
        back  == [fill EXCEPT !.last = prev]
    IN  IF gaps = <<>> THEN [box |-> b, fill |-> fillAdvance(b, fill)]
        ELSE IF Len(gaps) < Len(parts) THEN [box |-> moved, fill |-> fillAdvance(moved, fill)]
        ELSE LET rest == removeLastFrame(moved, c) IN
             IF Len(gaps) > Len(parts) \/ prev = NullFrame \/ prev = fill.first
             THEN [box |-> rest, fill |-> back]
             ELSE [box |-> rest, fill |-> fillAdvance(rest, back)]

\* setNumParticles, then KernelFillGapsLastFrame.
fillLast(b, c, fill) ==
    LET last  == b.last[c]
        n     == Cardinality(live(b, last))
        gaps  == Lanes({i \in Slots : i < n} \ live(b, last))
        parts == Lanes({i \in live(b, last) : i >= n})
        set   == [b EXCEPT !.num[c] = fill.full]
    IN  IF last = NullFrame THEN set
        ELSE IF n = 0 THEN removeLastFrame(set, c)
        ELSE addParticles(move(set, last, parts, last, gaps, Len(parts)), c, n)

-----------------------------------------------------------------------------
(* What a box must satisfy between kernels.                                *)

\* l is the list of c, doubly linked and complete from both ends.
linked(b, c, l) ==
    /\ b.last[c] = IF l = <<>> THEN NullFrame ELSE l[Len(l)]
    /\ \A i \in DOMAIN l :
          /\ b.prev[l[i]] = IF i = 1 THEN NullFrame ELSE l[i - 1]
          /\ b.next[l[i]] = IF i = Len(l) THEN NullFrame ELSE l[i + 1]

\* No frame is leaked, freed while in use, or in two lists.
wellFormed(b) ==
    LET list == [c \in Cells |-> listOf(b, c)]
        At   == UNION {{<<c, i>> : i \in DOMAIN list[c]} : c \in Cells}
    IN  /\ \A c \in Cells : linked(b, c, list[c])
        /\ b.heap = {list[a[1]][a[2]] : a \in At} /\ Cardinality(b.heap) = Cardinality(At)

\* All frames but the last are full, the last is a prefix that is not empty, and the
\* supercell counts its particles.
packed(b, c) ==
    LET l == listOf(b, c)
        n == IF l = <<>> THEN 0 ELSE Cardinality(live(b, l[Len(l)]))
    IN  /\ \A i \in DOMAIN l : i < Len(l) => live(b, l[i]) = Slots
        /\ l # <<>> => n > 0 /\ live(b, l[Len(l)]) = 0 .. n - 1
        /\ b.num[c] = (IF l = <<>> THEN 0 ELSE (Len(l) - 1) * FrameSize + n)

\* The places of the particles in the list of supercell c.
places(b, c) ==
    LET l == listOf(b, c) IN UNION {{<<l[k], i>> : i \in live(b, l[k])} : k \in DOMAIN l}

content(b, c) == {b.slot[a[1]][a[2]].who : a \in places(b, c)}
=============================================================================
