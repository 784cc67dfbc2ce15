-------------------------- MODULE MCParticleShift ---------------------------
(* A row of four supercells with its guard: a shift, or a load, for TLC. *)
EXTENDS ParticleShift, ParticleLoad

MCDesc == [grid |-> <<6, 3>>, guard |-> <<1, 1>>]

MCCells == Blocks(MCDesc.grid)

upTo(n, masks) == UNION {[1 .. k -> masks] : k \in 0 .. n}

\* The masks: 1 stays, 2 right, 3 left, 8 right and up.
MCFillings ==
    {[c \in MCCells |-> CASE c = <<1, 1>> -> a [] c = <<2, 1>> -> b [] c = <<3, 1>> -> d
                          [] c = <<4, 1>> -> e [] OTHER -> <<>>] :
        a \in upTo(3, {1, 2}), b \in {<<>>, <<1>>, <<2>>, <<3>>, <<3, 2>>, <<1, 1, 3>>},
        d \in {<<>>, <<3>>, <<1, 3, 8>>},
        e \in {<<>>, <<3, 3, 2>>}}

MCSuperCellSize == <<2, 2>>

MCCellOffset == <<4, 7>>

\* All but the last two columns of cells.
MCWindow == [offset |-> <<0, 0>>, size |-> <<6, 2>>]

at(x, y) == plus(MCCellOffset, <<x, y>>)

\* Supercells that alternate within a block, that two blocks share, and a single one.
MCSources ==
    {<<at(0, 0), at(1, 1), at(0, 1), at(2, 0), at(1, 0)>>,
     <<at(0, 0), at(6, 0), at(0, 0), at(5, 1)>>,
     <<at(3, 0), at(2, 1), at(3, 1), at(3, 0), at(2, 0)>>, <<>>}

ShiftAtRest == box = EmptyBox /\ only = FALSE /\ offset = <<>> /\ block = <<>> /\ origin = <<>>

LoadAtRest ==
    /\ species = EmptyBox /\ source = <<>> /\ counter = [work |-> 0, loaded |-> 0, frames |-> 0]
    /\ split = <<>> /\ stage = "concat" /\ counted = 0 /\ dest = <<>>
    /\ packing = [cells |-> {}, fill |-> [first |-> NullFrame, last |-> NullFrame, full |-> 0]]
    /\ reading = [c \in Cells |-> NullFrame]

MCInit == (Init /\ LoadAtRest) \/ (LoadInit /\ ShiftAtRest)

MCNext == (Next /\ UNCHANGED load) \/ (LoadNext /\ UNCHANGED vars)

MCSpec == MCInit /\ [][MCNext]_<<vars, load>> /\ WF_vars(Next)

\* Every particle once: through the loader and back (LoadRoundTrip), and by every traversal of
\* a list of frames (TraversalsExact).
FramesComplete == LoadRoundTrip /\ TraversalsExact
=============================================================================
