------------------------- MODULE MCParticleExchange -------------------------
(* The particles of a rank and the field of two, one at a time, for TLC.   *)
(* Two supercells in each direction; the right and the lower right guard   *)
(* are sent, one of the others has a particle to delete.                   *)
EXTENDS ParticleExchange, FieldExchange

MCDesc == [grid |-> <<4, 4>>, guard |-> <<1, 1>>]

MCCells == Blocks(MCDesc.grid)

MCReceiveMask == {LEFT, LEFT + TOP}

\* Particles in the guard supercells (3,1), (3,2), (3,3) and the border supercell (1,1).  With room
\* for two, the right guard sends nothing, a full chunk and an empty one, or a full and a partial one.
MCFillings ==
    {[c \in MCCells |-> CASE c = <<3, 1>> -> n[1] [] c = <<3, 2>> -> n[2] [] c = <<3, 3>> -> n[3]
                          [] c = <<1, 1>> -> n[4] [] c = <<1, 0>> -> 1 [] OTHER -> 0] :
        n \in {<<0, 0, 0, 1>>, <<2, 0, 0, 0>>, <<1, 2, 0, 0>>, <<3, 0, 1, 1>>}}

MCPool == [ex \in {RIGHT, RIGHT + BOTTOM} |-> IF ex = RIGHT THEN 7 .. 9 ELSE 10 .. 11]

\* The index is buffered, or neither, or both kinds.
MCBuffering == {{}, {"index"}, {"frames", "index"}}

\* One rank that is its own neighbour, two ranks in a row, a ring of two.
own  == 0 :> (LEFT :> 0 @@ RIGHT :> 0)

row  == 0 :> (RIGHT :> 1) @@ 1 :> (LEFT :> 0)

ring == 0 :> (LEFT :> 1 @@ RIGHT :> 1) @@ 1 :> (LEFT :> 0 @@ RIGHT :> 0)

how(additive, mpiDirect, doubleBuffer, chained) ==
    [additive |-> additive, mpiDirect |-> mpiDirect, doubleBuffer |-> doubleBuffer, chained |-> chained]

MCSetups ==
         ({own, row} \X {how(FALSE, FALSE, TRUE, TRUE), how(FALSE, TRUE, FALSE, TRUE), how(TRUE, FALSE, TRUE, TRUE),
                         how(TRUE, TRUE, FALSE, TRUE), how(FALSE, FALSE, FALSE, FALSE)})
    \cup ({ring} \X {how(FALSE, TRUE, TRUE, TRUE), how(TRUE, FALSE, TRUE, TRUE)})

\* Calls that succeed, with another tag, for an exchange that is there, with a used tag.
MCCalls ==
    {<<"field", {LEFT, RIGHT}, 1>>, <<"field", {RIGHT}, 1>>, <<"field", {LEFT}, 2>>,
     <<"other", {LEFT, RIGHT}, 1>>, <<"other", {LEFT, RIGHT}, 3>>}

\* The communication of the particles is over, there were none.
ParticlesAtRest ==
    /\ max = 0 /\ buffered = {} /\ box = EmptyBox /\ origin = [x \in {} |-> x]
    /\ stack = [x \in {} |-> x] /\ msgs = stack /\ receiver = stack /\ insert = {}
    /\ copier = [c \in AllGuard |-> blockOf(EmptyBox, c)]
    /\ sender = [ex \in Directions |-> [pc |-> "done", size |-> 0, pending |-> {}]]
    /\ fill = [left |-> {}, pc |-> "wait", shared |-> [first |-> 0, last |-> 0, full |-> 0]]

\* A constructor of the field has thrown.
FieldAtRest == FieldIdle /\ phase = "thrown" /\ link = own /\ mode = how(FALSE, FALSE, FALSE, FALSE)

MCInit == (Init /\ FieldAtRest) \/ (FieldInit /\ ParticlesAtRest)

MCNext == (Next /\ UNCHANGED exchanges) \/ (FieldNext /\ UNCHANGED vars)

\* The fairness of both: only one of the two ever has something to do.
MCSpec ==
    /\ MCInit /\ [][MCNext]_<<vars, exchanges>>
    /\ WF_<<vars, exchanges>>((Next /\ UNCHANGED exchanges) \/ (fieldProgress /\ UNCHANGED vars))

\* Every communication ends, of particles and of a field: no rank waits for a message or for
\* a chunk that is never sent, even if MPI moves a field's message only when its receive is
\* posted.
CommunicationsEnd == []<>(phase = "construct" \/ (Done /\ FieldDone))
=============================================================================
