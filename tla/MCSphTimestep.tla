---------------------------- MODULE MCSphTimestep ----------------------------
(* The time step with the walks over its frames, the records particles are *)
(* kept in, and the forces and the setup they start from, one at a time,   *)
(* for TLC.                                                                *)
EXTENDS FrameSweep, Records, ShockTube

VARIABLE subject  \* which of them this behaviour is about

at_(x, v) == [pos |-> x, vel |-> v]

region(lo, hi, ps) == [vol |-> <<lo, hi>>, ps |-> ps]

\* Two fluid regions that approach each other next to a wall, and a tracer.
Tube == [s \in {"Default", "Boundary", "Tracer"} |->
    CASE s = "Default"  -> <<<<region(0, 3, <<at_(0, 0), at_(1, 0), at_(3, 1)>>),
                               region(7, 9, <<at_(7, -1), at_(9, 0)>>)>>>>
      [] s = "Boundary" -> <<<<region(-2, -1, <<at_(-1, 0)>>)>>>>
      [] s = "Tracer"   -> <<<<region(4, 4, <<at_(4, 1)>>)>>>>]

\* Two blocks feed the fluid; an empty region lies between two others and one block has no region.
Blocks == [s \in {"Default", "Boundary"} |->
    CASE s = "Default"  -> <<<<region(0, 1, <<at_(0, 1)>>), region(2, 2, <<>>)>>, <<>>,
                             <<region(2, 4, <<at_(2, -1), at_(2, 0), at_(4, -1), at_(4, 0), at_(3, 1)>>)>>>>
      [] s = "Boundary" -> <<<<region(5, 6, <<at_(5, 0), at_(6, 0)>>)>>>>]

\* A setup whose fluid has regions but no particles.
NoParticles == [s \in {"Default"} |-> <<<<region(0, 1, <<>>)>>>>]

MCSetups == {Tube, Blocks, NoParticles}

\* Records with a nested record, two levels of them, and one without fields.
flat   == <<>> :> <<"pos", "mass">> @@ <<"pos">> :> <<"x", "y">>

deep   == <<>> :> <<"a", "b">> @@ <<"a">> :> <<"c", "d">> @@ <<"a", "c">> :> <<"e", "f">>

hollow == <<>> :> <<"a", "n">> @@ <<"n">> :> <<>>

MCRecords == {flat, deep, hollow}

\* A frame that has the fields in another order, and one less.
reordered == <<>> :> <<"mass", "pos">> @@ <<"pos">> :> <<"y">>

\* Pairs at integer distances, one to beyond every support, on an axis and across, with equal
\* and unequal smoothing lengths.
body(x, v, m, rho, u, h) == [pos |-> x, vel |-> v, mass |-> m, density |-> rho, energy |-> u, h |-> h]

Apart == {<<<<0>>, 0>>, <<<<1>>, 1>>, <<<<-3>>, 3>>, <<<<4>>, 4>>, <<<<6>>, 6>>, <<<<0, 2>>, 2>>, <<<<3, -4>>, 5>>, <<<<0, 0>>, 0>>}

still(x) == [i \in DOMAIN x |-> 0]

MCPairs ==
    {[own |-> body(d[1], [i \in DOMAIN d[1] |-> v], m, 1, 3, h), nb |-> body(still(d[1]), still(d[1]), 2, rho, 1, g),
      r |-> d[2]] : d \in Apart, v \in {-1, 2}, m \in {1, 3}, rho \in {1, 2}, h \in {1, 2}, g \in {2}}

MCTubes == {[dim |-> 1, half |-> 16, across |-> 0, h0 |-> 1, dx |-> 1], [dim |-> 1, half |-> 8, across |-> 0, h0 |-> 2, dx |-> 2],
            [dim |-> 2, half |-> 6, across |-> 2, h0 |-> 1, dx |-> 1], [dim |-> 2, half |-> 5, across |-> 3, h0 |-> 1, dx |-> 2],
            [dim |-> 3, half |-> 3, across |-> 2, h0 |-> 1, dx |-> 1], [dim |-> 3, half |-> 2, across |-> 2, h0 |-> 1, dx |-> 1]}

MCBoxes == {aabbFromArrays(<<0>>, <<3>>), aabbFromArrays(<<-1, 0>>, <<3, 1>>), aabbFromArrays(<<0, 0>>, <<1, 3>>),
            aabbFromArrays(<<0, 1, 0>>, <<2, 2, 3>>)}

NoTube == [about |-> "nothing"]

MCInit ==
    /\ Init /\ output = NotNotified
    /\ \/ subject = "step" /\ RecordsInit /\ sample = Unasked /\ tube = NoTube
       \/ subject = "records" /\ (RecordsInit \/ QuestionsInit) /\ sample = Unasked /\ tube = NoTube
       \/ subject = "forces" /\ RecordsInit /\ sample \in Samples /\ tube = NoTube
       \/ subject = "setup" /\ RecordsInit /\ sample = Unasked /\ TubeInit

StepNext == subject = "step" /\ SweepNext /\ UNCHANGED <<subject, records, sample, tube>>

MCNext ==
    \/ StepNext
    \/ subject = "records" /\ question = NoQuestion /\ RecordsNext /\ UNCHANGED <<subject, vars, output, sample, tube>>

mcvars == <<subject, vars, output, records, sample, tube>>

\* The host waits for each sender, the device runs every block it was given.
MCSpec == MCInit /\ [][MCNext]_mcvars /\ WF_mcvars(StepNext)

\* The records and the walks over frames keep every particle's data: RecordsExact and
\* SweepsExact.
ContainersExact == (subject = "records" => RecordsExact) /\ (subject = "step" => SweepsExact)

\* A pair's forces keep momentum and energy, with kernels that are normalised and whose
\* slopes are theirs (sph/*.hpp), and the shock tube starts with its domain tiled and one
\* mass per cell (SodShockTube.hpp, SC.hpp).
PhysicsExact == (subject = "forces" => ForcesConserve) /\ (subject = "setup" => TubeExact)
==============================================================================
