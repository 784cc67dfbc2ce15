------------------------- MODULE MCDeviceSubmission -------------------------
(* Submissions, buffers and a kernel's block, one at a time, for TLC: two  *)
(* graphs of the application, and one that the receiver of g1 starts.      *)
EXTENDS DeviceSubmission, Buffers

CONSTANTS g1, g2, g3

VARIABLE subject  \* which of them this behaviour is about

fork == sequence(single, whenAll(single, single))
join == sequence(whenAll(single, single), single)

\* Three nodes, the third after the second: a lone stage, and two on different lanes.
wedge == graph(<<single, single, single>>, {<<2, 3>>})

\* Two nodes on different lanes, the second after the first.
chain == graph(<<single, single>>, {<<1, 2>>})

\* Two stages on the caller's queue, which share a fence.
handed == sequence(submit(MaxQueues), submit(MaxQueues))

\* Two graphs that use both queues or the caller's, and one that shifts the base of the lanes.
MCSendersOf == (g1 :> {fork, single}) @@ (g2 :> {chain, handed}) @@ (g3 :> {single})

\* For safety alone: every shape of three stages.
MCSendersOfWide ==
    (g1 :> {fork, join, wedge}) @@ (g2 :> {whenAll(single, sequence(single, single))})
    @@ (g3 :> {single})

MCParent == (g1 :> None) @@ (g2 :> None) @@ (g3 :> g1)

tile(o, s, e) == [origin |-> o, size |-> s, end |-> e]

lined(n) == tile(<<0>>, <<n>>, <<0>>)

started(own, asked, t, simd, counts) ==
    [own |-> own, asked |-> asked, grid |-> <<2, 3>>, simd |-> simd, tile |-> t, counts |-> counts]

\* Domains smaller than, as large as and larger than what the workers take in one go; tiles
\* with guards on one side; a block larger than the backend's.
MCLaunches ==
    {started(<<>>, <<k>>, lined(n), s, FALSE) : k \in 1 .. 4, n \in 1 .. 9, s \in 1 .. 3}
        \cup {started(<<2, 2>>, <<>>, lined(n), s, TRUE) : n \in 1 .. 5, s \in {1, 2}}
        \cup {started(<<2, 2>>, <<>>, t, 1, FALSE) :
                 t \in {tile(<<1, 0>>, <<2, 2>>, <<1, 1>>), tile(<<1, 1, 0>>, <<2, 1, 2>>, <<0, 1, 1>>)}}

part(e, w, h, d, k, s) ==
    [extent |-> e, whole |-> w, atHost |-> h, atDevice |-> d, kind |-> k, sizeOnDevice |-> s]

\* Every constructor, in one to three dimensions, at the origin and inside the other buffer.
MCShapes ==
    {part(<<3>>, <<5>>, <<1>>, <<2>>, k, TRUE) : k \in {"owned", "deviceView", "views"}}
        \cup {part(<<2, 2>>, <<3, 3>>, h, <<1, 1>>, k, FALSE) : h \in {<<0, 0>>, <<1, 0>>}, k \in {"deviceView", "views"}}
        \cup {part(<<3, 2>>, <<3, 2>>, <<0, 0>>, <<0, 0>>, "owned", FALSE)}
        \cup {part(<<2, 2, 2>>, <<2, 3, 2>>, <<0, 1, 0>>, <<0, 0, 0>>, "views", FALSE)}

\* Nothing, less than a row, a row and a part, everything.
MCSizesOf(extent) == IF Len(extent) = 1 THEN {0, 1, 3} ELSE {1, 3, productOfComponents(extent)}

LaunchAtRest == launch = started(<<>>, <<1>>, lined(1), 1, FALSE)

BuffersAtRest == shape = part(<<3>>, <<5>>, <<1>>, <<2>>, "owned", TRUE)

MCInit ==
    /\ subject \in {"submissions", "buffers", "block"}
    /\ Init /\ (subject # "submissions" => pool = "shared")
    /\ LockstepInit /\ (subject # "block" => LaunchAtRest)
    /\ BufferInit /\ (subject # "buffers" => BuffersAtRest)

\* Bound: the caller's queue is used beside a graph of one stage, on one of the two pools; it
\* has nothing to do with either.
HandedBound ==
    phase'[g1] # "new" /\ phase'[g2] # "new"
        => IF sender'[g1] = single THEN explicit(sender'[g2]) /\ pool = "shared" ELSE ~explicit(sender'[g2])

MCNext ==
    \/ subject = "submissions" /\ Next /\ HandedBound /\ UNCHANGED <<subject, bufferVars, lockstepVars>>
    \/ subject = "buffers" /\ BufferNext /\ UNCHANGED <<subject, vars, lockstepVars>>
    \/ subject = "block" /\ LockstepNext /\ UNCHANGED <<subject, vars, bufferVars>>

\* Behaviours of submissions are fair; the others do not count for what must complete.
MCSpec == MCInit /\ [][MCNext]_<<subject, vars, bufferVars, lockstepVars>> /\ Fairness

\* Copies, fills, views and sizes of buffers (BuffersExact), and the indices, variables and
\* shared memory of a kernel's block (LockstepExact), where the behaviour is about them.
DeviceMemoryExact ==
    /\ subject = "buffers" => BuffersExact
    /\ subject = "block" => LockstepExact
=============================================================================
