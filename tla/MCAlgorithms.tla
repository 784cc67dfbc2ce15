---------------------------- MODULE MCAlgorithms ----------------------------
(* The plugin schedule, the mapper loop, a sender expression, MPI's operations, the grid *)
(* of ranks, the reductions and the ids of particles, one at a time, for TLC.               *)
EXTENDS MCPluginSchedule, MapperWalk, Senders, MpiOperations, Topology, Reduction, IdProvider

Square(lengths, w) == {[grid |-> g, guard |-> <<w, w>>] : g \in [1 .. 2 -> lengths]}

Cube(g) == [grid |-> g, guard |-> <<1, 1, 1>>]

\* Every 2D domain of 3 to 7 supercells a side, a guard of two, two 3D domains.
MCDescriptions == Square(3 .. 7, 1) \cup Square({5, 6, 8, 9}, 2) \cup {Cube(<<5, 5, 4>>), Cube(<<4, 5, 6>>)}

\* No plugin, the loop is over.
PluginsAtRest ==
    /\ asked = [x \in Plugins |-> <<>>] /\ list = [x \in Plugins |-> <<>>]
    /\ step = LastStep /\ calls = [x \in Plugins |-> {}] /\ failed = FALSE

\* A mapper over an empty range, its loop over.
WalkAtRest ==
    /\ m = [grid |-> <<3, 3>>, guard |-> <<1, 1>>]
    /\ mapper = [kind |-> "range", area |-> CORE_BORDER, first |-> 3, last |-> 2]
    /\ offset = <<>> /\ launch = {} /\ visits = [c \in Blocks(m.grid) |-> 0]

term(kind, args) == [kind |-> kind, args |-> args]

\* Every adaptor once: a loop over a whenAll, then a graph with an event before a transfer
\* and the event of a whenAll(span).
MCExpr ==
    [root |-> term("letValue", <<"loop", "graph">>), loop |-> term("repeat", <<"all">>),
     all |-> term("whenAll", <<"a", "b">>),
     a |-> term("then", <<"a1">>), a1 |-> term("leaf", <<>>),
     b |-> term("continuesOn", <<"b1", "b2">>), b1 |-> term("leaf", <<>>), b2 |-> term("leaf", <<>>),
     graph |-> term("graph", <<"g1", "g2", "g3">>),
     g1 |-> term("event", <<>>), g3 |-> term("event", <<>>),
     g2 |-> term("startsOn", <<"h1", "h2">>), h1 |-> term("leaf", <<>>), h2 |-> term("leaf", <<>>)]

MCAfter == [g1 |-> {}, g2 |-> {"g1"}, g3 |-> {}]

MCEventOf == [g1 |-> "s1", g3 |-> "span"]

MCJoins == <<"s1", "s2">>

\* syncWait has returned.
SendersAtRest ==
    /\ op = [n \in Nodes |-> [constructed(n, 0) EXCEPT !.alive = FALSE]]
    /\ stack = [t \in Threads \cup {Main} |-> <<>>]
    /\ queue = [t \in Threads \cup {Main} |-> <<>>]
    /\ event = [e \in Sources \cup {Joined} |-> [ready |-> TRUE, subs |-> <<>>, left |-> 0]]
    /\ work = {} /\ sync = [ready |-> TRUE, alive |-> FALSE, asleep |-> FALSE]

\* Every interval of four bytes, one empty buffer: apart, touching, nested, too long for IntMax.
MCBuffers == {b \in [at : 0 .. 3, size : 0 .. 4] : b.at + b.size <= 4 /\ (b.size = 0 => b.at = 2)}

MCCartesians == {<<>>, <<2>>, <<2, 1>>, <<1, 2>>, <<2, 2>>, <<0, 2>>, <<1>>}

\* Two ranks' segments: in order, against it, one empty, a count and an offset too large, and
\* arrays of the wrong length.
MCLayouts ==
    {<<<<2, 1>>, <<0, 2>>>>, <<<<2, 1>>, <<1, 0>>>>, <<<<0, 3>>, <<1, 0>>>>, <<<<4, 1>>, <<0, 2>>>>,
     <<<<2, 1>>, <<0, 4>>>>, <<<<2>>, <<0>>>>, <<<<2>>, <<1, 1>>>>}

\* The context has finished.
OperationsAtRest ==
    /\ communicators = <<1>> /\ existing = [n \in {1} |-> [size |-> WorldSize, rank |-> 0]]
    /\ call = Idle /\ batch = NoBatch /\ m_requests = <<>> /\ inMpi = 0 /\ life = "finished"

\* One rank, two and more along y, with every combination of periodic dimensions.
MCGrids ==
    UNION {[nodes : {n}, periodic : [DOMAIN n -> {0, 1}]] :
              n \in {<<1, 1>>, <<1, 3>>, <<2, 1>>, <<2, 2>>, <<3, 4>>, <<2, 3, 2>>}}

\* No rank.
TopologyAtRest == gpuNodes = [nodes |-> <<0, 0>>, periodic |-> <<0, 0>>] /\ node = <<>> /\ slides = 0

\* Every scratch buffer of 1 to 9 slots for 1 to 24 elements, and some longer arrays.
MCProblems ==
    [n : 1 .. 24, nBuffer : 1 .. 9, border : {2, 3, 4}] \cup [n : {36, 40}, nBuffer : {9, 10}, border : {2}]

slice(o, e) == [offset |-> o, extent |-> e]

\* Slices below each other, beside each other and against the order of the ranks.
MCPlanes ==
    {<<slice(<<0, 0>>, <<2, 1>>), slice(<<0, 1>>, <<2, 2>>)>>,
     <<slice(<<2, 0>>, <<1, 3>>), NoSlice, slice(<<0, 0>>, <<2, 3>>)>>,
     <<NoSlice, slice(<<0, 2>>, <<3, 1>>), slice(<<0, 0>>, <<3, 2>>)>>}

\* No element, no rank.
ReduceAtRest ==
    /\ problem = [n |-> 0, nBuffer |-> 1, border |-> 2] /\ scratch = [i \in {0} |-> Junk]
    /\ kernel = firstLaunch /\ running = {} /\ left = 0 /\ result = <<>>

GatherAtRest == plane = <<>> /\ comm = <<>> /\ gathered = <<>> /\ globalField = <<>>

CollectivesAtRest == ReduceAtRest /\ GatherAtRest

IdsAtRest == provider = <<>> /\ issued = <<>> /\ stored = <<>>

AlgorithmsInit ==
    \/ /\ IdsAtRest
       /\ \/ Init /\ WalkAtRest /\ SendersAtRest /\ OperationsAtRest /\ TopologyAtRest /\ CollectivesAtRest
          \/ WalkInit /\ PluginsAtRest /\ SendersAtRest /\ OperationsAtRest /\ TopologyAtRest /\ CollectivesAtRest
          \/ SendersInit /\ PluginsAtRest /\ WalkAtRest /\ OperationsAtRest /\ TopologyAtRest /\ CollectivesAtRest
          \/ OperationsInit /\ PluginsAtRest /\ WalkAtRest /\ SendersAtRest /\ TopologyAtRest /\ CollectivesAtRest
          \/ TopologyInit /\ PluginsAtRest /\ WalkAtRest /\ SendersAtRest /\ OperationsAtRest /\ CollectivesAtRest
          \/ /\ (ReduceInit /\ GatherAtRest) \/ (GatherInit /\ ReduceAtRest)
             /\ PluginsAtRest /\ WalkAtRest /\ SendersAtRest /\ OperationsAtRest /\ TopologyAtRest
    \/ /\ IdInit /\ PluginsAtRest /\ WalkAtRest /\ SendersAtRest /\ OperationsAtRest /\ TopologyAtRest
       /\ CollectivesAtRest

AlgorithmsNext ==
    \/ Next /\ UNCHANGED <<walk, senders, operations, topology, reduction, gathering, idVars>>
    \/ WalkNext /\ UNCHANGED <<vars, senders, operations, topology, reduction, gathering, idVars>>
    \/ SendersNext /\ UNCHANGED <<vars, walk, operations, topology, reduction, gathering, idVars>>
    \/ OperationsNext /\ UNCHANGED <<vars, walk, senders, topology, reduction, gathering, idVars>>
    \/ Members # {} /\ TopologyNext /\ UNCHANGED <<vars, walk, senders, operations, reduction, gathering, idVars>>
    \/ problem.n > 0 /\ ReduceNext /\ UNCHANGED <<vars, walk, senders, operations, topology, gathering, idVars>>
    \/ plane # <<>> /\ GatherNext /\ UNCHANGED <<vars, walk, senders, operations, topology, reduction, idVars>>
    \/ IdNext /\ UNCHANGED <<vars, walk, senders, operations, topology, reduction, gathering>>

AlgorithmsSpec ==
    /\ AlgorithmsInit
    /\ [][AlgorithmsNext]_<<vars, walk, senders, operations, topology, reduction, gathering, idVars>>
    /\ SendersFairness

\* What the ranks do together: every call is one MPI accepts, on memory that stays
\* (NativeCallsSound), neighbours agree on who is where (TopologyAgrees), collective
\* results hold every element once (CollectivesExact), and no rank, in this or an earlier
\* run, gives a particle an id that another has (IdsUnique).
RanksCooperate == NativeCallsSound /\ TopologyAgrees /\ CollectivesExact /\ IdsUnique
=============================================================================
