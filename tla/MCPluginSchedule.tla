-------------------------- MODULE MCPluginSchedule --------------------------
(* Instances of PluginSchedule for TLC. *)
EXTENDS PluginSchedule

CONSTANTS p, q, Numbers

Component == {Empty, -1} \cup Numbers

\* Slices with at least one colon.
Ranges == [1 .. 2 -> Component] \cup [1 .. 3 -> Component]

\* Every range, every positive single number, and a period joined with an interval.
MCTexts == {<<s>> : s \in Ranges} \cup {<<<<n>>>> : n \in Numbers \ {0}}
      \cup {<<<<n>>, <<a, b>>>> : n \in Numbers \ {0}, a \in Numbers, b \in Numbers}

\* Every single number.
MCSingles == {<<<<n>>>> : n \in Numbers}
=============================================================================
