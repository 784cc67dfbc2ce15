--------------------------- MODULE PluginSchedule ---------------------------
(***************************************************************************)
(* Periods given as text and the plugin calls they select                  *)
(* (pluginSystem/Slice.hpp, toSlice.hpp, containsStep.hpp,                 *)
(* PluginConnector.cpp, misc/splitString.cpp).                             *)
(*                                                                         *)
(* A period text is a list of slices; a slice is the list of components    *)
(* splitString yields between its colons, each empty, a number or -1.      *)
(* Unsigned integers run from 0 to Top.                                    *)
(***************************************************************************)
EXTENDS Integers, Sequences

CONSTANTS
    Plugins,  \* objects that ask for notifications
    Texts,    \* period texts the user may pass
    Empty,    \* an empty component
    Top,      \* the largest unsigned integer
    LastStep  \* bound: the last simulated step

ASSUME ScheduleConstants ==
    /\ Top \in Nat /\ LastStep \in 0 .. Top
    /\ Texts \subseteq Seq(Seq({Empty} \cup -1 .. Top))
    /\ Empty \notin -1 .. Top

VARIABLES
    asked,     \* the text each plugin registered, <<>> if none
    list,      \* PluginConnector::notificationList: the slices of each plugin
    step,      \* currentStep; -1 before the loop
    calls,     \* steps at which each plugin was notified
    failed     \* PMACC_VERIFY threw

vars == <<asked, list, step, calls, failed>>

-----------------------------------------------------------------------------
(* Slice and toSlice.                                                      *)

\* stoul and the cast to uint32_t.
unsigned(component) == IF component = -1 THEN Top ELSE component

\* The verifications of toSlice and setValue on component n (counted from 1).
accepted(component, n) ==
    /\ component = Empty \/ component # -1 \/ n = 2
    /\ ~(n = 3 /\ component = 0)

default == <<0, Top, 1>>

\* toTimeSlice of one slice: a single number N is the period of 0 : Top : N.
timeSlice(components) ==
    IF Len(components) = 1 /\ components[1] # Empty
    THEN <<0, Top, unsigned(components[1])>>
    ELSE [n \in 1 .. 3 |-> IF n <= Len(components) /\ components[n] # Empty
                           THEN unsigned(components[n]) ELSE default[n]]

valid(text) ==
    \A i \in DOMAIN text : \A n \in DOMAIN text[i] : n <= 3 => accepted(text[i][n], n)

toTimeSlice(text) == [i \in DOMAIN text |-> timeSlice(text[i])]

\* Mutant: the end of the interval is exclusive.
containsStep_Exclusive(slices, t) ==
    \E i \in DOMAIN slices :
        LET v == slices[i] IN t >= v[1] /\ t < v[2] /\ (t - v[1]) % v[3] = 0

\* containsStep; every period in the list must be positive.
containsStep(slices, t) ==
    \E i \in DOMAIN slices :
        LET v == slices[i] IN t >= v[1] /\ t <= v[2] /\ (t - v[1]) % v[3] = 0

-----------------------------------------------------------------------------
(* PluginConnector.                                                        *)

Init ==
    /\ asked = [p \in Plugins |-> <<>>] /\ list = [p \in Plugins |-> <<>>]
    /\ step = -1 /\ calls = [p \in Plugins |-> {}] /\ failed = FALSE

\* setNotificationPeriod, before the loop; an empty text registers nothing.
SetNotificationPeriod(p, text) ==
    /\ step = -1 /\ ~failed /\ asked[p] = <<>> /\ text # <<>>
    /\ IF valid(text)
         THEN /\ asked' = [asked EXCEPT ![p] = text]
              /\ list' = [list EXCEPT ![p] = toTimeSlice(text)]
              /\ UNCHANGED failed
         ELSE failed' = TRUE /\ UNCHANGED <<asked, list>>
    /\ UNCHANGED <<step, calls>>

\* notifyPlugins of the next step.  containsStep divides by the period: the
\* behaviour of a zero period is undefined and the model goes no further.
NotifyPlugins ==
    /\ step < LastStep /\ ~failed
    /\ \A p \in Plugins : \A i \in DOMAIN list[p] : list[p][i][3] # 0
    /\ step' = step + 1
    /\ calls' = [p \in Plugins |-> IF containsStep(list[p], step + 1)
                                   THEN calls[p] \cup {step + 1} ELSE calls[p]]
    /\ UNCHANGED <<asked, list, failed>>

Over == (step = LastStep \/ failed) /\ UNCHANGED vars

Next == (\E p \in Plugins, text \in Texts : SetNotificationPeriod(p, text)) \/ NotifyPlugins \/ Over

Spec == Init /\ [][Next]_vars

-----------------------------------------------------------------------------
\* The steps the comment of toTimeSlice promises for one slice: "start:stop:period",
\* "a number N is equal to ::N", a missing component takes its default.
documented(components) ==
    LET given(n, d) == IF n <= Len(components) /\ components[n] # Empty
                       THEN unsigned(components[n]) ELSE d
        start  == IF Len(components) = 1 THEN 0 ELSE given(1, 0)
        stop   == given(2, Top)
        period == IF Len(components) = 1 THEN given(1, 1) ELSE given(3, 1)
    IN  {t \in 0 .. LastStep : t <= stop /\ \E k \in 0 .. LastStep : t = start + k * period}

\* Every plugin is notified at exactly the steps its period text promises, and at
\* no other, however the slices of the text overlap.
NotifiedAsDocumented ==
    \A p \in Plugins :
        calls[p] = {t \in 0 .. step : \E i \in DOMAIN asked[p] : t \in documented(asked[p][i])}

\* Slice.hpp: "Zero is not a valid period".  No registered slice has period 0, by
\* which containsStep would divide.
NoZeroPeriod == \A p \in Plugins : \A i \in DOMAIN list[p] : list[p][i][3] # 0
=============================================================================
