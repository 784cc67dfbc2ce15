------------------------ MODULE PluginSchedule_proofs -----------------------
(***************************************************************************)
(* Every plugin is notified at the steps its period text promises, for     *)
(* every set of plugins, every set of texts and every number of steps.     *)
(*                                                                         *)
(* The argument: a slice of positive period selects the steps the comment  *)
(* of toTimeSlice describes (SliceAsDocumented, from ModDivides); the list *)
(* of a plugin is the translation of the text it asked for (ListInv), and  *)
(* once a step has been notified no period is zero (the steps before it    *)
(* were divided by it) and no text is registered any more.                 *)
(***************************************************************************)
EXTENDS PluginSchedule, SequenceTheorems, TLAPS

\* The remainder containsStep looks at is zero at the multiples of the period.
LEMMA ModDivides ==
    ASSUME NEW a \in Nat, NEW b \in Nat \ {0}
    PROVE  a % b = 0 <=> \E k \in Nat : a = k * b
<1>1. a = b * (a \div b) + (a % b)
  OBVIOUS
<1>2. a % b \in 0 .. b - 1
  OBVIOUS
<1>3. a \div b \in Int
  OBVIOUS
<1>4. ASSUME a % b = 0 PROVE \E k \in Nat : a = k * b
  <2>1. a = (a \div b) * b
    BY <1>1, <1>3, <1>4
  <2>2. a \div b \in Nat
    BY <1>3, <2>1
  <2> QED
    BY <2>1, <2>2
<1>5. ASSUME NEW k \in Nat, a = k * b PROVE a % b = 0
  <2>1. (k - (a \div b)) * b = a % b
    BY <1>1, <1>2, <1>3, <1>5
  <2>2. k - (a \div b) = 0
    BY <1>2, <1>3, <2>1
  <2> QED
    BY <2>1, <2>2
<1> QED
  BY <1>4, <1>5

\* A slice of a text: components between colons.
Components == Seq({Empty} \cup -1 .. Top)

\* What containsStep asks of one slice.
selects(v, t) == t >= v[1] /\ t <= v[2] /\ (t - v[1]) % v[3] = 0

\* A component becomes an unsigned integer.
LEMMA UnsignedType ==
    ASSUME NEW c \in {Empty} \cup -1 .. Top, c # Empty
    PROVE  unsigned(c) \in 0 .. Top
BY ScheduleConstants DEF unsigned

\* The start, end and period timeSlice reads from the components of a slice.
LEMMA TimeSliceParts ==
    ASSUME NEW c \in Components
    PROVE  /\ timeSlice(c)[1] = IF Len(c) # 1 /\ 1 <= Len(c) /\ c[1] # Empty THEN unsigned(c[1]) ELSE 0
           /\ timeSlice(c)[2] = IF 2 <= Len(c) /\ c[2] # Empty THEN unsigned(c[2]) ELSE Top
           /\ timeSlice(c)[3] = IF Len(c) = 1 /\ c[1] # Empty THEN unsigned(c[1])
                                ELSE IF 3 <= Len(c) /\ c[3] # Empty THEN unsigned(c[3]) ELSE 1
           /\ \A n \in 1 .. 3 : timeSlice(c)[n] \in Nat
<1>1. Len(c) \in Nat
  BY DEF Components
<1>2. \A n \in 1 .. 3 : n <= Len(c) /\ c[n] # Empty => unsigned(c[n]) \in 0 .. Top
  BY <1>1, UnsignedType DEF Components
<1>3. Top \in Nat
  BY ScheduleConstants
<1>4. CASE Len(c) = 1 /\ c[1] # Empty
  <2>1. timeSlice(c) = <<0, Top, unsigned(c[1])>>
    BY <1>4 DEF timeSlice
  <2>2. unsigned(c[1]) \in 0 .. Top
    BY <1>2, <1>4
  <2>3. \A n \in 1 .. 3 : n = 1 \/ n = 2 \/ n = 3
    OBVIOUS
  <2> QED
    BY <1>3, <1>4, <2>1, <2>2, <2>3
<1>5. CASE ~(Len(c) = 1 /\ c[1] # Empty)
  <2>1. timeSlice(c) = [n \in 1 .. 3 |-> IF n <= Len(c) /\ c[n] # Empty
                                         THEN unsigned(c[n]) ELSE default[n]]
    BY <1>5 DEF timeSlice
  <2>2. default[1] = 0 /\ default[2] = Top /\ default[3] = 1
    BY DEF default
  <2>3. \A n \in 1 .. 3 : timeSlice(c)[n] = IF n <= Len(c) /\ c[n] # Empty
                                            THEN unsigned(c[n]) ELSE default[n]
    BY <2>1
  <2>4. \A n \in 1 .. 3 : n = 1 \/ n = 2 \/ n = 3
    OBVIOUS
  <2>5. \A n \in 1 .. 3 : timeSlice(c)[n] \in Nat
    BY <1>2, <1>3, <2>2, <2>3, <2>4
  <2> QED
    BY <1>1, <1>5, <2>2, <2>3, <2>5
<1> QED
  BY <1>4, <1>5

\* A slice of positive period selects exactly the steps the comment of toTimeSlice
\* promises for it.
LEMMA SliceAsDocumented ==
    ASSUME NEW c \in Components, timeSlice(c)[3] # 0, NEW t \in 0 .. LastStep
    PROVE  selects(timeSlice(c), t) <=> t \in documented(c)
<1> DEFINE start  == timeSlice(c)[1]
           stop   == timeSlice(c)[2]
           period == timeSlice(c)[3]
<1>1. /\ start = IF Len(c) # 1 /\ 1 <= Len(c) /\ c[1] # Empty THEN unsigned(c[1]) ELSE 0
      /\ stop = IF 2 <= Len(c) /\ c[2] # Empty THEN unsigned(c[2]) ELSE Top
      /\ period = IF Len(c) = 1 /\ c[1] # Empty THEN unsigned(c[1])
                  ELSE IF 3 <= Len(c) /\ c[3] # Empty THEN unsigned(c[3]) ELSE 1
  BY TimeSliceParts
<1>2. start \in Nat /\ stop \in Nat /\ period \in Nat \ {0}
  BY TimeSliceParts
<1>3. LastStep \in Nat /\ Top \in Nat /\ LastStep <= Top
  BY ScheduleConstants
<1>4. Len(c) \in Nat
  BY DEF Components
<1>5. documented(c) = {u \in 0 .. LastStep : u <= stop /\ \E k \in 0 .. LastStep : u = start + k * period}
  <2>1. CASE Len(c) = 1
    <3>1. CASE c[1] = Empty
      <4>1. start = 0 /\ stop = Top /\ period = 1
        BY <1>1, <2>1, <3>1
      <4> HIDE DEF start, stop, period
      <4> QED
        BY <2>1, <3>1, <4>1 DEF documented
    <3>2. CASE c[1] # Empty
      <4>1. start = 0 /\ stop = Top /\ period = unsigned(c[1])
        BY <1>1, <2>1, <3>2
      <4> HIDE DEF start, stop, period
      <4> QED
        BY <2>1, <3>2, <4>1 DEF documented
    <3> QED
      BY <3>1, <3>2
  <2>2. CASE Len(c) # 1
    <3>1. /\ start = IF 1 <= Len(c) /\ c[1] # Empty THEN unsigned(c[1]) ELSE 0
          /\ stop = IF 2 <= Len(c) /\ c[2] # Empty THEN unsigned(c[2]) ELSE Top
          /\ period = IF 3 <= Len(c) /\ c[3] # Empty THEN unsigned(c[3]) ELSE 1
      BY <1>1, <2>2
    <3> HIDE DEF start, stop, period
    <3> QED
      BY <2>2, <3>1 DEF documented
  <2> QED
    BY <2>1, <2>2
<1> HIDE DEF start, stop, period
<1>6. ASSUME t >= start PROVE (t - start) % period = 0 <=> \E k \in 0 .. LastStep : t = start + k * period
  <2>1. t - start \in Nat
    BY <1>2, <1>3, <1>6
  <2>2. (t - start) % period = 0 <=> \E k \in Nat : t - start = k * period
    BY <1>2, <2>1, ModDivides
  <2>3. ASSUME NEW k \in Nat, t - start = k * period PROVE k \in 0 .. LastStep /\ t = start + k * period
    <3>1. k * period >= k
      BY <1>2
    <3>2. t = start + k * period
      BY <1>2, <1>3, <2>3
    <3> QED
      BY <1>2, <1>3, <2>3, <3>1, <3>2
  <2>4. ASSUME NEW k \in 0 .. LastStep, t = start + k * period PROVE k \in Nat /\ t - start = k * period
    BY <1>2, <1>3, <2>4
  <2> QED
    BY <2>2, <2>3, <2>4
<1>7. ASSUME NEW k \in 0 .. LastStep, t = start + k * period PROVE t >= start
  <2>1. k * period >= 0
    BY <1>2, <1>3
  <2> QED
    BY <1>2, <1>3, <1>7, <2>1
<1>8. selects(timeSlice(c), t) <=> (t >= start /\ t <= stop /\ (t - start) % period = 0)
  BY DEF selects, start, stop, period
<1> QED
  BY <1>5, <1>6, <1>7, <1>8

-----------------------------------------------------------------------------
(* The inductive invariant.                                                *)

TypeInv ==
    /\ asked \in [Plugins -> Texts \cup {<<>>}]
    /\ list \in [Plugins -> {toTimeSlice(text) : text \in Texts \cup {<<>>}}]
    /\ step \in -1 .. LastStep
    /\ failed \in BOOLEAN

\* A plugin's slices are those of the text it asked for.
ListInv == \A p \in Plugins : list[p] = toTimeSlice(asked[p])

\* A step has been notified only with periods it could be divided by.
PeriodInv == step >= 0 => \A p \in Plugins : \A i \in DOMAIN list[p] : list[p][i][3] # 0

Inv == TypeInv /\ ListInv /\ PeriodInv /\ NotifiedAsDocumented

\* With positive periods, containsStep of the slices of a text selects the steps the
\* text documents.
LEMMA ContainsAsDocumented ==
    ASSUME NEW text \in Texts \cup {<<>>}, NEW t \in 0 .. LastStep,
           \A i \in DOMAIN toTimeSlice(text) : toTimeSlice(text)[i][3] # 0
    PROVE  containsStep(toTimeSlice(text), t) <=> \E i \in DOMAIN text : t \in documented(text[i])
<1>1. DOMAIN toTimeSlice(text) = DOMAIN text /\ \A i \in DOMAIN text : toTimeSlice(text)[i] = timeSlice(text[i])
  BY DEF toTimeSlice
<1>2. \A i \in DOMAIN text : text[i] \in Components
  <2>1. CASE text = <<>>
    BY <2>1
  <2>2. CASE text \in Texts
    <3>1. text \in Seq(Components)
      BY <2>2, ScheduleConstants DEF Components
    <3> HIDE DEF Components
    <3> QED
      BY <3>1
  <2> QED
    BY <2>1, <2>2
<1>3. containsStep(toTimeSlice(text), t) <=> \E i \in DOMAIN text : selects(timeSlice(text[i]), t)
  BY <1>1 DEF containsStep, selects
<1>4. \A i \in DOMAIN text : selects(timeSlice(text[i]), t) <=> t \in documented(text[i])
  BY <1>1, <1>2, SliceAsDocumented
<1> QED
  BY <1>3, <1>4

\* Nothing is registered and no step has been notified.
LEMMA Initially == Init => Inv
<1> SUFFICES ASSUME Init PROVE Inv
  OBVIOUS
<1>1. toTimeSlice(<<>>) = <<>>
  <2>1. toTimeSlice(<<>>) = [i \in 1 .. 0 |-> timeSlice(<<>>[i])]
    BY DEF toTimeSlice
  <2>2. [i \in 1 .. 0 |-> timeSlice(<<>>[i])] \in [1 .. 0 -> {0}]
    OBVIOUS
  <2>3. toTimeSlice(<<>>) \in Seq({0})
    <3>1. toTimeSlice(<<>>) \in [1 .. 0 -> {0}] /\ 0 \in Nat
      BY <2>1, <2>2
    <3>2. \A f : \A n \in Nat : f \in [1 .. n -> {0}] => f \in Seq({0})
      BY SeqDef, Zenon
    <3> QED
      BY <3>1, <3>2
  <2>4. Len(toTimeSlice(<<>>)) = 0
    BY <2>1, <2>3
  <2> QED
    BY <2>3, <2>4
<1>2. TypeInv
  <2>1. LastStep \in Nat
    BY ScheduleConstants
  <2>2. <<>> \in {toTimeSlice(u) : u \in Texts \cup {<<>>}}
    BY <1>1
  <2>3. list \in [Plugins -> {toTimeSlice(u) : u \in Texts \cup {<<>>}}]
    BY <2>2 DEF Init
  <2>4. asked \in [Plugins -> Texts \cup {<<>>}]
    BY DEF Init
  <2>5. step \in -1 .. LastStep
    BY <2>1 DEF Init
  <2>6. failed \in BOOLEAN
    BY DEF Init
  <2> QED
    BY <2>3, <2>4, <2>5, <2>6 DEF TypeInv
<1>3. ListInv
  BY <1>1 DEF Init, ListInv
<1>4. PeriodInv
  BY DEF Init, PeriodInv
<1>5. NotifiedAsDocumented
  <2>1. 0 .. -1 = {}
    OBVIOUS
  <2> QED
    BY <2>1 DEF Init, NotifiedAsDocumented
<1> QED
  BY <1>2, <1>3, <1>4, <1>5 DEF Inv

\* setNotificationPeriod: only before the first step, so that nothing was missed.
LEMMA Registers ==
    ASSUME Inv, NEW p \in Plugins, NEW text \in Texts, SetNotificationPeriod(p, text)
    PROVE  Inv'
<1>1. TypeInv /\ ListInv /\ NotifiedAsDocumented
  BY DEF Inv
<1>2. step = -1 /\ step' = -1 /\ calls' = calls
  BY DEF SetNotificationPeriod
<1>3. \/ /\ asked' = [asked EXCEPT ![p] = text] /\ list' = [list EXCEPT ![p] = toTimeSlice(text)]
         /\ failed' = failed
      \/ failed' = TRUE /\ asked' = asked /\ list' = list
  BY DEF SetNotificationPeriod
<1>4. TypeInv'
  <2>1. toTimeSlice(text) \in {toTimeSlice(u) : u \in Texts \cup {<<>>}}
    OBVIOUS
  <2>2. /\ asked \in [Plugins -> Texts \cup {<<>>}] /\ failed \in BOOLEAN /\ step \in -1 .. LastStep
        /\ list \in [Plugins -> {toTimeSlice(u) : u \in Texts \cup {<<>>}}]
    BY <1>1 DEF TypeInv
  <2>3. asked' \in [Plugins -> Texts \cup {<<>>}]
    BY <1>3, <2>2
  <2>4. list' \in [Plugins -> {toTimeSlice(u) : u \in Texts \cup {<<>>}}]
    BY <1>3, <2>1, <2>2
  <2>5. failed' \in BOOLEAN
    BY <1>3, <2>2
  <2> QED
    BY <1>2, <2>2, <2>3, <2>4, <2>5 DEF TypeInv
<1>5. ListInv' /\ PeriodInv'
  <2>1. ASSUME NEW q \in Plugins PROVE list'[q] = toTimeSlice(asked'[q])
    <3>1. list[q] = toTimeSlice(asked[q])
      BY <1>1 DEF ListInv
    <3>2. \/ asked'[q] = asked[q] /\ list'[q] = list[q]
          \/ asked'[q] = text /\ list'[q] = toTimeSlice(text)
      BY <1>1, <1>3 DEF TypeInv
    <3> QED
      BY <3>1, <3>2
  <2>2. ListInv'
    BY <2>1 DEF ListInv
  <2>3. ~(step' >= 0)
    BY <1>2
  <2> QED
    BY <2>2, <2>3 DEF PeriodInv
<1>6. NotifiedAsDocumented'
  <2>1. 0 .. -1 = {}
    OBVIOUS
  <2>2. \A q \in Plugins : calls[q] = {}
    BY <1>1, <1>2, <2>1 DEF NotifiedAsDocumented
  <2> QED
    BY <1>2, <2>1, <2>2 DEF NotifiedAsDocumented
<1> QED
  BY <1>4, <1>5, <1>6 DEF Inv

\* notifyPlugins: the step is added to the calls of the plugins whose text documents it.
LEMMA Notifies ==
    ASSUME Inv, NotifyPlugins
    PROVE  Inv'
<1>1. TypeInv /\ ListInv /\ NotifiedAsDocumented
  BY DEF Inv
<1>2. step \in -1 .. LastStep /\ step < LastStep /\ step' = step + 1 /\ LastStep \in Nat
  BY <1>1, ScheduleConstants DEF TypeInv, NotifyPlugins
<1>3. asked' = asked /\ list' = list /\ failed' = failed
  BY DEF NotifyPlugins
<1>4. step' \in 0 .. LastStep
  BY <1>2
<1>5. TypeInv'
  BY <1>1, <1>3, <1>4 DEF TypeInv
<1>6. ListInv'
  BY <1>1, <1>3 DEF ListInv
<1>7. PeriodInv'
  BY <1>3 DEF PeriodInv, NotifyPlugins
<1>8. ASSUME NEW p \in Plugins
      PROVE  calls'[p] = {t \in 0 .. step' : \E i \in DOMAIN asked[p] : t \in documented(asked[p][i])}
  <2>1. list[p] = toTimeSlice(asked[p]) /\ asked[p] \in Texts \cup {<<>>}
    BY <1>1 DEF ListInv, TypeInv
  <2>2. containsStep(list[p], step') <=> \E i \in DOMAIN asked[p] : step' \in documented(asked[p][i])
    BY <1>4, <2>1, ContainsAsDocumented DEF NotifyPlugins
  <2>3. calls[p] = {t \in 0 .. step : \E i \in DOMAIN asked[p] : t \in documented(asked[p][i])}
    BY <1>1 DEF NotifiedAsDocumented
  <2>4. calls'[p] = IF containsStep(list[p], step') THEN calls[p] \cup {step'} ELSE calls[p]
    BY <1>2 DEF NotifyPlugins
  <2>5. 0 .. step' = (0 .. step) \cup {step'}
    BY <1>2
  <2> QED
    BY <2>2, <2>3, <2>4, <2>5
<1>9. NotifiedAsDocumented'
  BY <1>3, <1>8 DEF NotifiedAsDocumented
<1> QED
  BY <1>5, <1>6, <1>7, <1>9 DEF Inv

\* The inductive invariant holds in every state of PluginConnector.
THEOREM ScheduleInvariance == Spec => []Inv
<1>1. Inv /\ [Next]_vars => Inv'
  <2> SUFFICES ASSUME Inv, [Next]_vars PROVE Inv'
    OBVIOUS
  <2>1. CASE UNCHANGED vars
    BY <2>1 DEF vars, Inv, TypeInv, ListInv, PeriodInv, NotifiedAsDocumented
  <2>2. CASE Next
    <3>1. CASE Over
      BY <3>1, <2>1 DEF Over
    <3>2. CASE NotifyPlugins
      BY <3>2, Notifies
    <3>3. CASE \E p \in Plugins, text \in Texts : SetNotificationPeriod(p, text)
      BY <3>3, Registers
    <3> QED
      BY <2>2, <3>1, <3>2, <3>3 DEF Next
  <2> QED
    BY <2>1, <2>2
<1> QED
  BY Initially, <1>1, PTL DEF Spec

\* notifyPlugins calls a plugin at exactly the steps its period text promises, whatever
\* texts the user passes and however their slices overlap.
THEOREM PluginsNotifiedAsDocumented == Spec => []NotifiedAsDocumented
<1>1. Inv => NotifiedAsDocumented
  BY DEF Inv
<1> QED
  BY ScheduleInvariance, <1>1, PTL
=============================================================================
