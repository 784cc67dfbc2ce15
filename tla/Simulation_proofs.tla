-------------------------- MODULE Simulation_proofs --------------------------
(***************************************************************************)
(* Proofs about SimulationLoop, for every set of ranks, any number of      *)
(* steps, every checkpoint period and any signals, and about RunLifecycle, *)
(* for all plugins, command lines, devices and memory sizes.               *)
(*                                                                         *)
(* SInv is the inductive invariant behind the agreement on signals.  BInv  *)
(* is the one behind the barriers of a run that receives no signal; with   *)
(* signals the two properties it is for do not hold.  LifeInv is the one   *)
(* behind what a process leaves to the next.                               *)
(***************************************************************************)
EXTENDS SimulationLoop, RunLifecycle, FiniteSetTheorems, SequenceTheorems, FunctionTheorems, TLAPS

(* reduced, agreed and handled, of any contributions c.                    *)
Reduced(c, n) == \A q \in Ranks : Len(c[q]) >= n

Agreed(c, n) ==
    [step |-> Max({c[q][n].step : q \in Ranks}),
     stop |-> \A q \in Ranks : c[q][n].stop,
     ckpt |-> \A q \in Ranks : c[q][n].ckpt]

(* The rounds among the first h in which all ranks asked.                  *)
CkptRounds(c, h) == {n \in 1 .. h : Agreed(c, n).ckpt}
StopRounds(c, h) == {n \in 1 .. h : Agreed(c, n).stop}

(* s is the last step that the rounds S asked for.                         *)
LastOf(c, S, s) ==
    \/ S = {} /\ s = RunSteps
    \/ \E n \in S : s = Agreed(c, n).step /\ \A m \in S : m <= n

(* The steps that the first h rounds had saved.                            *)
Planned(c, h) == IF Checkpointing THEN {Agreed(c, n).step : n \in CkptRounds(c, h)} ELSE {}

(* The result of a round reaches a rank only when every rank has entered   *)
(* it, and a flag the rank contributed is still in its counters.           *)
RoundInv ==
    \A r \in Ranks :
        /\ result[r] # "none" => contrib[r] # <<>>
        /\ \A n \in 1 .. handled(r) : Reduced(contrib, n)
        /\ result[r] = "posted" => Reduced(contrib, Len(contrib[r]))
        /\ result[r] # "none" =>
              /\ contrib[r][Len(contrib[r])].ckpt => ckpt[r] # 0
              /\ contrib[r][Len(contrib[r])].stop => stop[r] # 0

(* What a rank has planned follows from the rounds it has handled.         *)
PlanInv ==
    \A r \in Ranks :
        /\ slices[r] = Planned(contrib, handled(r))
        /\ LastOf(contrib, StopRounds(contrib, handled(r)), runSteps[r])

(* The counters hold the signals that no handled round took off.           *)
AccountInv ==
    \A r \in Ranks :
        /\ ckpt[r] + Cardinality(CkptRounds(contrib, handled(r))) = raised[r].ckpt
        /\ stop[r] + Cardinality(StopRounds(contrib, handled(r))) = raised[r].stop

SInv == TypeOK /\ RoundInv /\ PlanInv /\ AccountInv

-----------------------------------------------------------------------------
(* Without signals nothing is contributed and no plan changes.             *)
NoSignals ==
    \A r \in Ranks :
        /\ ckpt[r] = 0 /\ stop[r] = 0 /\ contrib[r] = <<>> /\ result[r] = "none"
        /\ slices[r] = {} /\ runSteps[r] = RunSteps

(* dump() saves step s.                                                    *)
due(s) == Checkpointing /\ s \in Period

(* After barrier b no step before s is due.                                *)
low(b) == IF b[1] = "init" THEN 0 ELSE b[2] + 1
Clear(b, s) == low(b) <= s /\ \A t \in low(b) .. s - 1 : ~due(t)

(* Barrier b was called at the site in step s.                             *)
At(b, site, s) == b[1] = site /\ b[2] = s

(* The barrier that follows barrier b.                                     *)
Follows(b, c) ==
    \/ b[1] = "same step" /\ At(c, "all saved", b[2])
    \/ b[1] = "final" /\ At(c, "init", 0)
    \/ /\ b[1] \in {"init", "all saved"}
       /\ \/ c[1] = "same step" /\ due(c[2]) /\ c[2] <= RunSteps /\ Clear(b, c[2])
          \/ At(c, "final", RunSteps) /\ Clear(b, RunSteps + 1)

(* A sequence of barriers a rank may have entered.                         *)
Chain(s) ==
    /\ s # <<>> => At(s[1], "init", 0)
    /\ \A n \in 1 .. Len(s) - 1 : Follows(s[n], s[n + 1])

ChainInv == \A r \in Ranks : Chain(barriers[r])

(* Where a rank is, after its last barrier.                                *)
LastBarrier(s) == s[Len(s)]

Placed(p, s, b) ==
    /\ s <= RunSteps
    /\ p \notin {"restart", "destroy", "gone"} => b # <<>>
    /\ p = "restart" => b = <<>> \/ LastBarrier(b)[1] = "final"
    /\ p = "init" => At(LastBarrier(b), "init", 0) /\ s = 0
    /\ p \in {"notify", "dump"} =>
          LastBarrier(b)[1] \in {"init", "all saved"} /\ Clear(LastBarrier(b), s)
    /\ p \in {"loop", "run"} =>
          LastBarrier(b)[1] \in {"init", "all saved"} /\ Clear(LastBarrier(b), s + 1)
    /\ p = "run" => s < RunSteps
    /\ p \in {"same step", "save"} => At(LastBarrier(b), "same step", s)
    /\ p \in {"all saved", "write"} => At(LastBarrier(b), "all saved", s)
    /\ p \in {"progress", "final"} => LastBarrier(b)[1] = "final"

PlaceInv == \A r \in Ranks : Placed(pc[r], step[r], barriers[r])

(* A rank has saved what it announced in the second barrier of a           *)
(* checkpoint, and rank 0 writes only after that barrier.                  *)
SavedInv ==
    \A r \in Ranks :
        /\ \A n \in 1 .. Len(barriers[r]) :
              barriers[r][n][1] = "all saved" => barriers[r][n][2] \in saved[r]
        /\ pc[r] = "write" => allEntered(r)

BInv == TypeOK /\ NoSignals /\ ChainInv /\ PlaceInv /\ BarriersMatch /\ SavedInv /\ CheckpointComplete

-----------------------------------------------------------------------------
(* The operators.                                                          *)

(* A finite set of naturals that is not empty has a maximum: the member    *)
(* whose rank is the number of members.                                    *)
LEMMA MaxIsMember ==
  ASSUME NEW S \in SUBSET Nat, IsFiniteSet(S), S # {}
  PROVE  Max(S) \in S
  <1> DEFINE upTo(i) == {j \in S : j <= i}
             rank == [i \in S |-> Cardinality(upTo(i))]
             N == Cardinality(S)
  <1>1. N \in Nat /\ N # 0
    BY FS_CardinalityType, FS_EmptySet
  <1>2. ASSUME NEW i \in S
        PROVE  IsFiniteSet(upTo(i)) /\ Cardinality(upTo(i)) \in 1 .. N
    <2>1. upTo(i) \in SUBSET S /\ i \in upTo(i)
      OBVIOUS
    <2>2. IsFiniteSet(upTo(i)) /\ Cardinality(upTo(i)) <= N /\ Cardinality(upTo(i)) \in Nat
      BY <2>1, FS_Subset, FS_CardinalityType
    <2>3. Cardinality(upTo(i)) # 0
      BY <2>1, <2>2, FS_EmptySet
    <2> QED
      BY <1>1, <2>2, <2>3
  <1>3. ASSUME NEW i \in S, NEW j \in S, i < j
        PROVE  Cardinality(upTo(i)) < Cardinality(upTo(j))
    <2>1. upTo(i) \cup {j} \in SUBSET upTo(j) /\ j \notin upTo(i)
      <3>1. (\A k \in S : k <= i => k <= j) /\ ~(j <= i) /\ j <= j
        BY <1>3
      <3> QED
        BY <3>1
    <2>2. Cardinality(upTo(i) \cup {j}) = Cardinality(upTo(i)) + 1
      BY <1>2, <2>1, FS_AddElement
    <2>3. Cardinality(upTo(i) \cup {j}) <= Cardinality(upTo(j))
      BY <1>2, <2>1, FS_Subset
    <2> QED
      BY <1>2, <2>2, <2>3
  <1>4. rank \in [S -> 1 .. N] /\ \A i, j \in S : rank[i] = rank[j] => i = j
    <2>1. rank \in [S -> 1 .. N]
      BY <1>2
    <2>2. ASSUME NEW i \in S, NEW j \in S, rank[i] = rank[j]
          PROVE  i = j
      <3>1. Cardinality(upTo(i)) = Cardinality(upTo(j))
        BY <2>2
      <3>2. Cardinality(upTo(i)) \in Int /\ Cardinality(upTo(j)) \in Int
        BY <1>2
      <3>3. ~(i < j) /\ ~(j < i)
        BY <1>3, <3>1, <3>2
      <3> QED
        BY <3>3
    <2> QED
      BY <2>1, <2>2
  <1>5. rank \in Surjection(S, 1 .. N)
    <2>1. IsFiniteSet(1 .. N) /\ Cardinality(1 .. N) = N
      BY <1>1, FS_Interval
    <2>2. rank \in Injection(S, 1 .. N)
      BY <1>4, Fun_IsInj
    <2> QED
      BY <2>1, <2>2, FS_Injection
  <1>6. PICK m \in S : rank[m] = N
    <2>1. N \in 1 .. N
      BY <1>1
    <2> HIDE DEF rank, N
    <2>2. \A k \in 1 .. N : \E i \in S : rank[i] = k
      BY <1>5 DEF Surjection
    <2> QED
      BY <2>1, <2>2
  <1>7. \A i \in S : m >= i
    <2> SUFFICES ASSUME NEW i \in S, m < i
                 PROVE  FALSE
      OBVIOUS
    <2>1. Cardinality(upTo(m)) < Cardinality(upTo(i)) /\ Cardinality(upTo(m)) = N
      BY <1>3, <1>6
    <2> QED
      BY <1>1, <1>2, <2>1
  <1> QED
    BY <1>7 DEF Max

(* What the ranks agree on in a round they have all entered is a step and  *)
(* two flags.                                                              *)
LEMMA AgreedType ==
  ASSUME NEW c \in [Ranks -> Seq(Flags)], NEW n \in Nat \ {0}, Reduced(c, n)
  PROVE  Agreed(c, n) \in Flags
  <1> DEFINE f == [q \in Ranks |-> c[q][n].step]
             T == {c[q][n].step : q \in Ranks}
  <1>1. \A q \in Ranks : c[q][n] \in Flags
    <2> TAKE q \in Ranks
    <2>1. c[q] \in Seq(Flags) /\ Len(c[q]) >= n
      BY DEF Reduced
    <2>2. n \in 1 .. Len(c[q])
      BY <2>1
    <2> QED
      BY <2>1, <2>2, ElementOfSeq
  <1>2. T \in SUBSET Nat /\ T # {}
    BY <1>1, SimulationConstants DEF Flags
  <1>3. f \in Surjection(Ranks, T)
    BY DEF Surjection
  <1>4. IsFiniteSet(T)
    BY <1>3, FS_Surjection, SimulationConstants
  <1>5. Max(T) \in Nat
    BY <1>2, <1>4, MaxIsMember
  <1> QED
    BY <1>5 DEF Agreed, Flags

(* What was agreed on stays so when more is contributed.                   *)
LEMMA AgreedStable ==
  ASSUME NEW c \in [Ranks -> Seq(Flags)], NEW e \in [Ranks -> Seq(Flags)],
         \A q \in Ranks : Len(c[q]) <= Len(e[q]) /\ \A m \in 1 .. Len(c[q]) : e[q][m] = c[q][m],
         NEW h \in Nat, \A n \in 1 .. h : Reduced(c, n)
  PROVE  /\ \A n \in 1 .. h : Reduced(e, n) /\ Agreed(e, n) = Agreed(c, n)
         /\ CkptRounds(e, h) = CkptRounds(c, h) /\ StopRounds(e, h) = StopRounds(c, h)
         /\ Planned(e, h) = Planned(c, h)
         /\ \A s : LastOf(c, StopRounds(c, h), s) => LastOf(e, StopRounds(e, h), s)
  <1>1. ASSUME NEW n \in 1 .. h
        PROVE  Reduced(e, n) /\ Agreed(e, n) = Agreed(c, n)
    <2>1. \A q \in Ranks : n \in 1 .. Len(c[q]) /\ Len(c[q]) \in Nat /\ Len(e[q]) \in Nat
      BY LenProperties DEF Reduced
    <2>2. \A q \in Ranks : e[q][n] = c[q][n]
      BY <2>1
    <2>3. Reduced(e, n)
      BY <2>1 DEF Reduced
    <2>4. {e[q][n].step : q \in Ranks} = {c[q][n].step : q \in Ranks}
      BY <2>2
    <2> QED
      BY <2>2, <2>3, <2>4 DEF Agreed
  <1>2. CkptRounds(e, h) = CkptRounds(c, h) /\ StopRounds(e, h) = StopRounds(c, h)
    BY <1>1 DEF CkptRounds, StopRounds
  <1>3. (\A n \in CkptRounds(c, h) : Agreed(e, n) = Agreed(c, n)) /\ (\A n \in StopRounds(c, h) : Agreed(e, n) = Agreed(c, n))
    BY <1>1 DEF CkptRounds, StopRounds
  <1>4. Planned(e, h) = Planned(c, h)
    BY <1>2, <1>3 DEF Planned
  <1>5. \A s : LastOf(c, StopRounds(c, h), s) => LastOf(e, StopRounds(e, h), s)
    BY <1>2, <1>3 DEF LastOf
  <1> QED
    BY <1>1, <1>2, <1>4, <1>5

(* One more round is handled: what it agreed on joins what was planned,    *)
(* and its signals are counted.                                            *)
LEMMA OneMoreRound ==
  ASSUME NEW c \in [Ranks -> Seq(Flags)], NEW h \in Nat, \A n \in 1 .. h + 1 : Reduced(c, n),
         NEW d, d = Agreed(c, h + 1)
  PROVE  /\ CkptRounds(c, h + 1) = CkptRounds(c, h) \cup (IF d.ckpt THEN {h + 1} ELSE {})
         /\ StopRounds(c, h + 1) = StopRounds(c, h) \cup (IF d.stop THEN {h + 1} ELSE {})
         /\ Cardinality(CkptRounds(c, h)) \in Nat /\ Cardinality(StopRounds(c, h)) \in Nat
         /\ Cardinality(CkptRounds(c, h + 1)) =
               Cardinality(CkptRounds(c, h)) + (IF d.ckpt THEN 1 ELSE 0)
         /\ Cardinality(StopRounds(c, h + 1)) =
               Cardinality(StopRounds(c, h)) + (IF d.stop THEN 1 ELSE 0)
         /\ Planned(c, h + 1) = Planned(c, h) \cup (IF d.ckpt /\ Checkpointing THEN {d.step} ELSE {})
         /\ \A s : LastOf(c, StopRounds(c, h), s) =>
               LastOf(c, StopRounds(c, h + 1), IF d.stop THEN d.step ELSE s)
  <1>1. 1 .. h + 1 = (1 .. h) \cup {h + 1} /\ h + 1 \notin 1 .. h
    OBVIOUS
  <1>2. /\ CkptRounds(c, h + 1) = CkptRounds(c, h) \cup (IF d.ckpt THEN {h + 1} ELSE {})
        /\ StopRounds(c, h + 1) = StopRounds(c, h) \cup (IF d.stop THEN {h + 1} ELSE {})
    BY <1>1 DEF CkptRounds, StopRounds
  <1>3. /\ CkptRounds(c, h) \in SUBSET (1 .. h) /\ h + 1 \notin CkptRounds(c, h)
        /\ StopRounds(c, h) \in SUBSET (1 .. h) /\ h + 1 \notin StopRounds(c, h)
    BY <1>1 DEF CkptRounds, StopRounds
  <1>4. IsFiniteSet(CkptRounds(c, h)) /\ IsFiniteSet(StopRounds(c, h))
    <2>1. IsFiniteSet(1 .. h)
      BY FS_Interval
    <2> QED
      BY <1>3, <2>1, FS_Subset
  <1>5. Cardinality(CkptRounds(c, h)) \in Nat /\ Cardinality(StopRounds(c, h)) \in Nat
    BY <1>4, FS_CardinalityType
  <1>6. /\ Cardinality(CkptRounds(c, h) \cup {h + 1}) = Cardinality(CkptRounds(c, h)) + 1
        /\ Cardinality(StopRounds(c, h) \cup {h + 1}) = Cardinality(StopRounds(c, h)) + 1
    BY <1>3, <1>4, FS_AddElement
  <1>7. Cardinality(CkptRounds(c, h + 1)) = Cardinality(CkptRounds(c, h)) + (IF d.ckpt THEN 1 ELSE 0)
    <2>1. CASE d.ckpt
      BY <1>2, <1>6, <2>1
    <2>2. CASE ~d.ckpt
      <3>1. CkptRounds(c, h + 1) = CkptRounds(c, h)
        BY <1>2, <2>2
      <3> QED
        BY <1>5, <2>2, <3>1
    <2> QED
      BY <2>1, <2>2
  <1>8. Cardinality(StopRounds(c, h + 1)) = Cardinality(StopRounds(c, h)) + (IF d.stop THEN 1 ELSE 0)
    <2>1. CASE d.stop
      BY <1>2, <1>6, <2>1
    <2>2. CASE ~d.stop
      <3>1. StopRounds(c, h + 1) = StopRounds(c, h)
        BY <1>2, <2>2
      <3> QED
        BY <1>5, <2>2, <3>1
    <2> QED
      BY <2>1, <2>2
  <1>9. Planned(c, h + 1) = Planned(c, h) \cup (IF d.ckpt /\ Checkpointing THEN {d.step} ELSE {})
    BY <1>2 DEF Planned
  <1>10. ASSUME NEW s, LastOf(c, StopRounds(c, h), s)
         PROVE  LastOf(c, StopRounds(c, h + 1), IF d.stop THEN d.step ELSE s)
    <2>1. CASE d.stop
      <3>1. h + 1 \in StopRounds(c, h + 1) /\ \A m \in StopRounds(c, h + 1) : m <= h + 1
        BY <1>2, <1>3, <2>1
      <3> QED
        BY <2>1, <3>1 DEF LastOf
    <2>2. CASE ~d.stop
      <3>1. StopRounds(c, h + 1) = StopRounds(c, h)
        BY <1>2, <2>2
      <3> QED
        BY <1>10, <2>2, <3>1
    <2> QED
      BY <2>1, <2>2
  <1> QED
    BY <1>2, <1>5, <1>7, <1>8, <1>9, <1>10

(* The last step asked for is one step.                                    *)
LEMMA LastIsUnique ==
  ASSUME NEW c, NEW h \in Nat, NEW s, NEW t,
         LastOf(c, StopRounds(c, h), s), LastOf(c, StopRounds(c, h), t)
  PROVE  s = t
  <1>1. StopRounds(c, h) \subseteq 1 .. h
    BY DEF StopRounds
  <1>2. \A m, n \in StopRounds(c, h) : m <= n /\ n <= m => m = n
    BY <1>1
  <1> QED
    BY <1>2 DEF LastOf

-----------------------------------------------------------------------------
(* The agreement on signals.                                               *)

(* What runResult and checkSignals have in common: a posted result is run, *)
(* and a round may be started.                                             *)
Signals(r, begun) ==
    /\ applied(r, decision(r))
    /\ ckpt' = [ckpt EXCEPT ![r] = released(r, decision(r)).ckpt]
    /\ stop' = [stop EXCEPT ![r] = released(r, decision(r)).stop]
    /\ contrib' =
          IF begun
          THEN [contrib EXCEPT ![r] =
                  Append(@, [step |-> step[r] + 1,
                             stop |-> stopSimulation(ckpt'[r], stop'[r]),
                             ckpt |-> createCheckpoint(ckpt'[r])])]
          ELSE contrib
    /\ locked' = [locked EXCEPT ![r] = begun \/ result[r] = "pending"]
    /\ result' = [result EXCEPT ![r] = IF begun THEN "pending"
                                       ELSE IF result[r] = "posted" THEN "none" ELSE @]
    /\ begun => result[r] # "pending"

(* runResult starts no round; checkSignals starts one or not.              *)
LEMMA SignalSteps ==
  ASSUME TypeOK, NEW r \in Ranks
  PROVE  /\ runResult(r) => Signals(r, FALSE)
         /\ checkSignals(r) => \E begun \in BOOLEAN : Signals(r, begun)
  <1>1. ASSUME runResult(r)
        PROVE  Signals(r, FALSE)
    BY <1>1 DEF runResult, Signals, TypeOK
  <1>2. ASSUME checkSignals(r)
        PROVE  \E begun \in BOOLEAN : Signals(r, begun)
    <2> DEFINE c == released(r, decision(r)).ckpt
               s == released(r, decision(r)).stop
               begun == result[r] # "pending" /\ received(c, s)
    <2>1. ckpt'[r] = c /\ stop'[r] = s
      BY <1>2 DEF checkSignals, TypeOK
    <2>2. begun \in BOOLEAN
      OBVIOUS
    <2>3. result' = [result EXCEPT ![r] = IF begun THEN "pending"
                                       ELSE IF result[r] = "posted" THEN "none" ELSE @]
      BY <1>2 DEF checkSignals
    <2>4. Signals(r, begun)
      BY <1>2, <2>1, <2>3 DEF checkSignals, Signals
    <2> HIDE DEF begun
    <2> QED
      BY <2>2, <2>4
  <1> QED
    BY <1>1, <1>2

(* The number of rounds a rank has handled.                                *)
LEMMA HandledType ==
  ASSUME TypeOK, RoundInv, NEW r \in Ranks
  PROVE  /\ handled(r) \in Nat /\ Len(contrib[r]) \in Nat /\ contrib[r] \in Seq(Flags)
         /\ \A n \in 1 .. handled(r) : Reduced(contrib, n)
         /\ result[r] = "none" => handled(r) = Len(contrib[r])
         /\ result[r] # "none" => /\ handled(r) + 1 = Len(contrib[r])
                                  /\ contrib[r][handled(r) + 1] \in Flags
         /\ result[r] = "posted" => \A n \in 1 .. handled(r) + 1 : Reduced(contrib, n)
  <1>1. contrib[r] \in Seq(Flags) /\ Len(contrib[r]) \in Nat
    BY LenProperties DEF TypeOK
  <1>2. result[r] # "none" => Len(contrib[r]) # 0
    BY <1>1, EmptySeq DEF RoundInv
  <1>3. /\ handled(r) \in Nat
        /\ result[r] = "none" => handled(r) = Len(contrib[r])
        /\ result[r] # "none" => handled(r) + 1 = Len(contrib[r])
    <2>1. CASE result[r] = "none"
      BY <1>1, <2>1 DEF handled
    <2>2. CASE result[r] # "none"
      <3>1. handled(r) = Len(contrib[r]) - 1
        BY <2>2 DEF handled
      <3> QED
        BY <1>1, <1>2, <2>2, <3>1
    <2> QED
      BY <2>1, <2>2
  <1>4. \A n \in 1 .. handled(r) : Reduced(contrib, n)
    BY DEF RoundInv
  <1>5. result[r] # "none" => contrib[r][handled(r) + 1] \in Flags
    BY <1>1, <1>3, ElementOfSeq
  <1>6. result[r] = "posted" => \A n \in 1 .. handled(r) + 1 : Reduced(contrib, n)
    BY <1>3, <1>4 DEF RoundInv
  <1> QED
    BY <1>1, <1>3, <1>4, <1>5, <1>6

(* The result a rank runs is what all ranks agreed on in its last round;   *)
(* without one there is nothing to do.  A counter is taken down only for a *)
(* signal the rank itself contributed, and so never below zero.            *)
LEMMA DecisionFacts ==
  ASSUME TypeOK, RoundInv, NEW r \in Ranks
  PROVE  /\ decision(r) \in Flags
         /\ result[r] = "posted" => decision(r) = Agreed(contrib, handled(r) + 1)
         /\ result[r] # "posted" => ~decision(r).ckpt /\ ~decision(r).stop
         /\ released(r, decision(r)).ckpt = ckpt[r] - (IF decision(r).ckpt THEN 1 ELSE 0)
         /\ released(r, decision(r)).stop = stop[r] - (IF decision(r).stop THEN 1 ELSE 0)
         /\ released(r, decision(r)).ckpt \in Nat /\ released(r, decision(r)).stop \in Nat
  <1>1. contrib \in [Ranks -> Seq(Flags)] /\ ckpt[r] \in Nat /\ stop[r] \in Nat
    BY DEF TypeOK
  <1>2. result[r] = "posted" =>
          /\ decision(r) = Agreed(contrib, handled(r) + 1)
          /\ decision(r) \in Flags
          /\ decision(r).ckpt => contrib[r][Len(contrib[r])].ckpt
          /\ decision(r).stop => contrib[r][Len(contrib[r])].stop
    <2> SUFFICES ASSUME result[r] = "posted"
                 PROVE  /\ decision(r) = Agreed(contrib, handled(r) + 1)
                        /\ decision(r) \in Flags
                        /\ decision(r).ckpt => contrib[r][Len(contrib[r])].ckpt
                        /\ decision(r).stop => contrib[r][Len(contrib[r])].stop
      OBVIOUS
    <2>1. /\ handled(r) \in Nat /\ handled(r) + 1 = Len(contrib[r])
          /\ Reduced(contrib, handled(r) + 1)
      BY HandledType
    <2>2. decision(r) = Agreed(contrib, Len(contrib[r]))
      BY DEF decision, agreed, Agreed
    <2>3. Agreed(contrib, handled(r) + 1) \in Flags
      BY <1>1, <2>1, AgreedType
    <2>4. /\ Agreed(contrib, Len(contrib[r])).ckpt => contrib[r][Len(contrib[r])].ckpt
          /\ Agreed(contrib, Len(contrib[r])).stop => contrib[r][Len(contrib[r])].stop
      BY DEF Agreed
    <2> QED
      BY <2>1, <2>2, <2>3, <2>4
  <1>3. result[r] # "posted" => /\ decision(r) \in Flags
                                /\ ~decision(r).ckpt /\ ~decision(r).stop
    BY DEF decision, Flags
  <1>4. /\ released(r, decision(r)).ckpt = ckpt[r] - (IF decision(r).ckpt THEN 1 ELSE 0)
        /\ released(r, decision(r)).stop = stop[r] - (IF decision(r).stop THEN 1 ELSE 0)
    BY DEF released
  <1>5. (decision(r).ckpt => ckpt[r] # 0) /\ (decision(r).stop => stop[r] # 0)
    BY <1>2, <1>3 DEF RoundInv
  <1>6. released(r, decision(r)).ckpt \in Nat /\ released(r, decision(r)).stop \in Nat
    BY <1>1, <1>4, <1>5
  <1> QED
    BY <1>2, <1>3, <1>4, <1>6

(* What a step of the signal code leaves in the variables of the rank.     *)
LEMMA SignalFacts ==
  ASSUME TypeOK, RoundInv, NEW r \in Ranks, NEW begun \in BOOLEAN, Signals(r, begun)
  PROVE  /\ contrib' \in [Ranks -> Seq(Flags)]
         /\ \A q \in Ranks : /\ Len(contrib[q]) <= Len(contrib'[q])
                             /\ \A m \in 1 .. Len(contrib[q]) : contrib'[q][m] = contrib[q][m]
         /\ ckpt' \in [Ranks -> Nat] /\ stop' \in [Ranks -> Nat]
         /\ slices' \in [Ranks -> SUBSET Nat] /\ runSteps' \in [Ranks -> Nat]
         /\ locked' \in [Ranks -> BOOLEAN] /\ result' \in [Ranks -> {"none", "pending", "posted"}]
         /\ \A q \in Ranks : locked'[q] = (result'[q] # "none")
         /\ ckpt'[r] = ckpt[r] - (IF decision(r).ckpt THEN 1 ELSE 0)
         /\ stop'[r] = stop[r] - (IF decision(r).stop THEN 1 ELSE 0)
         /\ result'[r] # "posted"
         /\ begun => /\ result'[r] = "pending" /\ result[r] # "pending"
                     /\ Len(contrib'[r]) = Len(contrib[r]) + 1
                     /\ contrib'[r][Len(contrib'[r])].ckpt => ckpt'[r] # 0
                     /\ contrib'[r][Len(contrib'[r])].stop => stop'[r] # 0
         /\ ~begun => /\ contrib'[r] = contrib[r]
                      /\ result'[r] = IF result[r] = "posted" THEN "none" ELSE result[r]
         /\ slices'[r] = slices[r] \cup
                (IF decision(r).ckpt /\ Checkpointing THEN {decision(r).step} ELSE {})
         /\ runSteps'[r] = IF decision(r).stop THEN decision(r).step ELSE runSteps[r]
         /\ \A q \in Ranks : q # r =>
               /\ contrib'[q] = contrib[q] /\ result'[q] = result[q] /\ ckpt'[q] = ckpt[q]
               /\ stop'[q] = stop[q] /\ slices'[q] = slices[q] /\ runSteps'[q] = runSteps[q]
  <1> DEFINE d == decision(r)
             new == [step |-> step[r] + 1, stop |-> stopSimulation(ckpt'[r], stop'[r]),
                     ckpt |-> createCheckpoint(ckpt'[r])]
  <1>1. /\ d \in Flags
        /\ released(r, d).ckpt = ckpt[r] - (IF d.ckpt THEN 1 ELSE 0)
        /\ released(r, d).stop = stop[r] - (IF d.stop THEN 1 ELSE 0)
        /\ released(r, d).ckpt \in Nat /\ released(r, d).stop \in Nat
    BY DecisionFacts
  <1>2. /\ ckpt' = [ckpt EXCEPT ![r] = released(r, d).ckpt]
        /\ stop' = [stop EXCEPT ![r] = released(r, d).stop]
        /\ slices' = [slices EXCEPT ![r] = IF d.ckpt /\ Checkpointing THEN @ \cup {d.step} ELSE @]
        /\ runSteps' = [runSteps EXCEPT ![r] = IF d.stop THEN d.step ELSE @]
        /\ contrib' = IF begun THEN [contrib EXCEPT ![r] = Append(@, new)] ELSE contrib
        /\ locked' = [locked EXCEPT ![r] = begun \/ result[r] = "pending"]
        /\ result' = [result EXCEPT ![r] = IF begun THEN "pending"
                                           ELSE IF result[r] = "posted" THEN "none" ELSE @]
        /\ begun => result[r] # "pending"
    BY DEF Signals, applied
  <1> HIDE DEF d
  <1>3. /\ ckpt' \in [Ranks -> Nat] /\ stop' \in [Ranks -> Nat]
        /\ ckpt'[r] = ckpt[r] - (IF d.ckpt THEN 1 ELSE 0)
        /\ stop'[r] = stop[r] - (IF d.stop THEN 1 ELSE 0)
    BY <1>1, <1>2 DEF TypeOK
  <1>4. /\ slices' \in [Ranks -> SUBSET Nat] /\ runSteps' \in [Ranks -> Nat]
        /\ slices'[r] = slices[r] \cup (IF d.ckpt /\ Checkpointing THEN {d.step} ELSE {})
        /\ runSteps'[r] = IF d.stop THEN d.step ELSE runSteps[r]
    <2>1. d.step \in Nat
      BY <1>1 DEF Flags
    <2>2. runSteps' \in [Ranks -> Nat] /\ runSteps'[r] = IF d.stop THEN d.step ELSE runSteps[r]
      BY <1>2, <2>1 DEF TypeOK
    <2>3. slices \in [Ranks -> SUBSET Nat] /\ slices[r] \in SUBSET Nat
      BY DEF TypeOK
    <2>4. (IF d.ckpt /\ Checkpointing THEN slices[r] \cup {d.step} ELSE slices[r]) \in SUBSET Nat
      BY <2>1, <2>3
    <2>5. slices' \in [Ranks -> SUBSET Nat]
      BY <1>2, <2>3, <2>4
    <2>6. slices'[r] = IF d.ckpt /\ Checkpointing THEN slices[r] \cup {d.step} ELSE slices[r]
      BY <1>2, <2>3
    <2>7. slices'[r] = slices[r] \cup (IF d.ckpt /\ Checkpointing THEN {d.step} ELSE {})
      BY <2>6
    <2> QED
      BY <2>2, <2>5, <2>7
  <1>5. /\ locked' \in [Ranks -> BOOLEAN] /\ result' \in [Ranks -> {"none", "pending", "posted"}]
        /\ result'[r] = IF begun THEN "pending" ELSE IF result[r] = "posted" THEN "none" ELSE result[r]
        /\ locked'[r] = (begun \/ result[r] = "pending")
        /\ result'[r] # "posted"
    BY <1>2 DEF TypeOK
  <1>6. \A q \in Ranks : q # r =>
           /\ contrib'[q] = contrib[q] /\ result'[q] = result[q] /\ ckpt'[q] = ckpt[q]
           /\ stop'[q] = stop[q] /\ slices'[q] = slices[q] /\ runSteps'[q] = runSteps[q]
           /\ locked'[q] = locked[q]
    BY <1>2 DEF TypeOK
  <1>7. \A q \in Ranks : locked'[q] = (result'[q] # "none")
    <2> TAKE q \in Ranks
    <2>1. CASE q = r
      BY <1>5, <2>1 DEF TypeOK
    <2>2. CASE q # r
      BY <1>6, <2>2 DEF TypeOK
    <2> QED
      BY <2>1, <2>2
  <1>8. new \in Flags /\ (new.ckpt => ckpt'[r] # 0) /\ (new.stop => stop'[r] # 0)
    <2>1. step[r] + 1 \in Nat
      <3>1. step \in [Ranks -> Nat]
        BY DEF TypeOK
      <3> QED
        BY <3>1
    <2>2. /\ stopSimulation(ckpt'[r], stop'[r]) \in BOOLEAN /\ createCheckpoint(ckpt'[r]) \in BOOLEAN
          /\ stopSimulation(ckpt'[r], stop'[r]) => stop'[r] # 0
          /\ createCheckpoint(ckpt'[r]) => ckpt'[r] # 0
      <3>1. ckpt'[r] \in Nat /\ stop'[r] \in Nat
        BY <1>3
      <3> QED
        BY <3>1 DEF stopSimulation, createCheckpoint
    <2> QED
      BY <2>1, <2>2 DEF Flags
  <1> HIDE DEF new
  <1>9. /\ contrib \in [Ranks -> Seq(Flags)]
        /\ \A q \in Ranks : Len(contrib[q]) \in Nat
    BY LenProperties DEF TypeOK
  <1>10. /\ Append(contrib[r], new) \in Seq(Flags)
         /\ Len(Append(contrib[r], new)) = Len(contrib[r]) + 1
         /\ \A m \in 1 .. Len(contrib[r]) : Append(contrib[r], new)[m] = contrib[r][m]
         /\ Append(contrib[r], new)[Len(contrib[r]) + 1] = new
    BY <1>8, <1>9, AppendProperties
  <1>11. /\ contrib' \in [Ranks -> Seq(Flags)]
         /\ contrib'[r] = IF begun THEN Append(contrib[r], new) ELSE contrib[r]
    BY <1>2, <1>9, <1>10
  <1>12. begun => /\ Len(contrib'[r]) = Len(contrib[r]) + 1
                  /\ contrib'[r][Len(contrib'[r])].ckpt => ckpt'[r] # 0
                  /\ contrib'[r][Len(contrib'[r])].stop => stop'[r] # 0
    BY <1>8, <1>10, <1>11
  <1>13. \A q \in Ranks : /\ Len(contrib[q]) <= Len(contrib'[q])
                          /\ \A m \in 1 .. Len(contrib[q]) : contrib'[q][m] = contrib[q][m]
    <2> TAKE q \in Ranks
    <2>1. CASE q = r
      <3>1. CASE begun
        <4>1. contrib'[q] = Append(contrib[r], new)
          BY <1>11, <2>1, <3>1
        <4> QED
          BY <1>9, <1>10, <2>1, <4>1
      <3>2. CASE ~begun
        BY <1>9, <1>11, <2>1, <3>2
      <3> QED
        BY <3>1, <3>2
    <2>2. CASE q # r
      BY <1>6, <1>9, <2>2
    <2> QED
      BY <2>1, <2>2
  <1> QED
    BY <1>2, <1>3, <1>4, <1>5, <1>6, <1>7, <1>11, <1>12, <1>13 DEF d

(* A rank's plan and its counters after a step of the signal code of rank  *)
(* r, in terms of the rounds it has handled then.                          *)
LEMMA RankAfterSignals ==
  ASSUME SInv, NEW r \in Ranks, NEW begun \in BOOLEAN, Signals(r, begun), raised' = raised,
         NEW q \in Ranks
  PROVE  \E k \in Nat :
            /\ handled(q)' = k
            /\ \A n \in 1 .. k : Reduced(contrib', n)
            /\ slices'[q] = Planned(contrib', k)
            /\ LastOf(contrib', StopRounds(contrib', k), runSteps'[q])
            /\ ckpt'[q] + Cardinality(CkptRounds(contrib', k)) = raised'[q].ckpt
            /\ stop'[q] + Cardinality(StopRounds(contrib', k)) = raised'[q].stop
  <1>0. TypeOK /\ RoundInv /\ PlanInv /\ AccountInv
    BY DEF SInv
  <1>1. PICK h \in Nat : h = handled(q)
    BY <1>0, HandledType
  <1>2. /\ contrib \in [Ranks -> Seq(Flags)] /\ contrib' \in [Ranks -> Seq(Flags)]
        /\ \A p \in Ranks : /\ Len(contrib[p]) <= Len(contrib'[p])
                            /\ \A m \in 1 .. Len(contrib[p]) : contrib'[p][m] = contrib[p][m]
    <2>1. contrib \in [Ranks -> Seq(Flags)]
      BY <1>0 DEF TypeOK
    <2> QED
      BY <1>0, <2>1, SignalFacts
  <1>3. /\ \A n \in 1 .. h : Reduced(contrib, n)
        /\ slices[q] = Planned(contrib, h)
        /\ LastOf(contrib, StopRounds(contrib, h), runSteps[q])
        /\ ckpt[q] + Cardinality(CkptRounds(contrib, h)) = raised[q].ckpt
        /\ stop[q] + Cardinality(StopRounds(contrib, h)) = raised[q].stop
    BY <1>0, <1>1 DEF RoundInv, PlanInv, AccountInv
  <1>4. ckpt[q] \in Nat /\ stop[q] \in Nat
    BY <1>0 DEF TypeOK
  <1>5. CASE q = r /\ result[r] = "posted"
    <2>1. /\ h + 1 = Len(contrib[r])
          /\ \A n \in 1 .. h + 1 : Reduced(contrib, n)
          /\ decision(r) = Agreed(contrib, h + 1)
      BY <1>0, <1>1, <1>5, HandledType, DecisionFacts
    <2>2. /\ begun => result'[r] = "pending" /\ Len(contrib'[r]) = Len(contrib[r]) + 1
          /\ ~begun => contrib'[r] = contrib[r] /\ result'[r] = "none"
          /\ ckpt'[r] = ckpt[r] - (IF decision(r).ckpt THEN 1 ELSE 0)
          /\ stop'[r] = stop[r] - (IF decision(r).stop THEN 1 ELSE 0)
          /\ slices'[r] = slices[r] \cup
                (IF decision(r).ckpt /\ Checkpointing THEN {decision(r).step} ELSE {})
          /\ runSteps'[r] = IF decision(r).stop THEN decision(r).step ELSE runSteps[r]
      BY <1>0, <1>5, SignalFacts
    <2>3. handled(q)' = h + 1
      <3>1. CASE begun
        BY <1>5, <2>1, <2>2, <3>1 DEF handled
      <3>2. CASE ~begun
        BY <1>5, <2>1, <2>2, <3>2 DEF handled
      <3> QED
        BY <3>1, <3>2
    <2>4. PICK d : d = decision(r)
      OBVIOUS
    <2>5. /\ Cardinality(CkptRounds(contrib, h)) \in Nat /\ Cardinality(StopRounds(contrib, h)) \in Nat
          /\ Cardinality(CkptRounds(contrib, h + 1)) =
                Cardinality(CkptRounds(contrib, h)) + (IF d.ckpt THEN 1 ELSE 0)
          /\ Cardinality(StopRounds(contrib, h + 1)) =
                Cardinality(StopRounds(contrib, h)) + (IF d.stop THEN 1 ELSE 0)
          /\ Planned(contrib, h + 1) =
                Planned(contrib, h) \cup (IF d.ckpt /\ Checkpointing THEN {d.step} ELSE {})
          /\ \A s : LastOf(contrib, StopRounds(contrib, h), s) =>
                LastOf(contrib, StopRounds(contrib, h + 1), IF d.stop THEN d.step ELSE s)
      BY <1>2, <2>1, <2>4, OneMoreRound, ZenonT(60)
    <2>6. h + 1 \in Nat
      OBVIOUS
    <2>7. /\ \A n \in 1 .. h + 1 : Reduced(contrib', n)
          /\ CkptRounds(contrib', h + 1) = CkptRounds(contrib, h + 1)
          /\ StopRounds(contrib', h + 1) = StopRounds(contrib, h + 1)
          /\ Planned(contrib', h + 1) = Planned(contrib, h + 1)
          /\ \A s : LastOf(contrib, StopRounds(contrib, h + 1), s) =>
                LastOf(contrib', StopRounds(contrib', h + 1), s)
      <3>1. PICK k \in Nat : k = h + 1
        BY <2>6
      <3>2. \A n \in 1 .. k : Reduced(contrib, n)
        BY <2>1, <3>1
      <3>3. /\ \A n \in 1 .. k : Reduced(contrib', n)
            /\ CkptRounds(contrib', k) = CkptRounds(contrib, k)
            /\ StopRounds(contrib', k) = StopRounds(contrib, k)
            /\ Planned(contrib', k) = Planned(contrib, k)
            /\ \A s : LastOf(contrib, StopRounds(contrib, k), s) =>
                  LastOf(contrib', StopRounds(contrib', k), s)
        BY <1>2, <3>2, AgreedStable
      <3> QED
        BY <3>1, <3>3
    <2>8. slices'[q] = Planned(contrib', h + 1)
      BY <1>3, <1>5, <2>2, <2>4, <2>5, <2>7
    <2>9. LastOf(contrib', StopRounds(contrib', h + 1), runSteps'[q])
      <3>1. runSteps'[q] = IF d.stop THEN d.step ELSE runSteps[q]
        BY <1>5, <2>2, <2>4
      <3>2. LastOf(contrib, StopRounds(contrib, h + 1), IF d.stop THEN d.step ELSE runSteps[q])
        BY <1>3, <2>5
      <3> QED
        BY <2>7, <3>1, <3>2
    <2>10. /\ ckpt'[q] + Cardinality(CkptRounds(contrib', h + 1)) = raised'[q].ckpt
           /\ stop'[q] + Cardinality(StopRounds(contrib', h + 1)) = raised'[q].stop
      <3>1. /\ ckpt'[q] = ckpt[q] - (IF d.ckpt THEN 1 ELSE 0)
            /\ stop'[q] = stop[q] - (IF d.stop THEN 1 ELSE 0)
        BY <1>5, <2>2, <2>4
      <3>2. /\ ckpt'[q] + Cardinality(CkptRounds(contrib, h + 1)) = ckpt[q] + Cardinality(CkptRounds(contrib, h))
            /\ stop'[q] + Cardinality(StopRounds(contrib, h + 1)) = stop[q] + Cardinality(StopRounds(contrib, h))
        BY <1>4, <2>5, <3>1
      <3> QED
        BY <1>3, <2>7, <3>2
    <2> QED
      BY <2>3, <2>6, <2>7, <2>8, <2>9, <2>10
  <1>6. CASE ~(q = r /\ result[r] = "posted")
    <2>1. handled(q)' = h /\ slices'[q] = slices[q] /\ runSteps'[q] = runSteps[q]
          /\ ckpt'[q] = ckpt[q] /\ stop'[q] = stop[q]
      <3>1. CASE q # r
        <4>1. /\ contrib'[q] = contrib[q] /\ result'[q] = result[q] /\ ckpt'[q] = ckpt[q]
              /\ stop'[q] = stop[q] /\ slices'[q] = slices[q] /\ runSteps'[q] = runSteps[q]
          BY <1>0, <3>1, SignalFacts
        <4> QED
          BY <1>1, <4>1 DEF handled
      <3>2. CASE q = r /\ result[r] # "posted"
        <4>1. ~decision(r).ckpt /\ ~decision(r).stop
          BY <1>0, <3>2, DecisionFacts
        <4>2. /\ begun => /\ result'[r] = "pending" /\ result[r] # "pending"
                          /\ Len(contrib'[r]) = Len(contrib[r]) + 1
              /\ ~begun => contrib'[r] = contrib[r] /\ result'[r] = result[r]
              /\ ckpt'[r] = ckpt[r] - (IF decision(r).ckpt THEN 1 ELSE 0)
              /\ stop'[r] = stop[r] - (IF decision(r).stop THEN 1 ELSE 0)
              /\ slices'[r] = slices[r] \cup
                    (IF decision(r).ckpt /\ Checkpointing THEN {decision(r).step} ELSE {})
              /\ runSteps'[r] = IF decision(r).stop THEN decision(r).step ELSE runSteps[r]
          BY <1>0, <3>2, SignalFacts
        <4>3. ckpt'[r] = ckpt[r] /\ stop'[r] = stop[r]
          BY <1>4, <3>2, <4>1, <4>2
        <4>4. slices'[r] = slices[r] /\ runSteps'[r] = runSteps[r]
          BY <4>1, <4>2
        <4>5. handled(r)' = handled(r)
          <5>1. result[r] \in {"none", "pending", "posted"} /\ Len(contrib[r]) \in Nat
            BY <1>0, LenProperties DEF TypeOK
          <5>2. CASE begun
            <6>1. result[r] = "none" /\ result'[r] = "pending" /\ Len(contrib'[r]) = Len(contrib[r]) + 1
              BY <3>2, <4>2, <5>1, <5>2
            <6>2. handled(r) = Len(contrib[r]) - 0 /\ handled(r)' = Len(contrib'[r]) - 1
              BY <6>1 DEF handled
            <6> QED
              BY <5>1, <6>1, <6>2
          <5>3. CASE ~begun
            BY <4>2, <5>3 DEF handled
          <5> QED
            BY <5>2, <5>3
        <4> QED
          BY <1>1, <3>2, <4>3, <4>4, <4>5
      <3> QED
        BY <1>6, <3>1, <3>2
    <2>2. /\ \A n \in 1 .. h : Reduced(contrib', n)
          /\ CkptRounds(contrib', h) = CkptRounds(contrib, h)
          /\ StopRounds(contrib', h) = StopRounds(contrib, h)
          /\ Planned(contrib', h) = Planned(contrib, h)
          /\ \A s : LastOf(contrib, StopRounds(contrib, h), s) =>
                LastOf(contrib', StopRounds(contrib', h), s)
      BY <1>2, <1>3, AgreedStable
    <2> QED
      BY <1>3, <2>1, <2>2
  <1> QED
    BY <1>5, <1>6

(* A step of the signal code preserves the invariants.                     *)
LEMMA SignalsPreserve ==
  ASSUME SInv, NEW r \in Ranks, NEW begun \in BOOLEAN, Signals(r, begun), raised' = raised
  PROVE  RoundInv' /\ PlanInv' /\ AccountInv'
  <1>0. TypeOK /\ RoundInv
    BY DEF SInv
  <1>1. ASSUME NEW q \in Ranks
        PROVE  /\ \A n \in 1 .. handled(q)' : Reduced(contrib', n)
               /\ slices'[q] = Planned(contrib', handled(q)')
               /\ LastOf(contrib', StopRounds(contrib', handled(q)'), runSteps'[q])
               /\ ckpt'[q] + Cardinality(CkptRounds(contrib', handled(q)')) = raised'[q].ckpt
               /\ stop'[q] + Cardinality(StopRounds(contrib', handled(q)')) = raised'[q].stop
    BY RankAfterSignals
  <1>2. ASSUME NEW q \in Ranks
        PROVE  /\ result'[q] # "none" => contrib'[q] # <<>>
               /\ result'[q] = "posted" => Reduced(contrib', Len(contrib'[q]))
               /\ result'[q] # "none" =>
                     /\ contrib'[q][Len(contrib'[q])].ckpt => ckpt'[q] # 0
                     /\ contrib'[q][Len(contrib'[q])].stop => stop'[q] # 0
    <2>0. contrib[q] \in Seq(Flags) /\ Len(contrib[q]) \in Nat
      BY <1>0, LenProperties DEF TypeOK
    <2>1. CASE q # r
      <3>1. contrib'[q] = contrib[q] /\ result'[q] = result[q] /\ ckpt'[q] = ckpt[q] /\ stop'[q] = stop[q]
        BY <1>0, <2>1, SignalFacts
      <3>2. result[q] = "posted" => Reduced(contrib', Len(contrib[q]))
        <4>1. \A p \in Ranks : Len(contrib[p]) <= Len(contrib'[p]) /\ Len(contrib[p]) \in Nat
                               /\ Len(contrib'[p]) \in Nat
          <5>1. \A p \in Ranks : Len(contrib[p]) <= Len(contrib'[p])
            BY <1>0, SignalFacts
          <5>2. contrib' \in [Ranks -> Seq(Flags)]
            BY <1>0, SignalFacts
          <5>3. contrib \in [Ranks -> Seq(Flags)]
            BY <1>0 DEF TypeOK
          <5> QED
            BY <5>1, <5>2, <5>3, LenProperties
        <4>2. result[q] = "posted" => \A p \in Ranks : Len(contrib[p]) >= Len(contrib[q])
          BY <1>0 DEF RoundInv, Reduced
        <4> QED
          BY <2>0, <4>1, <4>2 DEF Reduced
      <3> QED
        BY <1>0, <3>1, <3>2 DEF RoundInv
    <2>2. CASE q = r
      <3>1. /\ result'[r] # "posted"
            /\ begun => /\ result'[r] = "pending"
                        /\ Len(contrib'[r]) = Len(contrib[r]) + 1
                        /\ contrib'[r][Len(contrib'[r])].ckpt => ckpt'[r] # 0
                        /\ contrib'[r][Len(contrib'[r])].stop => stop'[r] # 0
            /\ ~begun => /\ contrib'[r] = contrib[r]
                         /\ result'[r] = IF result[r] = "posted" THEN "none" ELSE result[r]
            /\ ckpt'[r] = ckpt[r] - (IF decision(r).ckpt THEN 1 ELSE 0)
            /\ stop'[r] = stop[r] - (IF decision(r).stop THEN 1 ELSE 0)
            /\ contrib' \in [Ranks -> Seq(Flags)]
        BY <1>0, SignalFacts
      <3>2. CASE begun
        <4>1. contrib'[r] # <<>>
          <5>1. Len(contrib'[r]) # 0
            BY <2>0, <2>2, <3>1, <3>2
          <5> QED
            BY <5>1, EmptySeq
        <4> QED
          BY <2>2, <3>1, <3>2, <4>1
      <3>3. CASE ~begun /\ result'[r] # "none"
        <4>1. result[r] # "posted" /\ result[r] # "none" /\ contrib'[r] = contrib[r]
          BY <3>1, <3>3
        <4>2. ~decision(r).ckpt /\ ~decision(r).stop
          BY <1>0, <4>1, DecisionFacts
        <4>3. ckpt[r] \in Nat /\ stop[r] \in Nat
          BY <1>0 DEF TypeOK
        <4>4. ckpt'[r] = ckpt[r] /\ stop'[r] = stop[r]
          BY <3>1, <4>2, <4>3
        <4> QED
          BY <1>0, <2>2, <3>1, <4>1, <4>4 DEF RoundInv
      <3>4. CASE result'[r] = "none"
        BY <2>2, <3>4
      <3> QED
        BY <3>2, <3>3, <3>4
    <2> QED
      BY <2>1, <2>2
  <1>3. RoundInv'
    BY <1>1, <1>2 DEF RoundInv
  <1>4. PlanInv'
    BY <1>1 DEF PlanInv
  <1>5. AccountInv'
    BY <1>1 DEF AccountInv
  <1> QED
    BY <1>3, <1>4, <1>5

(* The steps that leave the signal code alone preserve the invariants.     *)
LEMMA OthersPreserve ==
  ASSUME SInv, UNCHANGED <<runSteps, slices, ckpt, stop, contrib, result, raised>>
  PROVE  RoundInv' /\ PlanInv' /\ AccountInv'
  BY DEF SInv, RoundInv, PlanInv, AccountInv, handled

(* A signal is counted where it is raised.                                 *)
LEMMA RaisePreserves ==
  ASSUME SInv, NEW r \in Ranks, RaiseCheckpoint(r) \/ RaiseStop(r)
  PROVE  RoundInv' /\ PlanInv' /\ AccountInv'
  <1>0. TypeOK /\ RoundInv /\ PlanInv /\ AccountInv
    BY DEF SInv
  <1>1. UNCHANGED <<runSteps, slices, contrib, result>>
    BY DEF RaiseCheckpoint, RaiseStop, planVars
  <1>2. ASSUME NEW q \in Ranks
        PROVE  /\ handled(q)' = handled(q)
               /\ ckpt[q] \in Nat /\ stop[q] \in Nat
               /\ raised[q].ckpt \in Nat /\ raised[q].stop \in Nat
               /\ Cardinality(CkptRounds(contrib, handled(q))) \in Nat
               /\ Cardinality(StopRounds(contrib, handled(q))) \in Nat
    <2>1. handled(q)' = handled(q)
      BY <1>1 DEF handled
    <2>2. ckpt[q] \in Nat /\ stop[q] \in Nat
      BY <1>0 DEF TypeOK
    <2>3. raised[q] \in [ckpt : Nat, stop : Nat]
      BY <1>0 DEF TypeOK
    <2>4. handled(q) \in Nat
      BY <1>0, HandledType
    <2>5. IsFiniteSet(1 .. handled(q))
      BY <2>4, FS_Interval
    <2>6. /\ CkptRounds(contrib, handled(q)) \in SUBSET (1 .. handled(q))
          /\ StopRounds(contrib, handled(q)) \in SUBSET (1 .. handled(q))
      BY DEF CkptRounds, StopRounds
    <2>7. /\ Cardinality(CkptRounds(contrib, handled(q))) \in Nat
          /\ Cardinality(StopRounds(contrib, handled(q))) \in Nat
      BY <2>5, <2>6, FS_Subset, FS_CardinalityType
    <2> QED
      BY <2>1, <2>2, <2>3, <2>7
  <1>3. ASSUME NEW q \in Ranks
        PROVE  /\ \/ ckpt'[q] = ckpt[q] /\ raised'[q].ckpt = raised[q].ckpt
                  \/ ckpt'[q] = ckpt[q] + 1 /\ raised'[q].ckpt = raised[q].ckpt + 1
               /\ \/ stop'[q] = stop[q] /\ raised'[q].stop = raised[q].stop
                  \/ stop'[q] = stop[q] + 1 /\ raised'[q].stop = raised[q].stop + 1
    <2>0. /\ ckpt \in [Ranks -> Nat] /\ stop \in [Ranks -> Nat]
          /\ raised \in [Ranks -> [ckpt : Nat, stop : Nat]]
      BY <1>0 DEF TypeOK
    <2>1. CASE RaiseCheckpoint(r)
      BY <2>0, <2>1 DEF RaiseCheckpoint
    <2>2. CASE RaiseStop(r)
      BY <2>0, <2>2 DEF RaiseStop
    <2> QED
      BY <2>1, <2>2
  <1>4. PlanInv'
    BY <1>0, <1>1, <1>2 DEF PlanInv
  <1>5. AccountInv'
    <2> SUFFICES ASSUME NEW q \in Ranks
                 PROVE  /\ ckpt'[q] + Cardinality(CkptRounds(contrib', handled(q)')) = raised'[q].ckpt
                        /\ stop'[q] + Cardinality(StopRounds(contrib', handled(q)')) = raised'[q].stop
      BY DEF AccountInv
    <2>1. contrib' = contrib /\ handled(q)' = handled(q)
      BY <1>1, <1>2
    <2>2. /\ ckpt[q] + Cardinality(CkptRounds(contrib, handled(q))) = raised[q].ckpt
          /\ stop[q] + Cardinality(StopRounds(contrib, handled(q))) = raised[q].stop
      BY <1>0 DEF AccountInv
    <2>3. PICK C \in Nat : C = Cardinality(CkptRounds(contrib, handled(q)))
      BY <1>2
    <2>4. PICK S \in Nat : S = Cardinality(StopRounds(contrib, handled(q)))
      BY <1>2
    <2>5. ckpt'[q] + C = raised'[q].ckpt /\ stop'[q] + S = raised'[q].stop
      BY <1>2, <1>3, <2>2, <2>3, <2>4
    <2> QED
      BY <2>1, <2>3, <2>4, <2>5
  <1>6. RoundInv'
    <2>1. \A q \in Ranks : (ckpt[q] # 0 => ckpt'[q] # 0) /\ (stop[q] # 0 => stop'[q] # 0)
      BY <1>2, <1>3
    <2> QED
      BY <1>0, <1>1, <1>2, <2>1 DEF RoundInv
  <1> QED
    BY <1>4, <1>5, <1>6

(* A round ends for a rank when every rank has entered it.                 *)
LEMMA ReductionPreserves ==
  ASSUME SInv, NEW r \in Ranks, ReductionDone(r)
  PROVE  RoundInv' /\ PlanInv' /\ AccountInv'
  <1>0. TypeOK /\ RoundInv /\ PlanInv /\ AccountInv
    BY DEF SInv
  <1>1. /\ UNCHANGED <<runSteps, slices, ckpt, stop, contrib, raised>>
        /\ result[r] = "pending" /\ Reduced(contrib, Len(contrib[r]))
    BY DEF ReductionDone, planVars, reduced, Reduced
  <1>2. \A q \in Ranks : result'[q] = IF q = r THEN "posted" ELSE result[q]
    BY <1>0 DEF ReductionDone, TypeOK
  <1>3. \A q \in Ranks : (result'[q] = "none") = (result[q] = "none")
    BY <1>1, <1>2
  <1>4. \A q \in Ranks : handled(q)' = handled(q)
    BY <1>1, <1>3 DEF handled
  <1>5. PlanInv' /\ AccountInv'
    BY <1>0, <1>1, <1>4 DEF PlanInv, AccountInv
  <1>6. RoundInv'
    BY <1>0, <1>1, <1>2, <1>3, <1>4 DEF RoundInv
  <1> QED
    BY <1>5, <1>6

(* A call of a barrier is a site and a step.                               *)
LEMMA EnteredPair ==
  /\ \A b \in Entered : b[1] \in {"init", "same step", "all saved", "final"} /\ b[2] \in Nat
  /\ \A b, c \in Entered : b[1] = c[1] /\ b[2] = c[2] => b = c
  /\ \A site \in {"init", "same step", "all saved", "final"}, s \in Nat :
        <<site, s>> \in Entered /\ At(<<site, s>>, site, s)
  <1>1. \A b \in Entered : b[1] \in {"init", "same step", "all saved", "final"} /\ b[2] \in Nat
    BY DEF Entered
  <1>2. ASSUME NEW b \in Entered, NEW c \in Entered, b[1] = c[1], b[2] = c[2]
        PROVE  b = c
    <2> DEFINE Sites == {"init", "same step", "all saved", "final"}
    <2>1. b \in Sites \X Nat /\ c \in Sites \X Nat
      BY DEF Entered
    <2> HIDE DEF Sites
    <2> QED
      BY <1>2, <2>1
  <1>3. ASSUME NEW site \in {"init", "same step", "all saved", "final"}, NEW s \in Nat
        PROVE  <<site, s>> \in Entered /\ At(<<site, s>>, site, s)
    BY DEF Entered, At
  <1> QED
    BY <1>1, <1>2, <1>3

(* A barrier that a rank enters is recorded after the ones before.         *)
LEMMA BarrierRecorded ==
  ASSUME TypeOK, NEW r \in Ranks, NEW c \in Entered,
         barriers' = [barriers EXCEPT ![r] = Append(@, c)]
  PROVE  /\ barriers' \in [Ranks -> Seq(Entered)]
         /\ Len(barriers[r]) \in Nat /\ Len(barriers'[r]) = Len(barriers[r]) + 1
         /\ barriers'[r][Len(barriers[r]) + 1] = c
         /\ \A n \in 1 .. Len(barriers[r]) : barriers'[r][n] = barriers[r][n]
         /\ \A q \in Ranks : q # r => barriers'[q] = barriers[q]
         /\ barriers'[r] # <<>> /\ LastBarrier(barriers'[r]) = c
  <1>1. barriers \in [Ranks -> Seq(Entered)]
    BY DEF TypeOK
  <1>2. barriers[r] \in Seq(Entered)
    BY <1>1
  <1>3. Len(barriers[r]) \in Nat
    BY <1>2, LenProperties
  <1>4. /\ Append(barriers[r], c) \in Seq(Entered)
        /\ Len(Append(barriers[r], c)) = Len(barriers[r]) + 1
        /\ \A n \in 1 .. Len(barriers[r]) : Append(barriers[r], c)[n] = barriers[r][n]
        /\ Append(barriers[r], c)[Len(barriers[r]) + 1] = c
    BY <1>2, AppendProperties
  <1>5. /\ barriers' \in [Ranks -> Seq(Entered)] /\ barriers'[r] = Append(barriers[r], c)
        /\ \A q \in Ranks : q # r => barriers'[q] = barriers[q]
    BY <1>1, <1>4
  <1>6. Len(barriers'[r]) # 0
    BY <1>3, <1>4, <1>5
  <1>7. barriers'[r] # <<>>
    BY <1>6, EmptySeq
  <1> QED
    BY <1>3, <1>4, <1>5, <1>7 DEF LastBarrier

(* enterBarrier records its call site and its step.                        *)
LEMMA BarrierEntered ==
  ASSUME TypeOK, NEW r \in Ranks, NEW site \in {"init", "same step", "all saved", "final"},
         NEW s \in Nat, enterBarrier(r, site, s)
  PROVE  /\ barriers' \in [Ranks -> Seq(Entered)]
         /\ \E c \in Entered : At(c, site, s) /\ barriers' = [barriers EXCEPT ![r] = Append(@, c)]
  <1>1. PICK c \in Entered : At(c, site, s) /\ c = <<site, s>>
    BY EnteredPair
  <1>2. barriers' = [barriers EXCEPT ![r] = Append(@, c)]
    BY <1>1 DEF enterBarrier
  <1> QED
    BY <1>1, <1>2, BarrierRecorded

(* What the control thread of a rank does, without the signal code.        *)
ControlTypes ==
    /\ pc \in [Ranks -> {"restart", "init", "notify", "dump", "same step", "save", "all saved",
                         "write", "loop", "run", "progress", "final", "destroy", "gone"}]
    /\ step \in [Ranks -> Nat]
    /\ attempts \in [Ranks -> 0 .. SoftRestarts + 1]
    /\ barriers \in [Ranks -> Seq(Entered)]
    /\ saved \in [Ranks -> SUBSET Nat]
    /\ file \in Seq(Nat)

SignalTypes ==
    /\ runSteps \in [Ranks -> Nat] /\ slices \in [Ranks -> SUBSET Nat]
    /\ ckpt \in [Ranks -> Nat] /\ stop \in [Ranks -> Nat]
    /\ locked \in [Ranks -> BOOLEAN] /\ result \in [Ranks -> {"none", "pending", "posted"}]
    /\ \A r \in Ranks : locked[r] = (result[r] # "none")
    /\ contrib \in [Ranks -> Seq(Flags)]
    /\ raised \in [Ranks -> [ckpt : Nat, stop : Nat]]

(* Every step of the control thread, with the signal code it runs, if any. *)
LEMMA ControlSteps ==
  ASSUME TypeOK, NEW r \in Ranks, Control(r)
  PROVE  /\ raised' = raised
         /\ \/ UNCHANGED <<runSteps, slices, ckpt, stop, locked, contrib, result>>
            \/ \E begun \in BOOLEAN : Signals(r, begun)
  <1>1. CASE Restart(r) \/ LeaveBarrier(r) \/ CheckpointPlugins(r) \/ WriteCheckpoint(r) \/ Loop(r)
             \/ RunOneStep(r) \/ LeaveFinal(r) \/ Destroy(r)
    BY <1>1 DEF Restart, LeaveBarrier, CheckpointPlugins, WriteCheckpoint, Loop, RunOneStep,
                LeaveFinal, Destroy, planVars, signalVars
  <1>2. CASE Pump(r) \/ FinalPump(r)
    <2>1. runResult(r) /\ raised' = raised
      BY <1>2 DEF Pump, FinalPump
    <2> QED
      BY <2>1, SignalSteps
  <1>3. CASE NotifyPlugins(r) \/ DumpOneStep(r) \/ Progress(r)
    <2>1. checkSignals(r) /\ raised' = raised
      BY <1>3 DEF NotifyPlugins, DumpOneStep, Progress
    <2> QED
      BY <2>1, SignalSteps
  <1> QED
    BY <1>1, <1>2, <1>3 DEF Control

(* The control thread keeps the types of what is its own.                  *)
LEMMA ControlTyped ==
  ASSUME TypeOK, NEW r \in Ranks, Control(r)
  PROVE  ControlTypes'
  <1> DEFINE PC == {"restart", "init", "notify", "dump", "same step", "save", "all saved",
                    "write", "loop", "run", "progress", "final", "destroy", "gone"}
  <1>0. /\ pc \in [Ranks -> PC] /\ step \in [Ranks -> Nat] /\ step[r] \in Nat
        /\ attempts \in [Ranks -> 0 .. SoftRestarts + 1] /\ attempts[r] \in 0 .. SoftRestarts + 1
        /\ barriers \in [Ranks -> Seq(Entered)] /\ saved \in [Ranks -> SUBSET Nat] /\ file \in Seq(Nat)
    BY DEF TypeOK
  <1>1. CASE Restart(r)
    <2>1. CASE attempts[r] <= SoftRestarts
      <3>1. /\ attempts' = [attempts EXCEPT ![r] = @ + 1] /\ step' = [step EXCEPT ![r] = 0]
            /\ enterBarrier(r, "init", 0) /\ pc' = [pc EXCEPT ![r] = "init"]
            /\ saved' = saved /\ file' = file
        BY <1>1, <2>1 DEF Restart
      <3>2. attempts[r] + 1 \in 0 .. SoftRestarts + 1
        <4>1. SoftRestarts \in Nat /\ attempts[r] \in 0 .. SoftRestarts + 1
          BY SimulationConstants DEF TypeOK
        <4> QED
          BY <2>1, <4>1
      <3>3. attempts' \in [Ranks -> 0 .. SoftRestarts + 1]
        BY <1>0, <3>1, <3>2
      <3>4. pc' \in [Ranks -> PC] /\ step' \in [Ranks -> Nat]
        BY <1>0, <3>1
      <3>5. barriers' \in [Ranks -> Seq(Entered)]
        BY <3>1, BarrierEntered
      <3> QED
        BY <1>0, <3>1, <3>3, <3>4, <3>5 DEF ControlTypes
    <2>2. CASE ~(attempts[r] <= SoftRestarts)
      <3>1. /\ pc' = [pc EXCEPT ![r] = "destroy"]
            /\ UNCHANGED <<attempts, step, barriers, saved, file>>
        BY <1>1, <2>2 DEF Restart
      <3>2. pc' \in [Ranks -> PC]
        BY <1>0, <3>1
      <3> QED
        BY <1>0, <3>1, <3>2 DEF ControlTypes
    <2> QED
      BY <2>1, <2>2
  <1>2. CASE LeaveBarrier(r)
    <2>1. \E p \in PC : pc' = [pc EXCEPT ![r] = p]
      <3>1. pc[r] = "init" \/ pc[r] = "same step" \/ pc[r] = "all saved"
        BY <1>2 DEF LeaveBarrier
      <3>2. CASE pc[r] = "init"
        <4>1. pc' = [pc EXCEPT ![r] = "notify"]
          BY <1>2, <3>2 DEF LeaveBarrier
        <4> QED
          BY <4>1
      <3>3. CASE pc[r] = "same step"
        <4>1. pc' = [pc EXCEPT ![r] = "save"]
          BY <1>2, <3>3 DEF LeaveBarrier
        <4> QED
          BY <4>1
      <3>4. CASE pc[r] = "all saved"
        <4>1. pc' = [pc EXCEPT ![r] = "write"]
          BY <1>2, <3>4 DEF LeaveBarrier
        <4> QED
          BY <4>1
      <3> QED
        BY <3>1, <3>2, <3>3, <3>4
    <2>2. pc' \in [Ranks -> PC]
      BY <1>0, <2>1
    <2>3. UNCHANGED <<step, attempts, barriers, saved, file>>
      BY <1>2 DEF LeaveBarrier
    <2> QED
      BY <1>0, <2>2, <2>3 DEF ControlTypes
  <1>3. CASE Pump(r)
    BY <1>0, <1>3 DEF Pump, ControlTypes
  <1>4. CASE NotifyPlugins(r)
    <2>1. pc' = [pc EXCEPT ![r] = "dump"] /\ UNCHANGED <<step, attempts, barriers, saved, file>>
      BY <1>4 DEF NotifyPlugins
    <2> QED
      BY <1>0, <2>1 DEF ControlTypes
  <1>5. CASE DumpOneStep(r)
    <2>1. /\ UNCHANGED <<step, attempts, saved, file>>
          /\ \/ enterBarrier(r, "same step", step[r]) /\ pc' = [pc EXCEPT ![r] = "same step"]
             \/ barriers' = barriers /\ pc' = [pc EXCEPT ![r] = "loop"]
      BY <1>5 DEF DumpOneStep
    <2>2. pc' \in [Ranks -> PC]
      BY <1>0, <2>1
    <2>3. barriers' \in [Ranks -> Seq(Entered)]
      BY <1>0, <2>1, BarrierEntered
    <2> QED
      BY <1>0, <2>1, <2>2, <2>3 DEF ControlTypes
  <1>6. CASE CheckpointPlugins(r)
    <2>1. /\ saved' = [saved EXCEPT ![r] = @ \cup {step[r]}]
          /\ enterBarrier(r, "all saved", step[r])
          /\ pc' = [pc EXCEPT ![r] = "all saved"] /\ UNCHANGED <<step, attempts, file>>
      BY <1>6 DEF CheckpointPlugins
    <2>2. pc' \in [Ranks -> PC]
      BY <1>0, <2>1
    <2>3. barriers' \in [Ranks -> Seq(Entered)]
      BY <1>0, <2>1, BarrierEntered
    <2>4. saved[r] \cup {step[r]} \in SUBSET Nat
      BY <1>0
    <2>5. saved' \in [Ranks -> SUBSET Nat]
      BY <1>0, <2>1, <2>4
    <2> QED
      BY <1>0, <2>1, <2>2, <2>3, <2>5 DEF ControlTypes
  <1>7. CASE WriteCheckpoint(r)
    <2>1. /\ file' = IF r = Root THEN Append(file, step[r]) ELSE file
          /\ pc' = [pc EXCEPT ![r] = "loop"] /\ UNCHANGED <<step, attempts, barriers, saved>>
      BY <1>7 DEF WriteCheckpoint
    <2>2. file' \in Seq(Nat)
      BY <1>0, <2>1, AppendProperties
    <2> QED
      BY <1>0, <2>1, <2>2 DEF ControlTypes
  <1>8. CASE Loop(r)
    <2>1. /\ UNCHANGED <<step, attempts, saved, file>>
          /\ \/ barriers' = barriers /\ pc' = [pc EXCEPT ![r] = "run"]
             \/ enterBarrier(r, "final", step[r]) /\ pc' = [pc EXCEPT ![r] = "progress"]
      BY <1>8 DEF Loop
    <2>2. pc' \in [Ranks -> PC]
      BY <1>0, <2>1
    <2>3. barriers' \in [Ranks -> Seq(Entered)]
      BY <1>0, <2>1, BarrierEntered
    <2> QED
      BY <1>0, <2>1, <2>2, <2>3 DEF ControlTypes
  <1>9. CASE RunOneStep(r)
    <2>1. /\ step' = [step EXCEPT ![r] = @ + 1] /\ pc' = [pc EXCEPT ![r] = "notify"]
          /\ UNCHANGED <<attempts, barriers, saved, file>>
      BY <1>9 DEF RunOneStep
    <2>2. step' \in [Ranks -> Nat] /\ pc' \in [Ranks -> PC]
      <3>1. step \in [Ranks -> Nat]
        BY <1>0
      <3>2. step' \in [Ranks -> Nat]
        BY <2>1, <3>1
      <3>3. pc' \in [Ranks -> PC]
        BY <1>0, <2>1
      <3> QED
        BY <3>2, <3>3
    <2> QED
      BY <1>0, <2>1, <2>2 DEF ControlTypes
  <1>10. CASE Progress(r) \/ FinalPump(r) \/ LeaveFinal(r) \/ Destroy(r)
    <2>1. /\ UNCHANGED <<step, attempts, barriers, saved, file>>
          /\ \E p \in PC : pc' = [pc EXCEPT ![r] = p]
      BY <1>10 DEF Progress, FinalPump, LeaveFinal, Destroy
    <2>2. pc' \in [Ranks -> PC]
      BY <1>0, <2>1
    <2> QED
      BY <1>0, <2>1, <2>2 DEF ControlTypes
  <1> QED
    BY <1>1, <1>2, <1>3, <1>4, <1>5, <1>6, <1>7, <1>8, <1>9, <1>10 DEF Control

(* The initial states satisfy the invariant.                               *)
LEMMA SInvInit == Init => SInv
  <1> SUFFICES ASSUME Init
               PROVE  SInv
    OBVIOUS
  <1>1. TypeOK
    <2>1. /\ pc \in [Ranks -> {"restart", "init", "notify", "dump", "same step", "save", "all saved",
                         "write", "loop", "run", "progress", "final", "destroy", "gone"}]
          /\ step \in [Ranks -> Nat] /\ runSteps \in [Ranks -> Nat]
          /\ attempts \in [Ranks -> 0 .. SoftRestarts + 1]
          /\ slices \in [Ranks -> SUBSET Nat]
          /\ ckpt \in [Ranks -> Nat] /\ stop \in [Ranks -> Nat]
          /\ locked \in [Ranks -> BOOLEAN] /\ result \in [Ranks -> {"none", "pending", "posted"}]
          /\ saved \in [Ranks -> SUBSET Nat]
          /\ raised \in [Ranks -> [ckpt : Nat, stop : Nat]]
      BY SimulationConstants DEF Init
    <2>2. \A r \in Ranks : locked[r] = (result[r] # "none")
      BY DEF Init
    <2>3. /\ contrib \in [Ranks -> Seq(Flags)] /\ barriers \in [Ranks -> Seq(Entered)]
          /\ file \in Seq(Nat)
      BY EmptySeq DEF Init
    <2> QED
      BY <2>1, <2>2, <2>3 DEF TypeOK
  <1>2. ASSUME NEW r \in Ranks
        PROVE  /\ handled(r) = 0 /\ contrib[r] = <<>> /\ result[r] = "none" /\ slices[r] = {}
               /\ runSteps[r] = RunSteps /\ ckpt[r] = 0 /\ stop[r] = 0
               /\ raised[r].ckpt = 0 /\ raised[r].stop = 0
    <2>1. /\ contrib[r] = <<>> /\ result[r] = "none" /\ slices[r] = {}
          /\ runSteps[r] = RunSteps /\ ckpt[r] = 0 /\ stop[r] = 0
          /\ raised[r].ckpt = 0 /\ raised[r].stop = 0
      BY DEF Init
    <2>2. Len(contrib[r]) = 0
      BY <2>1, EmptySeq
    <2> QED
      BY <2>1, <2>2 DEF handled
  <1>3. /\ CkptRounds(contrib, 0) = {} /\ StopRounds(contrib, 0) = {} /\ Planned(contrib, 0) = {}
        /\ Cardinality({}) = 0
    <2>1. CkptRounds(contrib, 0) = {} /\ StopRounds(contrib, 0) = {}
      BY DEF CkptRounds, StopRounds
    <2> QED
      BY <2>1, FS_EmptySet DEF Planned
  <1>4. RoundInv
    BY <1>2 DEF RoundInv
  <1>5. PlanInv
    BY <1>2, <1>3 DEF PlanInv, LastOf
  <1>6. AccountInv
    <2> SUFFICES ASSUME NEW r \in Ranks
                 PROVE  /\ ckpt[r] + Cardinality(CkptRounds(contrib, handled(r))) = raised[r].ckpt
                        /\ stop[r] + Cardinality(StopRounds(contrib, handled(r))) = raised[r].stop
      BY DEF AccountInv
    <2>1. /\ Cardinality(CkptRounds(contrib, handled(r))) = 0
          /\ Cardinality(StopRounds(contrib, handled(r))) = 0
      BY <1>2, <1>3
    <2> QED
      BY <1>2, <2>1
  <1> QED
    BY <1>1, <1>4, <1>5, <1>6 DEF SInv

(* Every step preserves the invariant.                                     *)
LEMMA SInvNext == SInv /\ [Next]_vars => SInv'
  <1> SUFFICES ASSUME SInv, [Next]_vars
               PROVE  SInv'
    OBVIOUS
  <1>0. TypeOK /\ RoundInv /\ ControlTypes /\ SignalTypes
    BY DEF SInv, TypeOK, ControlTypes, SignalTypes
  <1>1. ASSUME NEW r \in Ranks, RaiseCheckpoint(r) \/ RaiseStop(r)
        PROVE  SInv'
    <2>1. RoundInv' /\ PlanInv' /\ AccountInv'
      BY <1>1, RaisePreserves
    <2>2. /\ UNCHANGED <<pc, step, attempts, barriers, saved, file>>
          /\ UNCHANGED <<runSteps, slices, locked, contrib, result>>
      BY <1>1 DEF RaiseCheckpoint, RaiseStop, planVars
    <2>3. /\ ckpt' \in [Ranks -> Nat] /\ stop' \in [Ranks -> Nat]
          /\ raised' \in [Ranks -> [ckpt : Nat, stop : Nat]]
      <3>0. /\ ckpt \in [Ranks -> Nat] /\ stop \in [Ranks -> Nat]
            /\ raised \in [Ranks -> [ckpt : Nat, stop : Nat]]
        BY <1>0 DEF SignalTypes
      <3>1. CASE RaiseCheckpoint(r)
        BY <3>0, <3>1 DEF RaiseCheckpoint
      <3>2. CASE RaiseStop(r)
        BY <3>0, <3>2 DEF RaiseStop
      <3> QED
        BY <1>1, <3>1, <3>2
    <2>4. ControlTypes'
      BY <1>0, <2>2 DEF ControlTypes
    <2>5. SignalTypes'
      BY <1>0, <2>2, <2>3 DEF SignalTypes
    <2> QED
      BY <2>1, <2>4, <2>5 DEF SInv, TypeOK, ControlTypes, SignalTypes
  <1>2. ASSUME NEW r \in Ranks, ReductionDone(r)
        PROVE  SInv'
    <2>1. RoundInv' /\ PlanInv' /\ AccountInv'
      BY <1>2, ReductionPreserves
    <2>2. /\ UNCHANGED <<pc, step, attempts, barriers, saved, file>>
          /\ UNCHANGED <<runSteps, slices, locked, contrib, ckpt, stop, raised>>
          /\ result[r] = "pending" /\ result' = [result EXCEPT ![r] = "posted"]
      BY <1>2 DEF ReductionDone, planVars
    <2>3. result' \in [Ranks -> {"none", "pending", "posted"}]
      BY <1>0, <2>2 DEF SignalTypes
    <2>4. \A q \in Ranks : (result'[q] = "none") = (result[q] = "none")
      BY <1>0, <2>2 DEF SignalTypes
    <2>5. ControlTypes'
      BY <1>0, <2>2 DEF ControlTypes
    <2>6. SignalTypes'
      BY <1>0, <2>2, <2>3, <2>4 DEF SignalTypes
    <2> QED
      BY <2>1, <2>5, <2>6 DEF SInv, TypeOK, ControlTypes, SignalTypes
  <1>3. ASSUME NEW r \in Ranks, Control(r)
        PROVE  SInv'
    <2>1. ControlTypes'
      BY <1>0, <1>3, ControlTyped
    <2>2. raised' = raised
      BY <1>0, <1>3, ControlSteps
    <2>3. CASE UNCHANGED <<runSteps, slices, ckpt, stop, locked, contrib, result>>
      <3>1. RoundInv' /\ PlanInv' /\ AccountInv'
        BY <2>2, <2>3, OthersPreserve
      <3>2. SignalTypes'
        BY <1>0, <2>2, <2>3 DEF SignalTypes
      <3> QED
        BY <2>1, <3>1, <3>2 DEF SInv, TypeOK, ControlTypes, SignalTypes
    <2>4. ASSUME NEW begun \in BOOLEAN, Signals(r, begun)
          PROVE  SInv'
      <3>1. RoundInv' /\ PlanInv' /\ AccountInv'
        BY <2>2, <2>4, SignalsPreserve
      <3>2. /\ contrib' \in [Ranks -> Seq(Flags)]
            /\ ckpt' \in [Ranks -> Nat] /\ stop' \in [Ranks -> Nat]
            /\ slices' \in [Ranks -> SUBSET Nat] /\ runSteps' \in [Ranks -> Nat]
            /\ locked' \in [Ranks -> BOOLEAN] /\ result' \in [Ranks -> {"none", "pending", "posted"}]
            /\ \A q \in Ranks : locked'[q] = (result'[q] # "none")
        BY <1>0, <2>4, SignalFacts
      <3>3. raised' \in [Ranks -> [ckpt : Nat, stop : Nat]]
        BY <1>0, <2>2 DEF SignalTypes
      <3>4. SignalTypes'
        BY <3>2, <3>3 DEF SignalTypes
      <3> QED
        BY <2>1, <3>1, <3>4 DEF SInv, TypeOK, ControlTypes, SignalTypes
    <2> QED
      BY <1>0, <1>3, <2>3, <2>4, ControlSteps
  <1>4. CASE UNCHANGED vars
    <2>1. /\ UNCHANGED <<runSteps, slices, ckpt, stop, contrib, result, raised>>
          /\ UNCHANGED <<pc, step, attempts, barriers, saved, file, locked>>
      BY <1>4 DEF vars
    <2>2. RoundInv' /\ PlanInv' /\ AccountInv'
      BY <2>1, OthersPreserve
    <2>3. ControlTypes' /\ SignalTypes'
      BY <1>0, <2>1 DEF ControlTypes, SignalTypes
    <2> QED
      BY <2>2, <2>3 DEF SInv, TypeOK, ControlTypes, SignalTypes
  <1>5. CASE Over
    BY <1>4, <1>5 DEF Over
  <1> QED
    BY <1>1, <1>2, <1>3, <1>4, <1>5 DEF Next

(* SInv holds in every reachable state.                                    *)
THEOREM SignalInvariance == Spec => []SInv
  BY SInvInit, SInvNext, PTL DEF Spec

(* The variables have their types; in particular signal::release takes the *)
(* counters never below zero, and gSignalLocked is held exactly while a    *)
(* round of checkSignals is under way.                                     *)
THEOREM TypeCorrect == Spec => []TypeOK
  <1>1. SInv => TypeOK
    BY DEF SInv
  <1> QED
    BY <1>1, SignalInvariance, PTL

(* checkSignals: whatever signals reach whichever ranks when, ranks that   *)
(* have run the results of the same rounds have planned the same           *)
(* checkpoints and the same last step, and every signal is counted until a *)
(* round in which all ranks had one takes it off.                          *)
THEOREM RanksActOnTheSameSignals == Spec => []SignalsAgreed
  <1>1. SInv => SignalsAgreed
    <2> SUFFICES ASSUME SInv
                 PROVE  SignalsAgreed
      OBVIOUS
    <2>0. TypeOK /\ RoundInv /\ PlanInv /\ AccountInv
      BY DEF SInv
    <2>1. PlansAgree
      <3> SUFFICES ASSUME NEW r \in Ranks, NEW q \in Ranks, handled(r) = handled(q)
                   PROVE  slices[r] = slices[q] /\ runSteps[r] = runSteps[q]
        BY DEF PlansAgree
      <3>1. PICK h \in Nat : h = handled(r) /\ h = handled(q)
        BY <2>0, HandledType
      <3>2. /\ slices[r] = Planned(contrib, h) /\ slices[q] = Planned(contrib, h)
            /\ LastOf(contrib, StopRounds(contrib, h), runSteps[r])
            /\ LastOf(contrib, StopRounds(contrib, h), runSteps[q])
        BY <2>0, <3>1 DEF PlanInv
      <3> QED
        BY <3>2, LastIsUnique
    <2>2. SignalsAccounted
      BY <2>0 DEF AccountInv, SignalsAccounted, CkptRounds, StopRounds, agreed, Agreed
    <2> QED
      BY <2>1, <2>2 DEF SignalsAgreed
  <1> QED
    BY <1>1, SignalInvariance, PTL

-----------------------------------------------------------------------------
(* The barriers of a run without signals.                                  *)

(* A barrier determines the one that follows it: after a checkpoint, or    *)
(* after the start, it is the first step that is due or the end of the run.*)
LEMMA FollowsUnique ==
  ASSUME NEW b \in Entered, NEW c \in Entered, NEW e \in Entered, Follows(b, c), Follows(b, e)
  PROVE  c = e
  <1>1. /\ c[2] \in Nat /\ e[2] \in Nat /\ b[2] \in Nat
        /\ c[1] = e[1] /\ c[2] = e[2] => c = e
    BY EnteredPair
  <1>2. low(b) \in Nat
    BY <1>1 DEF low
  <1>3. RunSteps \in Nat
    BY SimulationConstants
  <1>4. CASE b[1] = "same step"
    <2>1. At(c, "all saved", b[2]) /\ At(e, "all saved", b[2])
      BY <1>4 DEF Follows
    <2> QED
      BY <1>1, <2>1 DEF At
  <1>5. CASE b[1] = "final"
    <2>1. At(c, "init", 0) /\ At(e, "init", 0)
      BY <1>5 DEF Follows
    <2> QED
      BY <1>1, <2>1 DEF At
  <1>6. CASE b[1] \in {"init", "all saved"}
    <2>1. /\ \/ c[1] = "same step" /\ due(c[2]) /\ c[2] <= RunSteps /\ Clear(b, c[2])
             \/ At(c, "final", RunSteps) /\ Clear(b, RunSteps + 1)
          /\ \/ e[1] = "same step" /\ due(e[2]) /\ e[2] <= RunSteps /\ Clear(b, e[2])
             \/ At(e, "final", RunSteps) /\ Clear(b, RunSteps + 1)
      BY <1>6 DEF Follows
    <2>2. ASSUME NEW s \in Nat, NEW t \in Nat, Clear(b, s), Clear(b, t), due(s), s < t
          PROVE  FALSE
      <3>1. low(b) <= s /\ \A u \in low(b) .. t - 1 : ~due(u)
        BY <2>2 DEF Clear
      <3>2. s \in low(b) .. t - 1
        BY <1>2, <2>2, <3>1
      <3> QED
        BY <2>2, <3>1, <3>2
    <2>3. CASE c[1] = "same step" /\ due(c[2]) /\ Clear(b, c[2]) /\ e[1] = "same step"
               /\ due(e[2]) /\ Clear(b, e[2])
      <3>1. ~(c[2] < e[2]) /\ ~(e[2] < c[2])
        BY <1>1, <2>2, <2>3
      <3>2. c[2] = e[2]
        BY <1>1, <3>1
      <3> QED
        BY <1>1, <2>3, <3>2
    <2>4. ASSUME NEW s \in Nat, due(s), s <= RunSteps, Clear(b, s), Clear(b, RunSteps + 1)
          PROVE  FALSE
      <3>1. RunSteps + 1 \in Nat /\ s < RunSteps + 1
        BY <1>3, <2>4
      <3> QED
        BY <2>2, <2>4, <3>1
    <2>5. CASE At(c, "final", RunSteps) /\ At(e, "final", RunSteps)
      BY <1>1, <2>5 DEF At
    <2> QED
      BY <1>1, <2>1, <2>3, <2>4, <2>5
  <1>7. b[1] \in {"init", "same step", "all saved", "final"}
    BY EnteredPair
  <1> QED
    BY <1>4, <1>5, <1>6, <1>7

(* The sequence stays one a rank may have entered when the barrier that    *)
(* follows is added.                                                       *)
LEMMA ChainExtends ==
  ASSUME NEW s \in Seq(Entered), NEW t \in Seq(Entered), NEW c \in Entered, Chain(s),
         Len(t) = Len(s) + 1, \A n \in 1 .. Len(s) : t[n] = s[n], t[Len(s) + 1] = c,
         IF s = <<>> THEN At(c, "init", 0) ELSE Follows(LastBarrier(s), c)
  PROVE  Chain(t)
  <1>1. Len(s) \in Nat /\ (s = <<>> <=> Len(s) = 0)
    BY LenProperties, EmptySeq
  <1>2. At(t[1], "init", 0)
    <2>1. CASE s = <<>>
      BY <1>1, <2>1
    <2>2. CASE s # <<>>
      <3>1. 1 \in 1 .. Len(s)
        BY <1>1, <2>2
      <3> QED
        BY <2>2, <3>1 DEF Chain
    <2> QED
      BY <2>1, <2>2
  <1>3. ASSUME NEW n \in 1 .. Len(t) - 1
        PROVE  Follows(t[n], t[n + 1])
    <2>1. n \in 1 .. Len(s) /\ t[n] = s[n] /\ s # <<>>
      BY <1>1
    <2>2. CASE n = Len(s)
      BY <2>1, <2>2 DEF LastBarrier
    <2>3. CASE n # Len(s)
      <3>1. n \in 1 .. Len(s) - 1 /\ n + 1 \in 1 .. Len(s)
        BY <1>1, <2>1, <2>3
      <3> QED
        BY <2>1, <3>1 DEF Chain
    <2> QED
      BY <2>2, <2>3
  <1> QED
    BY <1>2, <1>3 DEF Chain

(* Rank r enters barrier c, which follows its last one.                    *)
Enters(r, c) ==
    /\ barriers' = [barriers EXCEPT ![r] = Append(@, c)] /\ file' = file
    /\ IF barriers[r] = <<>> THEN At(c, "init", 0) ELSE Follows(LastBarrier(barriers[r]), c)
    /\ \A q \in Ranks : saved[q] \subseteq saved'[q]
    /\ c[1] = "all saved" => c[2] \in saved'[r]
    /\ pc'[r] # "write" /\ Placed(pc'[r], step'[r], barriers'[r])
    /\ \A q \in Ranks : q # r => pc'[q] = pc[q] /\ step'[q] = step[q]

(* The ranks still agree, and what was announced as saved is saved.        *)
LEMMA EnterPreserves ==
  ASSUME BInv, TypeOK', NoSignals', NEW r \in Ranks, NEW c \in Entered, Enters(r, c)
  PROVE  BInv'
  <1>0. /\ TypeOK /\ ChainInv /\ PlaceInv /\ BarriersMatch /\ SavedInv /\ CheckpointComplete
        /\ barriers \in [Ranks -> Seq(Entered)]
    BY DEF BInv, TypeOK
  <1>1. /\ barriers' \in [Ranks -> Seq(Entered)]
        /\ Len(barriers[r]) \in Nat /\ Len(barriers'[r]) = Len(barriers[r]) + 1
        /\ barriers'[r][Len(barriers[r]) + 1] = c
        /\ \A n \in 1 .. Len(barriers[r]) : barriers'[r][n] = barriers[r][n]
        /\ \A q \in Ranks : q # r => barriers'[q] = barriers[q]
    <2>1. barriers' = [barriers EXCEPT ![r] = Append(@, c)]
      BY DEF Enters
    <2> QED
      BY <1>0, <2>1, BarrierRecorded
  <1>2. \A q \in Ranks : Len(barriers[q]) \in Nat /\ Len(barriers'[q]) \in Nat
                         /\ Len(barriers[q]) <= Len(barriers'[q])
    <2>1. \A q \in Ranks : Len(barriers[q]) \in Nat
      BY <1>0, LenProperties
    <2> QED
      BY <1>1, <2>1
  <1>4. Chain(barriers'[r])
    <2>1. barriers[r] \in Seq(Entered) /\ barriers'[r] \in Seq(Entered) /\ Chain(barriers[r])
      BY <1>0, <1>1 DEF ChainInv
    <2>2. IF barriers[r] = <<>> THEN At(c, "init", 0) ELSE Follows(LastBarrier(barriers[r]), c)
      BY DEF Enters
    <2> QED
      BY <1>1, <2>1, <2>2, ChainExtends
  <1>5. ChainInv'
    BY <1>0, <1>1, <1>4 DEF ChainInv
  <1>6. PlaceInv'
    BY <1>0, <1>1 DEF PlaceInv, Enters
  <1>7. ASSUME NEW q \in Ranks, q # r, Len(barriers[q]) >= Len(barriers[r]) + 1
        PROVE  barriers[q][Len(barriers[r]) + 1] = c
    <2> DEFINE m == Len(barriers[r])
    <2>1. m \in Nat /\ Len(barriers[q]) \in Nat /\ Chain(barriers[q]) /\ barriers[q] \in Seq(Entered)
      BY <1>0, <1>2 DEF ChainInv
    <2>2. CASE barriers[r] = <<>>
      <3>1. m = 0 /\ Len(barriers[q]) # 0
        BY <1>7, <2>1, <2>2, EmptySeq
      <3>2. barriers[q] # <<>>
        BY <3>1, EmptySeq
      <3>3. At(barriers[q][1], "init", 0) /\ At(c, "init", 0)
        BY <2>1, <2>2, <3>2 DEF Chain, Enters
      <3>4. 1 \in 1 .. Len(barriers[q])
        BY <2>1, <3>1
      <3>5. barriers[q][1] \in Entered
        BY <2>1, <3>4, ElementOfSeq
      <3>6. barriers[q][1] = c
        <4>1. barriers[q][1][1] = c[1] /\ barriers[q][1][2] = c[2]
          BY <3>3 DEF At
        <4> QED
          BY <3>5, <4>1, EnteredPair
      <3> QED
        BY <3>1, <3>6
    <2>3. CASE barriers[r] # <<>>
      <3>1. m # 0
        BY <1>0, <2>3, EmptySeq
      <3>2. m \in 1 .. Len(barriers[q]) - 1 /\ m \in 1 .. Len(barriers[q]) /\ m \in 1 .. m
            /\ m + 1 \in 1 .. Len(barriers[q]) /\ m <= Len(barriers[q])
        BY <1>7, <2>1, <3>1
      <3>3. Follows(barriers[q][m], barriers[q][m + 1])
        BY <2>1, <3>2 DEF Chain
      <3>4. barriers[q][m] = barriers[r][m]
        BY <1>0, <3>2 DEF BarriersMatch
      <3>5. Follows(barriers[r][m], c)
        BY <2>3 DEF LastBarrier, Enters
      <3>6. barriers[q][m] \in Entered /\ barriers[q][m + 1] \in Entered
        BY <2>1, <3>2, ElementOfSeq
      <3> QED
        BY <3>3, <3>4, <3>5, <3>6, FollowsUnique
    <2> QED
      BY <2>2, <2>3
  <1>8. BarriersMatch'
    <2> SUFFICES ASSUME NEW p \in Ranks, NEW q \in Ranks, NEW n \in 1 .. Len(barriers'[p]),
                        n <= Len(barriers'[q])
                 PROVE  barriers'[p][n] = barriers'[q][n]
      BY DEF BarriersMatch
    <2>1. n \in Nat /\ n >= 1
      BY <1>2
    <2>2. CASE n <= Len(barriers[p]) /\ n <= Len(barriers[q])
      <3>1. n \in 1 .. Len(barriers[p]) /\ n \in 1 .. Len(barriers[q])
        BY <1>2, <2>1, <2>2
      <3>2. barriers[p][n] = barriers[q][n]
        BY <1>0, <2>2, <3>1 DEF BarriersMatch
      <3>3. barriers'[p][n] = barriers[p][n] /\ barriers'[q][n] = barriers[q][n]
        BY <1>1, <3>1
      <3> QED
        BY <3>2, <3>3
    <2>3. CASE ~(n <= Len(barriers[p]))
      <3>1. p = r /\ n = Len(barriers[r]) + 1
        <4>1. p = r
          BY <1>1, <1>2, <2>1, <2>3
        <4> QED
          BY <1>1, <1>2, <2>1, <2>3, <4>1
      <3>2. q # r => Len(barriers[q]) >= Len(barriers[r]) + 1
        BY <1>1, <3>1
      <3>3. q # r => barriers'[q][n] = c
        BY <1>1, <1>7, <3>1, <3>2
      <3> QED
        BY <1>1, <3>1, <3>3
    <2>4. CASE ~(n <= Len(barriers[q]))
      <3>1. q = r /\ n = Len(barriers[r]) + 1
        <4>1. q = r
          BY <1>1, <1>2, <2>1, <2>4
        <4> QED
          BY <1>1, <1>2, <2>1, <2>4, <4>1
      <3>2. p # r => Len(barriers[p]) >= Len(barriers[r]) + 1
        BY <1>1, <1>2, <2>1, <3>1
      <3>3. p # r => barriers'[p][n] = c
        BY <1>1, <1>7, <3>1, <3>2
      <3> QED
        BY <1>1, <3>1, <3>3
    <2> QED
      BY <2>2, <2>3, <2>4
  <1>9. SavedInv'
    <2> SUFFICES ASSUME NEW q \in Ranks
                 PROVE  /\ \A n \in 1 .. Len(barriers'[q]) :
                              barriers'[q][n][1] = "all saved" => barriers'[q][n][2] \in saved'[q]
                        /\ pc'[q] = "write" => \A p \in Ranks : Len(barriers'[p]) >= Len(barriers'[q])
      BY DEF SavedInv, allEntered
    <2>1. ASSUME NEW n \in 1 .. Len(barriers'[q]), barriers'[q][n][1] = "all saved"
          PROVE  barriers'[q][n][2] \in saved'[q]
      <3>1. CASE n \in 1 .. Len(barriers[q])
        <4>1. barriers'[q][n] = barriers[q][n]
          BY <1>1, <3>1
        <4> QED
          BY <1>0, <2>1, <3>1, <4>1 DEF SavedInv, Enters
      <3>2. CASE n \notin 1 .. Len(barriers[q])
        <4>1. q = r
          BY <1>1, <3>2
        <4>2. n = Len(barriers[r]) + 1
          BY <1>1, <3>2, <4>1
        <4>3. barriers'[q][n] = c
          BY <1>1, <4>1, <4>2
        <4> QED
          BY <2>1, <4>1, <4>3 DEF Enters
      <3> QED
        BY <3>1, <3>2
    <2>2. ASSUME pc'[q] = "write", NEW p \in Ranks
          PROVE  Len(barriers'[p]) >= Len(barriers'[q])
      <3>1. q # r /\ pc[q] = "write" /\ barriers'[q] = barriers[q]
        BY <1>1, <2>2 DEF Enters
      <3>2. Len(barriers[p]) >= Len(barriers[q])
        BY <1>0, <3>1 DEF SavedInv, allEntered
      <3> QED
        BY <1>2, <3>1, <3>2
    <2> QED
      BY <2>1, <2>2
  <1>10. CheckpointComplete'
    <2>1. file' = file /\ \A q \in Ranks : saved[q] \subseteq saved'[q]
      BY DEF Enters
    <2> QED
      BY <1>0, <2>1 DEF CheckpointComplete
  <1> QED
    BY <1>5, <1>6, <1>8, <1>9, <1>10 DEF BInv

(* A rank moves on without entering a barrier.                             *)
LEMMA StayPreserves ==
  ASSUME BInv, TypeOK', NoSignals', NEW r \in Ranks,
         UNCHANGED <<barriers, saved>>,
         pc'[r] = "write" => allEntered(r),
         Placed(pc'[r], step'[r], barriers[r]),
         \A q \in Ranks : q # r => pc'[q] = pc[q] /\ step'[q] = step[q],
         CheckpointComplete'
  PROVE  BInv'
  <1>0. ChainInv /\ PlaceInv /\ BarriersMatch /\ SavedInv
    BY DEF BInv
  <1>1. ChainInv' /\ BarriersMatch'
    BY <1>0 DEF ChainInv, BarriersMatch
  <1>2. PlaceInv'
    BY <1>0 DEF PlaceInv
  <1>3. SavedInv'
    BY <1>0 DEF SavedInv, allEntered
  <1> QED
    BY <1>1, <1>2, <1>3 DEF BInv

(* Without signals checkSignals does nothing.                              *)
LEMMA QuietSignals ==
  ASSUME TypeOK, NoSignals, NEW r \in Ranks
  PROVE  ~runResult(r) /\ (checkSignals(r) => NoSignals' /\ slices'[r] = {})
  <1>1. /\ result[r] = "none" /\ ckpt[r] = 0 /\ stop[r] = 0 /\ contrib[r] = <<>>
        /\ slices[r] = {} /\ runSteps[r] = RunSteps
    BY DEF NoSignals
  <1>2. ~runResult(r)
    BY <1>1 DEF runResult
  <1>3. ASSUME checkSignals(r)
        PROVE  NoSignals' /\ slices'[r] = {}
    <2>1. /\ ~decision(r).ckpt /\ ~decision(r).stop
          /\ released(r, decision(r)).ckpt = 0 /\ released(r, decision(r)).stop = 0
      <3>1. decision(r).ckpt = FALSE /\ decision(r).stop = FALSE
        BY <1>1 DEF decision
      <3>2. released(r, decision(r)).ckpt = 0 - 0 /\ released(r, decision(r)).stop = 0 - 0
        BY <1>1, <3>1 DEF released
      <3> QED
        BY <3>1, <3>2
    <2>2. ~received(released(r, decision(r)).ckpt, released(r, decision(r)).stop)
      BY <2>1 DEF received
    <2>3. contrib' = contrib
      BY <1>3, <2>2 DEF checkSignals
    <2>4. /\ ckpt' = [ckpt EXCEPT ![r] = 0] /\ stop' = [stop EXCEPT ![r] = 0]
          /\ slices' = [slices EXCEPT ![r] = @] /\ runSteps' = [runSteps EXCEPT ![r] = @]
      BY <1>3, <2>1 DEF checkSignals, applied
    <2>5. result' = [result EXCEPT ![r] = "none"]
      BY <1>1, <1>3, <2>2 DEF checkSignals
    <2>6. \A q \in Ranks : /\ ckpt'[q] = ckpt[q] /\ stop'[q] = stop[q] /\ slices'[q] = slices[q]
                           /\ runSteps'[q] = runSteps[q] /\ result'[q] = result[q]
      BY <1>1, <2>4, <2>5 DEF TypeOK
    <2> QED
      BY <1>1, <2>3, <2>6 DEF NoSignals
  <1> QED
    BY <1>2, <1>3

(* A step s is clear when the one before is clear and not due.             *)
LEMMA ClearFacts ==
  ASSUME NEW b \in Entered, NEW s \in Nat
  PROVE  /\ Clear(b, s) /\ ~due(s) => Clear(b, s + 1)
         /\ At(b, "init", 0) => Clear(b, 0)
         /\ At(b, "all saved", s) => Clear(b, s + 1)
  <1>1. low(b) \in Nat
    <2>1. b[2] \in Nat
      BY EnteredPair
    <2> QED
      BY <2>1 DEF low
  <1>2. ASSUME Clear(b, s), ~due(s)
        PROVE  Clear(b, s + 1)
    <2>1. low(b) <= s /\ \A t \in low(b) .. s - 1 : ~due(t)
      BY <1>2 DEF Clear
    <2>2. low(b) <= s + 1 /\ \A t \in low(b) .. (s + 1) - 1 : t = s \/ t \in low(b) .. s - 1
      BY <1>1, <2>1
    <2> QED
      BY <1>2, <2>1, <2>2 DEF Clear
  <1>3. ASSUME At(b, "init", 0)
        PROVE  Clear(b, 0)
    <2>1. low(b) = 0
      BY <1>3 DEF low, At
    <2> QED
      BY <2>1 DEF Clear
  <1>4. ASSUME At(b, "all saved", s)
        PROVE  Clear(b, s + 1)
    <2>1. low(b) = s + 1
      BY <1>4 DEF low, At
    <2> QED
      BY <2>1 DEF Clear
  <1> QED
    BY <1>2, <1>3, <1>4

(* The last barrier of a rank that has entered one.                        *)
LEMMA LastType ==
  ASSUME TypeOK, NEW r \in Ranks, barriers[r] # <<>>
  PROVE  LastBarrier(barriers[r]) \in Entered
  <1>1. barriers[r] \in Seq(Entered)
    BY DEF TypeOK
  <1>2. Len(barriers[r]) \in Nat /\ Len(barriers[r]) # 0
    BY <1>1, LenProperties, EmptySeq
  <1>3. Len(barriers[r]) \in 1 .. Len(barriers[r])
    BY <1>2
  <1> QED
    BY <1>1, <1>3, ElementOfSeq DEF LastBarrier

(* Without signals the control thread's steps keep it so.                  *)
LEMMA QuietControl ==
  ASSUME TypeOK, NoSignals, NEW r \in Ranks, Control(r)
  PROVE  NoSignals' /\ ~Pump(r) /\ ~FinalPump(r)
  <1>1. CASE Restart(r) \/ LeaveBarrier(r) \/ CheckpointPlugins(r) \/ WriteCheckpoint(r) \/ Loop(r)
             \/ RunOneStep(r) \/ LeaveFinal(r) \/ Destroy(r)
    <2>1. UNCHANGED <<runSteps, slices, ckpt, stop, contrib, result>>
      BY <1>1 DEF Restart, LeaveBarrier, CheckpointPlugins, WriteCheckpoint, Loop, RunOneStep,
                  LeaveFinal, Destroy, planVars, signalVars
    <2>2. NoSignals'
      BY <2>1 DEF NoSignals
    <2> QED
      BY <2>2, QuietSignals DEF Pump, FinalPump
  <1>2. CASE Pump(r) \/ FinalPump(r)
    BY <1>2, QuietSignals DEF Pump, FinalPump
  <1>3. CASE NotifyPlugins(r) \/ DumpOneStep(r) \/ Progress(r)
    <2>1. checkSignals(r)
      BY <1>3 DEF NotifyPlugins, DumpOneStep, Progress
    <2> QED
      BY <2>1, QuietSignals DEF Pump, FinalPump
  <1> QED
    BY <1>1, <1>2, <1>3 DEF Control

(* The control thread enters the barriers in the one order there is.       *)
LEMMA ControlPreserves ==
  ASSUME BInv, TypeOK', NEW r \in Ranks, Control(r)
  PROVE  BInv'
  <1> DEFINE last == LastBarrier(barriers[r])
  <1>0. /\ TypeOK /\ NoSignals /\ BarriersMatch /\ SavedInv /\ CheckpointComplete
        /\ Placed(pc[r], step[r], barriers[r])
    BY DEF BInv, PlaceInv
  <1>1. NoSignals' /\ ~Pump(r) /\ ~FinalPump(r)
    BY <1>0, QuietControl
  <1>2. step[r] \in Nat /\ RunSteps \in Nat /\ step \in [Ranks -> Nat] /\ runSteps[r] = RunSteps
    BY <1>0, SimulationConstants DEF TypeOK, NoSignals
  <1>3. barriers[r] # <<>> => last \in Entered
    BY <1>0, LastType
  <1>4. pc \in [Ranks -> {"restart", "init", "notify", "dump", "same step", "save", "all saved",
                          "write", "loop", "run", "progress", "final", "destroy", "gone"}]
    BY <1>0 DEF TypeOK
  <1> HIDE DEF last
  <1>5. CASE Restart(r)
    <2>1. CASE attempts[r] <= SoftRestarts
      <3>1. /\ step' = [step EXCEPT ![r] = 0] /\ enterBarrier(r, "init", 0)
            /\ pc' = [pc EXCEPT ![r] = "init"] /\ saved' = saved /\ file' = file /\ pc[r] = "restart"
        BY <1>5, <2>1 DEF Restart
      <3>2. PICK c \in Entered : At(c, "init", 0) /\ barriers' = [barriers EXCEPT ![r] = Append(@, c)]
        BY <1>0, <3>1, BarrierEntered
      <3>3. barriers'[r] # <<>> /\ LastBarrier(barriers'[r]) = c
        BY <1>0, <3>2, BarrierRecorded
      <3>4. /\ pc'[r] = "init" /\ step'[r] = 0
            /\ \A q \in Ranks : q # r => pc'[q] = pc[q] /\ step'[q] = step[q]
        BY <1>2, <1>4, <3>1
      <3>5. Placed("init", 0, barriers'[r])
        BY <1>2, <3>2, <3>3 DEF Placed
      <3>6. barriers[r] # <<>> => Follows(last, c)
        BY <1>0, <3>1, <3>2 DEF Placed, Follows, last
      <3>7. c[1] # "all saved"
        BY <3>2 DEF At
      <3>8. Enters(r, c)
        BY <3>1, <3>2, <3>4, <3>5, <3>6, <3>7 DEF Enters, last
      <3> QED
        BY <1>1, <3>8, EnterPreserves
    <2>2. CASE ~(attempts[r] <= SoftRestarts)
      <3>1. /\ pc' = [pc EXCEPT ![r] = "destroy"]
            /\ UNCHANGED <<attempts, step, barriers, saved, file>>
        BY <1>5, <2>2 DEF Restart
      <3>2. pc'[r] = "destroy" /\ \A q \in Ranks : q # r => pc'[q] = pc[q]
        BY <1>4, <3>1
      <3>3. Placed("destroy", step[r], barriers[r])
        BY <1>0 DEF Placed
      <3>4. CheckpointComplete'
        BY <1>0, <3>1 DEF CheckpointComplete
      <3> QED
        BY <1>1, <3>1, <3>2, <3>3, <3>4, StayPreserves
    <2> QED
      BY <2>1, <2>2
  <1>6. CASE LeaveBarrier(r)
    <2>1. /\ UNCHANGED <<step, barriers, saved, file>> /\ allEntered(r)
          /\ pc[r] \in {"init", "same step", "all saved"}
      BY <1>6 DEF LeaveBarrier
    <2>2. CheckpointComplete'
      BY <1>0, <2>1 DEF CheckpointComplete
    <2>3. CASE pc[r] = "init"
      <3>1. pc' = [pc EXCEPT ![r] = "notify"]
        BY <1>6, <2>3 DEF LeaveBarrier
      <3>2. pc'[r] = "notify" /\ \A q \in Ranks : q # r => pc'[q] = pc[q]
        BY <1>4, <3>1
      <3>3. barriers[r] # <<>> /\ At(last, "init", 0) /\ step[r] = 0 /\ step[r] <= RunSteps
        BY <1>0, <2>3 DEF Placed, last
      <3>4. Clear(last, 0)
        BY <1>3, <3>3, ClearFacts
      <3>5. Placed("notify", step[r], barriers[r])
        BY <3>3, <3>4 DEF Placed, last, At
      <3> QED
        BY <1>1, <2>1, <2>2, <3>2, <3>5, StayPreserves
    <2>4. CASE pc[r] = "same step"
      <3>1. pc' = [pc EXCEPT ![r] = "save"]
        BY <1>6, <2>4 DEF LeaveBarrier
      <3>2. pc'[r] = "save" /\ \A q \in Ranks : q # r => pc'[q] = pc[q]
        BY <1>4, <3>1
      <3>3. Placed("save", step[r], barriers[r])
        BY <1>0, <2>4 DEF Placed
      <3> QED
        BY <1>1, <2>1, <2>2, <3>2, <3>3, StayPreserves
    <2>5. CASE pc[r] = "all saved"
      <3>1. pc' = [pc EXCEPT ![r] = "write"]
        BY <1>6, <2>5 DEF LeaveBarrier
      <3>2. pc'[r] = "write" /\ \A q \in Ranks : q # r => pc'[q] = pc[q]
        BY <1>4, <3>1
      <3>3. Placed("write", step[r], barriers[r])
        BY <1>0, <2>5 DEF Placed
      <3> QED
        BY <1>1, <2>1, <2>2, <3>2, <3>3, StayPreserves
    <2> QED
      BY <2>1, <2>3, <2>4, <2>5
  <1>7. CASE NotifyPlugins(r)
    <2>1. pc' = [pc EXCEPT ![r] = "dump"] /\ UNCHANGED <<step, barriers, saved, file>> /\ pc[r] = "notify"
      BY <1>7 DEF NotifyPlugins
    <2>2. pc'[r] = "dump" /\ \A q \in Ranks : q # r => pc'[q] = pc[q]
      BY <1>4, <2>1
    <2>3. Placed("dump", step[r], barriers[r])
      BY <1>0, <2>1 DEF Placed
    <2>4. CheckpointComplete'
      BY <1>0, <2>1 DEF CheckpointComplete
    <2> QED
      BY <1>1, <2>1, <2>2, <2>3, <2>4, StayPreserves
  <1>8. CASE DumpOneStep(r)
    <2>1. pc[r] = "dump" /\ checkSignals(r) /\ UNCHANGED <<step, saved, file>>
      BY <1>8 DEF DumpOneStep
    <2>2. slices'[r] = {}
      BY <1>0, <2>1, QuietSignals
    <2>3. /\ barriers[r] # <<>> /\ last[1] \in {"init", "all saved"} /\ Clear(last, step[r])
          /\ step[r] <= RunSteps
      BY <1>0, <2>1 DEF Placed, last
    <2>4. CASE due(step[r])
      <3>1. enterBarrier(r, "same step", step[r]) /\ pc' = [pc EXCEPT ![r] = "same step"]
        BY <1>8, <2>2, <2>4 DEF DumpOneStep, due, containsStep
      <3>2. PICK c \in Entered : /\ At(c, "same step", step[r])
                                 /\ barriers' = [barriers EXCEPT ![r] = Append(@, c)]
        BY <1>0, <1>2, <3>1, BarrierEntered
      <3>3. barriers'[r] # <<>> /\ LastBarrier(barriers'[r]) = c
        BY <1>0, <3>2, BarrierRecorded
      <3>4. pc'[r] = "same step" /\ \A q \in Ranks : q # r => pc'[q] = pc[q]
        BY <1>4, <3>1
      <3>5. Placed("same step", step[r], barriers'[r])
        BY <2>3, <3>2, <3>3 DEF Placed
      <3>6. Follows(last, c)
        BY <2>3, <2>4, <3>2 DEF Follows, At
      <3>7. c[1] # "all saved"
        BY <3>2 DEF At
      <3>8. Enters(r, c)
        BY <2>1, <2>3, <3>2, <3>4, <3>5, <3>6, <3>7 DEF Enters, last
      <3> QED
        BY <1>1, <3>8, EnterPreserves
    <2>5. CASE ~due(step[r])
      <3>1. barriers' = barriers /\ pc' = [pc EXCEPT ![r] = "loop"]
        BY <1>8, <2>2, <2>5 DEF DumpOneStep, due, containsStep
      <3>2. pc'[r] = "loop" /\ \A q \in Ranks : q # r => pc'[q] = pc[q]
        BY <1>4, <3>1
      <3>3. Clear(last, step[r] + 1)
        BY <1>2, <1>3, <2>3, <2>5, ClearFacts
      <3>4. Placed("loop", step[r], barriers[r])
        BY <2>3, <3>3 DEF Placed, last
      <3>5. CheckpointComplete'
        BY <1>0, <2>1 DEF CheckpointComplete
      <3> QED
        BY <1>1, <2>1, <3>1, <3>2, <3>4, <3>5, StayPreserves
    <2> QED
      BY <2>4, <2>5
  <1>9. CASE CheckpointPlugins(r)
    <2>1. /\ saved' = [saved EXCEPT ![r] = @ \cup {step[r]}] /\ pc[r] = "save"
          /\ enterBarrier(r, "all saved", step[r])
          /\ pc' = [pc EXCEPT ![r] = "all saved"] /\ UNCHANGED <<step, file>>
      BY <1>9 DEF CheckpointPlugins
    <2>2. saved \in [Ranks -> SUBSET Nat]
      BY <1>0 DEF TypeOK
    <2>3. step[r] \in saved'[r] /\ \A q \in Ranks : saved[q] \subseteq saved'[q]
      BY <2>1, <2>2
    <2>4. PICK c \in Entered : /\ At(c, "all saved", step[r])
                               /\ barriers' = [barriers EXCEPT ![r] = Append(@, c)]
      BY <1>0, <1>2, <2>1, BarrierEntered
    <2>5. barriers'[r] # <<>> /\ LastBarrier(barriers'[r]) = c
      BY <1>0, <2>4, BarrierRecorded
    <2>6. pc'[r] = "all saved" /\ \A q \in Ranks : q # r => pc'[q] = pc[q]
      BY <1>4, <2>1
    <2>7. barriers[r] # <<>> /\ At(last, "same step", step[r]) /\ step[r] <= RunSteps
      BY <1>0, <2>1 DEF Placed, last
    <2>8. Placed("all saved", step[r], barriers'[r])
      BY <2>4, <2>5, <2>7 DEF Placed
    <2>9. Follows(last, c)
      BY <2>4, <2>7 DEF Follows, At
    <2>10. c[1] = "all saved" /\ c[2] \in saved'[r]
      BY <2>3, <2>4 DEF At
    <2>11. Enters(r, c)
      BY <2>1, <2>3, <2>4, <2>6, <2>7, <2>8, <2>9, <2>10 DEF Enters, last
    <2> QED
      BY <1>1, <2>11, EnterPreserves
  <1>10. CASE WriteCheckpoint(r)
    <2>1. /\ file' = IF r = Root THEN Append(file, step[r]) ELSE file
          /\ pc' = [pc EXCEPT ![r] = "loop"] /\ UNCHANGED <<step, barriers, saved>> /\ pc[r] = "write"
      BY <1>10 DEF WriteCheckpoint
    <2>2. pc'[r] = "loop" /\ \A q \in Ranks : q # r => pc'[q] = pc[q]
      BY <1>4, <2>1
    <2>3. /\ barriers[r] # <<>> /\ At(last, "all saved", step[r]) /\ step[r] <= RunSteps
      BY <1>0, <2>1 DEF Placed, last
    <2>4. Clear(last, step[r] + 1)
      BY <1>2, <1>3, <2>3, ClearFacts
    <2>5. Placed("loop", step[r], barriers[r])
      BY <2>3, <2>4 DEF Placed, last, At
    <2>6. \A q \in Ranks : step[r] \in saved[q]
      <3> TAKE q \in Ranks
      <3> DEFINE n == Len(barriers[r])
      <3>1. Len(barriers[q]) >= n
        BY <1>0, <2>1 DEF SavedInv, allEntered
      <3>2. barriers[r] \in Seq(Entered) /\ barriers[q] \in Seq(Entered)
        BY <1>0 DEF TypeOK
      <3>3. n \in Nat /\ n # 0 /\ Len(barriers[q]) \in Nat
        BY <2>3, <3>2, LenProperties, EmptySeq
      <3>4. n \in 1 .. Len(barriers[r]) /\ n \in 1 .. Len(barriers[q]) /\ n <= Len(barriers[q])
        BY <3>1, <3>3
      <3>5. barriers[r][n] = barriers[q][n]
        BY <1>0, <3>4 DEF BarriersMatch
      <3>6. At(barriers[q][n], "all saved", step[r])
        BY <2>3, <3>5 DEF last, LastBarrier
      <3> QED
        BY <1>0, <3>4, <3>6 DEF SavedInv, At
    <2>7. CheckpointComplete'
      <3>1. CASE r # Root
        BY <1>0, <2>1, <3>1 DEF CheckpointComplete
      <3>2. CASE r = Root
        <4>1. file' = Append(file, step[r]) /\ file \in Seq(Nat)
          BY <1>0, <2>1, <3>2 DEF TypeOK
        <4>2. Len(file) \in Nat /\ DOMAIN file = 1 .. Len(file)
          BY <4>1, LenProperties
        <4>3. /\ file' \in Seq(Nat) /\ Len(file') = Len(file) + 1
              /\ \A i \in 1 .. Len(file) : file'[i] = file[i]
              /\ file'[Len(file) + 1] = step[r]
          BY <1>2, <4>1, AppendProperties
        <4>4. DOMAIN file' = 1 .. Len(file) + 1
          BY <4>3, LenProperties
        <4>5. ASSUME NEW i \in DOMAIN file', NEW q \in Ranks
              PROVE  file'[i] \in saved[q]
          <5>1. i \in DOMAIN file \/ i = Len(file) + 1
            BY <4>2, <4>4
          <5>2. CASE i \in DOMAIN file
            <6>1. file'[i] = file[i]
              BY <4>2, <4>3, <5>2
            <6> QED
              BY <1>0, <5>2, <6>1 DEF CheckpointComplete
          <5>3. CASE i = Len(file) + 1
            BY <2>6, <4>3, <5>3
          <5> QED
            BY <5>1, <5>2, <5>3
        <4> QED
          BY <2>1, <4>5 DEF CheckpointComplete
      <3> QED
        BY <3>1, <3>2
    <2> QED
      BY <1>1, <2>1, <2>2, <2>5, <2>7, StayPreserves
  <1>11. CASE Loop(r)
    <2>0. /\ barriers[r] # <<>> /\ last[1] \in {"init", "all saved"} /\ Clear(last, step[r] + 1)
          /\ step[r] <= RunSteps /\ pc[r] = "loop"
      BY <1>0, <1>11 DEF Loop, Placed, last
    <2>1. UNCHANGED <<step, saved, file>>
      BY <1>11 DEF Loop
    <2>2. CASE step[r] < RunSteps
      <3>1. pc' = [pc EXCEPT ![r] = "run"] /\ barriers' = barriers
        BY <1>2, <1>11, <2>2 DEF Loop
      <3>2. pc'[r] = "run" /\ \A q \in Ranks : q # r => pc'[q] = pc[q]
        BY <1>4, <3>1
      <3>3. Placed("run", step[r], barriers[r])
        BY <2>0, <2>2 DEF Placed, last
      <3>4. CheckpointComplete'
        BY <1>0, <2>1 DEF CheckpointComplete
      <3> QED
        BY <1>1, <2>1, <3>1, <3>2, <3>3, <3>4, StayPreserves
    <2>3. CASE ~(step[r] < RunSteps)
      <3>1. pc' = [pc EXCEPT ![r] = "progress"] /\ enterBarrier(r, "final", step[r])
        BY <1>2, <1>11, <2>3 DEF Loop
      <3>2. PICK c \in Entered : /\ At(c, "final", step[r])
                                 /\ barriers' = [barriers EXCEPT ![r] = Append(@, c)]
        BY <1>0, <1>2, <3>1, BarrierEntered
      <3>3. barriers'[r] # <<>> /\ LastBarrier(barriers'[r]) = c
        BY <1>0, <3>2, BarrierRecorded
      <3>4. pc'[r] = "progress" /\ \A q \in Ranks : q # r => pc'[q] = pc[q]
        BY <1>4, <3>1
      <3>5. Placed("progress", step[r], barriers'[r])
        BY <2>0, <3>2, <3>3 DEF Placed, At
      <3>6. step[r] = RunSteps
        <4>1. step[r] \in Nat /\ RunSteps \in Nat /\ step[r] <= RunSteps
          BY <1>2, <2>0
        <4> QED
          BY <2>3, <4>1
      <3>7. Follows(last, c)
        BY <2>0, <3>2, <3>6 DEF Follows
      <3>8. c[1] # "all saved"
        BY <3>2 DEF At
      <3>9. Enters(r, c)
        BY <2>0, <2>1, <3>2, <3>4, <3>5, <3>7, <3>8 DEF Enters, last
      <3> QED
        BY <1>1, <3>9, EnterPreserves
    <2> QED
      BY <2>2, <2>3
  <1>12. CASE RunOneStep(r)
    <2>1. /\ step' = [step EXCEPT ![r] = @ + 1] /\ pc' = [pc EXCEPT ![r] = "notify"]
          /\ UNCHANGED <<barriers, saved, file>> /\ pc[r] = "run"
      BY <1>12 DEF RunOneStep
    <2>2. pc'[r] = "notify" /\ \A q \in Ranks : q # r => pc'[q] = pc[q]
      BY <1>4, <2>1
    <2>3. step'[r] = step[r] + 1 /\ \A q \in Ranks : q # r => step'[q] = step[q]
      BY <1>2, <2>1
    <2>4. /\ barriers[r] # <<>> /\ last[1] \in {"init", "all saved"} /\ Clear(last, step[r] + 1)
          /\ step[r] < RunSteps
      BY <1>0, <2>1 DEF Placed, last
    <2>5. step[r] + 1 <= RunSteps
      <3>1. step[r] \in Nat /\ RunSteps \in Nat /\ step[r] < RunSteps
        BY <1>2, <2>4
      <3> QED
        BY <3>1
    <2>6. Placed("notify", step[r] + 1, barriers[r])
      BY <2>4, <2>5 DEF Placed, last
    <2>7. CheckpointComplete'
      BY <1>0, <2>1 DEF CheckpointComplete
    <2> QED
      BY <1>1, <2>1, <2>2, <2>3, <2>6, <2>7, StayPreserves
  <1>13. CASE Progress(r) \/ LeaveFinal(r) \/ Destroy(r)
    <2>1. UNCHANGED <<step, barriers, saved, file>>
      BY <1>13 DEF Progress, LeaveFinal, Destroy
    <2>2. PICK p \in {"final", "restart", "gone"} : pc' = [pc EXCEPT ![r] = p]
                                                   /\ (p # "gone" => pc[r] \in {"progress", "final"})
      BY <1>13 DEF Progress, LeaveFinal, Destroy
    <2>3. pc'[r] = p /\ \A q \in Ranks : q # r => pc'[q] = pc[q]
      BY <1>4, <2>2
    <2>4. Placed(p, step[r], barriers[r])
      BY <1>0, <2>2 DEF Placed
    <2>5. CheckpointComplete'
      BY <1>0, <2>1 DEF CheckpointComplete
    <2> QED
      BY <1>1, <2>1, <2>3, <2>4, <2>5, StayPreserves
  <1> QED
    BY <1>1, <1>5, <1>6, <1>7, <1>8, <1>9, <1>10, <1>11, <1>12, <1>13 DEF Control

(* Without signals, BInv is inductive.                                     *)
LEMMA BInvInductive ==
  ASSUME Signalled = {}
  PROVE  /\ Init /\ TypeOK => BInv
         /\ BInv /\ TypeOK' /\ [Next]_vars => BInv'
  <1>1. ASSUME Init, TypeOK
        PROVE  BInv
    <2>1. \A r \in Ranks : barriers[r] = <<>> /\ pc[r] = "restart" /\ step[r] = 0
      BY <1>1 DEF Init
    <2>2. Len(<<>>) = 0
      BY EmptySeq
    <2>3. NoSignals
      BY <1>1 DEF Init, NoSignals
    <2>4. ChainInv /\ BarriersMatch
      BY <2>1, <2>2 DEF ChainInv, Chain, BarriersMatch
    <2>5. PlaceInv
      <3>1. 0 <= RunSteps
        BY SimulationConstants
      <3>2. Placed("restart", 0, <<>>)
        BY <3>1 DEF Placed
      <3> QED
        BY <2>1, <3>2 DEF PlaceInv
    <2>6. SavedInv
      <3>1. \A r \in Ranks : Len(barriers[r]) = 0 /\ pc[r] # "write"
        BY <2>1, <2>2
      <3>2. \A r \in Ranks : 1 .. Len(barriers[r]) = {}
        BY <3>1
      <3> QED
        BY <3>1, <3>2, Zenon DEF SavedInv
    <2>7. CheckpointComplete
      BY <1>1 DEF Init, CheckpointComplete
    <2> QED
      BY <1>1, <2>3, <2>4, <2>5, <2>6, <2>7 DEF BInv
  <1>2. ASSUME BInv, TypeOK', [Next]_vars
        PROVE  BInv'
    <2>1. ASSUME NEW r \in Ranks, RaiseCheckpoint(r) \/ RaiseStop(r)
          PROVE  FALSE
      BY <2>1 DEF RaiseCheckpoint, RaiseStop
    <2>2. ASSUME NEW r \in Ranks, ReductionDone(r)
          PROVE  FALSE
      BY <1>2, <2>2 DEF BInv, NoSignals, ReductionDone
    <2>3. ASSUME NEW r \in Ranks, Control(r)
          PROVE  BInv'
      BY <1>2, <2>3, ControlPreserves
    <2>4. CASE UNCHANGED vars
      <3>1. ChainInv' /\ BarriersMatch' /\ NoSignals' /\ CheckpointComplete'
        BY <1>2, <2>4 DEF BInv, vars, ChainInv, BarriersMatch, NoSignals, CheckpointComplete
      <3>2. PlaceInv' /\ SavedInv'
        BY <1>2, <2>4 DEF BInv, vars, PlaceInv, SavedInv, allEntered
      <3> QED
        BY <1>2, <3>1, <3>2 DEF BInv
    <2>5. CASE Over
      BY <2>4, <2>5 DEF Over
    <2> QED
      BY <1>2, <2>1, <2>2, <2>3, <2>4, <2>5 DEF Next
  <1> QED
    BY <1>1, <1>2

(* startSimulation and dumpOneStep of a run that receives no signal: the   *)
(* ranks that meet in a barrier called it at the same place and in the     *)
(* same step, however far apart they run and however often they restart.   *)
THEOREM RanksMeetInTheSameStep ==
  ASSUME Signalled = {}
  PROVE  Spec => []BarriersMatch
  <1>1. BInv => BarriersMatch
    BY DEF BInv
  <1>2. Spec => []BInv
    BY BInvInductive, TypeCorrect, PTL DEF Spec
  <1> QED
    BY <1>1, <1>2, PTL

(* Checkpointing::dump of a run that receives no signal: a step that rank  *)
(* 0 has written into the master file has been saved by the plugins of     *)
(* every rank.                                                             *)
THEOREM ListedCheckpointsAreSaved ==
  ASSUME Signalled = {}
  PROVE  Spec => []CheckpointComplete
  <1>1. BInv => CheckpointComplete
    BY DEF BInv
  <1>2. Spec => []BInv
    BY BInvInductive, TypeCorrect, PTL DEF Spec
  <1> QED
    BY <1>1, <1>2, PTL

(* ... and it computes no step beyond the number it was asked for.         *)
THEOREM NoStepBeyondTheLast ==
  ASSUME Signalled = {}
  PROVE  Spec => []NeverPastRunSteps
  <1>1. BInv => NeverPastRunSteps
    BY DEF BInv, PlaceInv, Placed, NeverPastRunSteps
  <1>2. Spec => []BInv
    BY BInvInductive, TypeCorrect, PTL DEF Spec
  <1> QED
    BY <1>1, <1>2, PTL

-----------------------------------------------------------------------------
(* RunLifecycle: processes that run one after the other in a directory.    *)

Steps == 0 .. LastStep

(* Where the process has its plugins, and where it has its device.         *)
Before == {"parse", "load"}
Equipped == {"plugins", "probe", "loop", "step", "line", "unload"}

(* The values of sim.                                                      *)
Memory == [most : Nat, largest : Nat, by : Nat, found : Nat]
Runs ==
    [restart : {"DISABLED", "TRY", "FORCE", "SUCCESS", "FAILED"}, step : Steps, begun : Nat,
     indices : BOOLEAN, from : {None} \cup Steps, memory : Memory]
USE DEF Memory, Runs

(* What the guards and the properties read has its type.                   *)
LifeTypes ==
    /\ at \in Before \cup Equipped \cup {"unwind", "exit"}
    /\ options \in Options /\ Meaningful(options)
    /\ plugins = [list |-> plugins.list, loaded |-> plugins.loaded]
    /\ history = [processes |-> history.processes, dumps |-> history.dumps,
                  loads |-> history.loads, unloads |-> history.unloads]
    /\ history.dumps \in Nat
    /\ sim \in Runs
    /\ disk.lines \in Seq(Steps)
    /\ disk.of \in [registered -> [Steps -> {None} \cup Nat]]

(* A test allocation is at most one step below one that failed.            *)
MemoryInv ==
    LET m == sim.memory
    IN  /\ m.by <= StepSize /\ m.found <= m.most
        /\ m.found = m.most \/ m.found > m.largest - StepSize
        /\ at # "probe" => m.found <= m.largest

(* Of the dump under way, k plugins have written theirs, and the step is   *)
(* torn from the first of them to the last; then the line may be written.  *)
DumpInv ==
    /\ at \in Before \cup Equipped => plugins.list = UserPlugins
    /\ dump # <<>> => at = "step"
    /\ \E k \in 0 .. Len(UserPlugins) :
          /\ dump # <<>> => dump = SubSeq(UserPlugins, k + 1, Len(UserPlugins)) /\ k < Len(UserPlugins)
          /\ dump # <<>> => \A i \in 1 .. k : disk.of[UserPlugins[i]][sim.step] = history.dumps
          /\ dump # <<>> /\ k > 0 => sim.step \in disk.torn
    /\ at = "line" => dump = <<>> /\ \A p \in registered : disk.of[p][sim.step] = history.dumps

(* A listed step has every plugin's checkpoint, all of one dump if whole.  *)
LineInv ==
    \A s \in ToSet(disk.lines) :
        /\ \A p \in registered : disk.of[p][s] # None
        /\ s \notin disk.torn => \A p, q \in registered : disk.of[p][s] = disk.of[q][s]

(* Until the first round the restart asked for is the one to be done.      *)
AskedInv ==
    /\ sim.begun = 0 => sim.restart = options.restart
    /\ RestartsAsAsked

(* The history of a process that has not unloaded is what it loaded.       *)
UnloadInv ==
    /\ at \notin {"unwind", "exit"} => history.unloads = <<>> /\ plugins.loaded = history.loads
    /\ history.unloads # <<>> => history.unloads = Reverse(history.loads) /\ datasets = <<>>
    /\ at = "exit" => ~sim.indices

(* The device is there from load on; nothing is shared before the start.   *)
DeviceInv ==
    /\ at \in Equipped => env.pool /\ env.device \in 0 .. NumDevices - 1
    /\ at \in Before \cup {"plugins"} => datasets = <<>>
    /\ at = "unwind" /\ datasets # <<>> => env.pool /\ env.device \in 0 .. NumDevices - 1

LifeInv ==
    LifeTypes /\ MemoryInv /\ DumpInv /\ LineInv /\ AskedInv /\ UnloadInv /\ DeviceInv

-----------------------------------------------------------------------------
\* A set of natural numbers that is not empty has a least one.
LEMMA LeastNat ==
    ASSUME NEW T, T \subseteq Nat, T # {}
    PROVE  \E x \in T : \A y \in T : x <= y
<1> DEFINE R == OpToRel(<, Nat)
<1>1. IsWellFoundedOn(R, Nat)
  BY NatLessThanWellFounded
<1>2. \A x, y \in Nat : <<y, x>> \in R <=> y < x
  BY DEF OpToRel
<1> HIDE DEF R
<1>3. \E x \in T : \A y \in T : ~ (<<y, x>> \in R)
  BY <1>1, WFMin
<1>4. PICK x \in T : \A y \in T : ~ (<<y, x>> \in R)
  BY <1>3
<1>5. ASSUME NEW y \in T PROVE x <= y
  <2>1. x \in Nat /\ y \in Nat
    OBVIOUS
  <2>2. ~ (y < x)
    BY <1>2, <1>4, <2>1
  <2> QED BY <2>1, <2>2
<1> QED BY <1>5

\* setDevice takes a device of the node, or none.
LEMMA DeviceOfNode ==
    ASSUME NEW rank \in Nat, NEW tries \in Nat, NEW usable
    PROVE  firstUsable(rank, tries, usable) \in {None} \cup 0 .. NumDevices - 1
<1> DEFINE C == {k \in 0 .. tries - 1 : (k + rank) % NumDevices \in usable}
           k == CHOOSE x \in C : \A y \in C : x <= y
<1>1. CASE C = {}
  BY <1>1 DEF firstUsable
<1>2. CASE C # {}
  <2>1. C \subseteq Nat
    OBVIOUS
  <2>2. \E x \in C : \A y \in C : x <= y
    BY <1>2, <2>1, LeastNat
  <2>3. k \in C
    BY <2>2
  <2>4. firstUsable(rank, tries, usable) = (k + rank) % NumDevices
    BY <1>2 DEF firstUsable
  <2> HIDE DEF k, C
  <2>5. PICK x \in Nat, n \in Nat \ {0} : x = k + rank /\ n = NumDevices
    <3>1. k \in Nat
      BY <2>1, <2>3
    <3> QED BY <3>1, LifecycleAssumption
  <2>6. x % n \in 0 .. n - 1
    OBVIOUS
  <2> QED BY <2>4, <2>5, <2>6
<1> QED BY <1>1, <1>2

\* The first process finds an empty directory.
LEMMA LifeInvInit == LifeInit => LifeInv
<1> SUFFICES ASSUME LifeInit PROVE LifeInv
  OBVIOUS
<1>1. PICK o \in Options : Meaningful(o) /\ Begin(o, NoCheckpoints, 1)
  BY DEF LifeInit
<1>2. LastStep \in Nat /\ 0 \in Steps /\ StepSize \in Nat
  BY LifecycleAssumption DEF Steps
<1>3. o.restart \in {"DISABLED", "TRY", "FORCE"}
  BY DEF Options
<1>4. /\ at = "parse" /\ options = o /\ dump = <<>> /\ datasets = <<>>
      /\ plugins = [list |-> UserPlugins, loaded |-> <<>>]
      /\ sim = [restart |-> o.restart, step |-> 0, begun |-> 0, indices |-> FALSE, from |-> None,
                memory |-> [most |-> 0, largest |-> 0, by |-> 0, found |-> 0]]
      /\ history = [processes |-> 1, dumps |-> 0, loads |-> <<>>, unloads |-> <<>>]
  BY <1>1 DEF Begin, Fresh
<1>5. disk.lines = <<>> /\ disk.of = [p \in registered |-> [s \in Steps |-> None]]
  BY <1>1 DEF Begin, NoCheckpoints, Steps
<1>6. LifeTypes
  BY <1>1, <1>2, <1>3, <1>4, <1>5 DEF LifeTypes, Before
<1>7. MemoryInv
  BY <1>2, <1>4 DEF MemoryInv
<1>8. DumpInv
  <2>1. 0 \in 0 .. Len(UserPlugins)
    BY LifecycleAssumption
  <2> QED BY <1>4, <2>1 DEF DumpInv
<1>9. LineInv
  BY <1>5 DEF LineInv, ToSet
<1>10. AskedInv
  BY <1>4 DEF AskedInv, RestartsAsAsked
<1>11. UnloadInv /\ DeviceInv
  BY <1>4 DEF UnloadInv, DeviceInv, Equipped, Before
<1> QED BY <1>6, <1>7, <1>8, <1>9, <1>10, <1>11 DEF LifeInv

\* What such a step preserves of the dump and of the lines.
LEMMA OutsideKeeps ==
    ASSUME LifeInv, UNCHANGED <<disk, dump>>, sim'.step = sim.step, history'.dumps = history.dumps,
           at' \in Before \cup Equipped => plugins'.list = UserPlugins,
           dump # <<>> => at' = "step", at' = "line" => at = "line"
    PROVE  DumpInv' /\ LineInv'
<1>1. DumpInv'
  BY DEF LifeInv, DumpInv
<1>2. LineInv'
  BY DEF LifeInv, LineInv
<1> QED BY <1>1, <1>2

\* A restart is as asked as long as the run and the checkpoints are what they were.
LEMMA AskedKept ==
    ASSUME LifeInv, UNCHANGED <<options, disk>>, sim'.begun = sim.begun, sim'.from = sim.from,
           sim'.restart = sim.restart
    PROVE  AskedInv'
  BY DEF LifeInv, AskedInv, RestartsAsAsked

LEMMA ParseStep == ASSUME LifeInv, parse PROVE LifeInv'
<1>1. /\ at = "parse" /\ at' \in {"load", "unwind"}
      /\ UNCHANGED <<options, env, datasets, plugins, notified, sim, disk, dump, history>>
  BY DEF parse, go
<1>2. dump = <<>> /\ plugins.list = UserPlugins
  BY <1>1 DEF LifeInv, DumpInv, Before
<1>3. LifeTypes' /\ MemoryInv'
  BY <1>1 DEF LifeInv, LifeTypes, MemoryInv, Before
<1>4. DumpInv' /\ LineInv' /\ AskedInv'
  BY <1>1, <1>2, OutsideKeeps, AskedKept
<1>5. UnloadInv' /\ DeviceInv'
  BY <1>1 DEF LifeInv, UnloadInv, DeviceInv, Equipped, Before
<1> QED BY <1>3, <1>4, <1>5 DEF LifeInv

LEMMA LoadStep ==
    ASSUME LifeInv, NEW valid \in BOOLEAN, NEW rank \in 0 .. NumDevices, NEW tries \in {1, NumDevices},
           NEW usable, load(valid, rank, tries, usable)
    PROVE  LifeInv'
<1>1. PICK device : device = firstUsable(rank, tries, usable)
  OBVIOUS
<1>2. device \in {None} \cup 0 .. NumDevices - 1
  <2>1. rank \in Nat /\ tries \in Nat
    BY LifecycleAssumption
  <2> QED BY <1>1, <2>1, DeviceOfNode
<1>3. /\ at = "load" /\ UNCHANGED <<options, datasets, plugins, notified, sim, disk, dump, history>>
      /\ \/ at' = "unwind"
         \/ at' = "plugins" /\ device # None /\ env'.pool /\ env'.device = device
  BY <1>1 DEF load, throw
<1>4. dump = <<>> /\ plugins.list = UserPlugins /\ datasets = <<>>
  BY <1>3 DEF LifeInv, DumpInv, DeviceInv, Before
<1>5. LifeTypes' /\ MemoryInv'
  BY <1>3 DEF LifeInv, LifeTypes, MemoryInv, Before, Equipped
<1>6. DumpInv' /\ LineInv' /\ AskedInv'
  BY <1>3, <1>4, OutsideKeeps, AskedKept
<1>7. UnloadInv'
  BY <1>3 DEF LifeInv, UnloadInv
<1>8. DeviceInv'
  BY <1>2, <1>3, <1>4 DEF DeviceInv, Equipped, Before
<1> QED BY <1>5, <1>6, <1>7, <1>8 DEF LifeInv

LEMMA PluginStep ==
    ASSUME LifeInv, NEW fails \in BOOLEAN, NEW period, loadPlugin(fails, period)
    PROVE  LifeInv'
<1>1. PICK p : p = Head(SelectSeq(plugins.list, LAMBDA x : ~Contains(plugins.loaded, x)))
  OBVIOUS
<1>2. /\ at = "plugins" /\ UNCHANGED <<options, env, datasets, sim, disk, dump>>
      /\ \/ at' = "unwind" /\ UNCHANGED <<plugins, history>>
         \/ /\ at' = at /\ plugins' = [plugins EXCEPT !.loaded = Append(@, p)]
            /\ history' = [history EXCEPT !.loads = Append(@, p)]
  BY <1>1 DEF loadPlugin, throw
<1>3. /\ plugins = [list |-> plugins.list, loaded |-> plugins.loaded]
      /\ history = [processes |-> history.processes, dumps |-> history.dumps,
                    loads |-> history.loads, unloads |-> history.unloads]
  BY DEF LifeInv, LifeTypes
<1>4. /\ plugins' = [list |-> plugins'.list, loaded |-> plugins'.loaded] /\ plugins'.list = plugins.list
      /\ history' = [processes |-> history'.processes, dumps |-> history'.dumps,
                     loads |-> history'.loads, unloads |-> history'.unloads]
      /\ history'.dumps = history.dumps /\ history'.unloads = history.unloads
      /\ at' = at => /\ plugins'.loaded = Append(plugins.loaded, p)
                     /\ history'.loads = Append(history.loads, p)
  BY <1>2, <1>3
<1>5. dump = <<>> /\ plugins.list = UserPlugins
  BY <1>2 DEF LifeInv, DumpInv, Equipped
<1>6. LifeTypes' /\ MemoryInv'
  BY <1>2, <1>4 DEF LifeInv, LifeTypes, MemoryInv, Equipped
<1>7. DumpInv' /\ LineInv' /\ AskedInv'
  BY <1>2, <1>4, <1>5, OutsideKeeps, AskedKept
<1>8. UnloadInv'
  BY <1>2, <1>4 DEF LifeInv, UnloadInv
<1>9. DeviceInv'
  BY <1>2 DEF LifeInv, DeviceInv, Equipped, Before
<1> QED BY <1>6, <1>7, <1>8, <1>9 DEF LifeInv

-----------------------------------------------------------------------------
(* The start of a simulation and its memory.                               *)

\* share: the id is new, or the process gives up.
LEMMA Shared ==
    ASSUME NEW id, NEW next, share(id, next)
    PROVE  at' = "unwind" \/ at' = next
  BY DEF share, throw

\* The share of the memory is a number of bytes.
LEMMA ShareOf ==
    ASSUME NEW free \in Nat, NEW ranks \in {1, 2}
    PROVE  share_of(free, ranks) \in Nat
<1>1. PICK f \in Nat : f = IF free >= StepSize THEN free - StepSize ELSE free
  <2>1. StepSize \in Nat
    BY LifecycleAssumption
  <2>2. (IF free >= StepSize THEN free - StepSize ELSE free) \in Nat
    BY <2>1
  <2> QED BY <2>2
<1>2. f \div 1 \in Nat /\ f \div 2 \in Nat
  OBVIOUS
<1> QED BY <1>1, <1>2 DEF share_of

LEMMA StartStep ==
    ASSUME LifeInv, NEW free \in MemorySizes, NEW ranks \in {1, 2}, NEW largest \in MemorySizes,
           start(free, ranks, largest)
    PROVE  LifeInv'
<1>1. at = "plugins" /\ UNCHANGED <<options, env, plugins, notified, disk, dump, history>>
  BY DEF start
<1>2. dump = <<>> /\ plugins.list = UserPlugins
  BY <1>1 DEF LifeInv, DumpInv, Equipped
<1>3. CASE options.skip
  <2>1. at' = "unload" /\ UNCHANGED <<sim, datasets>>
    BY <1>3 DEF start
  <2>2. LifeTypes' /\ MemoryInv'
    BY <1>1, <2>1 DEF LifeInv, LifeTypes, MemoryInv, Equipped
  <2>3. DumpInv' /\ LineInv' /\ AskedInv'
    BY <1>1, <1>2, <2>1, OutsideKeeps, AskedKept
  <2>4. UnloadInv' /\ DeviceInv'
    BY <1>1, <2>1 DEF LifeInv, UnloadInv, DeviceInv, Equipped, Before
  <2> QED BY <2>2, <2>3, <2>4 DEF LifeInv
<1>4. CASE ~options.skip
  <2>1. PICK most : most = share_of(free, ranks)
    OBVIOUS
  <2>2. /\ sim' = [sim EXCEPT !.memory = [most |-> most, largest |-> largest, by |-> StepSize, found |-> most]]
        /\ share("globalId", "probe")
    BY <1>4, <2>1 DEF start
  <2>3. most \in Nat /\ largest \in Nat /\ StepSize \in Nat
    BY <2>1, LifecycleAssumption, ShareOf
  <2>4. /\ sim' \in Runs
        /\ sim'.step = sim.step /\ sim'.begun = sim.begun /\ sim'.from = sim.from
        /\ sim'.restart = sim.restart /\ sim'.indices = sim.indices
        /\ sim'.memory = [most |-> most, largest |-> largest, by |-> StepSize, found |-> most]
    BY <2>2, <2>3 DEF LifeInv, LifeTypes
  <2>5. at' = "probe"
    <3>1. datasets = <<>>
      BY <1>1 DEF LifeInv, DeviceInv
    <3>2. ~ hasId(datasets, "globalId")
      BY <3>1 DEF hasId, Contains
    <3> QED BY <2>2, <3>2 DEF share
  <2>6. LifeTypes'
    BY <1>1, <2>4, <2>5 DEF LifeInv, LifeTypes, Equipped
  <2>7. MemoryInv'
    BY <2>3, <2>4, <2>5 DEF MemoryInv
  <2>8. DumpInv' /\ LineInv' /\ AskedInv'
    BY <1>1, <1>2, <2>4, <2>5, OutsideKeeps, AskedKept
  <2>9. UnloadInv' /\ DeviceInv'
    BY <1>1, <2>4, <2>5 DEF LifeInv, UnloadInv, DeviceInv, Equipped, Before
  <2> QED BY <2>6, <2>7, <2>8, <2>9 DEF LifeInv
<1> QED BY <1>3, <1>4

\* The next size to try is smaller by no more than the step before.
LEMMA Smaller ==
    ASSUME NEW size \in Nat, NEW by \in Nat
    PROVE  smaller(size, by) \in Nat /\ smaller(size, by) <= size /\ smaller(size, by) <= by
<1>1. by \div 2 \in Nat /\ by \div 2 <= by
  OBVIOUS
<1> QED BY <1>1 DEF smaller

LEMMA TestStep == ASSUME LifeInv, testAllocation PROVE LifeInv'
<1>1. PICK m, by : m = sim.memory /\ by = smaller(m.found, m.by)
  OBVIOUS
<1>2. /\ at = "probe" /\ m.found > m.largest /\ sim' = [sim EXCEPT !.memory = [m EXCEPT !.by = by, !.found = @ - by]]
      /\ UNCHANGED <<at, options, env, datasets, plugins, notified, disk, dump, history>>
  BY <1>1 DEF testAllocation
<1>3. m \in Memory /\ StepSize \in Nat
  BY <1>1, LifecycleAssumption DEF LifeInv, LifeTypes
<1>4. by \in Nat /\ by <= m.found /\ by <= m.by
  BY <1>1, <1>3, Smaller
<1>5. m.by <= StepSize /\ m.found <= m.most
  BY <1>1 DEF LifeInv, MemoryInv
<1>6. PICK n : n = [m EXCEPT !.by = by, !.found = @ - by]
  OBVIOUS
<1>7. /\ n \in Memory
      /\ n.most = m.most /\ n.largest = m.largest /\ n.by = by /\ n.found = m.found - by
  <2>1. m.found - by \in Nat /\ m = [most |-> m.most, largest |-> m.largest, by |-> m.by, found |-> m.found]
    BY <1>3, <1>4
  <2>2. n = [most |-> m.most, largest |-> m.largest, by |-> by, found |-> m.found - by]
    BY <1>6, <2>1
  <2> QED BY <1>3, <1>4, <2>1, <2>2
<1>8. /\ sim' \in Runs
      /\ sim'.step = sim.step /\ sim'.begun = sim.begun /\ sim'.from = sim.from
      /\ sim'.restart = sim.restart /\ sim'.indices = sim.indices /\ sim'.memory = n
  BY <1>2, <1>6, <1>7 DEF LifeInv, LifeTypes
<1>9. LifeTypes'
  BY <1>2, <1>8 DEF LifeInv, LifeTypes
<1>10. MemoryInv'
  <2>1. n.by <= StepSize /\ n.found <= n.most /\ n.found > n.largest - StepSize
    BY <1>2, <1>3, <1>4, <1>5, <1>7
  <2> QED BY <1>2, <1>8, <2>1 DEF MemoryInv
<1>11. dump = <<>> /\ plugins.list = UserPlugins
  BY <1>2 DEF LifeInv, DumpInv, Equipped
<1>12. DumpInv' /\ LineInv' /\ AskedInv'
  BY <1>2, <1>8, <1>11, OutsideKeeps, AskedKept
<1>13. UnloadInv' /\ DeviceInv'
  BY <1>2, <1>8 DEF LifeInv, UnloadInv, DeviceInv, Equipped, Before
<1> QED BY <1>9, <1>10, <1>12, <1>13 DEF LifeInv

LEMMA InitStep == ASSUME LifeInv, init PROVE LifeInv'
<1>1. /\ at = "probe" /\ sim.memory.found <= sim.memory.largest /\ at' \in {"unwind", "loop"}
      /\ UNCHANGED <<options, env, plugins, notified, sim, disk, dump, history>>
  BY Shared DEF init, throw
<1>2. dump = <<>> /\ plugins.list = UserPlugins
  BY <1>1 DEF LifeInv, DumpInv, Equipped
<1>3. LifeTypes' /\ MemoryInv'
  BY <1>1 DEF LifeInv, LifeTypes, MemoryInv, Equipped
<1>4. DumpInv' /\ LineInv' /\ AskedInv'
  BY <1>1, <1>2, OutsideKeeps, AskedKept
<1>5. UnloadInv' /\ DeviceInv'
  BY <1>1 DEF LifeInv, UnloadInv, DeviceInv, Equipped, Before
<1> QED BY <1>3, <1>4, <1>5 DEF LifeInv

-----------------------------------------------------------------------------
(* Rounds and their checkpoints.                                           *)

\* The controller's plugins are the ones registered.
LEMMA PluginsListed ==
    /\ UserPlugins \in Seq(registered) /\ Len(UserPlugins) \in Nat \ {0} /\ registered # {}
    /\ \A p \in registered : \E i \in 1 .. Len(UserPlugins) : p = UserPlugins[i]
    /\ SubSeq(UserPlugins, 1, Len(UserPlugins)) = UserPlugins
<1>1. UserPlugins \in Seq(registered) /\ UserPlugins # <<>>
  BY LifecycleAssumption DEF registered
<1>2. Len(UserPlugins) \in Nat \ {0} /\ DOMAIN UserPlugins = 1 .. Len(UserPlugins)
  BY <1>1
<1>3. \A p \in registered : \E i \in 1 .. Len(UserPlugins) : p = UserPlugins[i]
  BY <1>2 DEF registered, ToSet
<1>4. UserPlugins[1] \in registered
  BY <1>2 DEF registered, ToSet
<1>5. SubSeq(UserPlugins, 1, Len(UserPlugins)) = UserPlugins
  BY <1>1, SubSeqFull
<1> QED BY <1>1, <1>2, <1>3, <1>4, <1>5

\* A dump of which k plugins have written goes on with plugin k + 1.
LEMMA Remaining ==
    ASSUME NEW k \in Nat, k < Len(UserPlugins), NEW d, d = SubSeq(UserPlugins, k + 1, Len(UserPlugins))
    PROVE  /\ Len(d) = Len(UserPlugins) - k /\ Head(d) = UserPlugins[k + 1] /\ Head(d) \in registered
           /\ Tail(d) = SubSeq(UserPlugins, k + 2, Len(UserPlugins))
           /\ k + 1 = Len(UserPlugins) => Tail(d) = <<>>
<1> DEFINE n == Len(UserPlugins)
           m == k + 1
<1>1. UserPlugins \in Seq(registered) /\ n \in Nat /\ m \in 1 .. n
  BY PluginsListed
<1>2. \A i \in m .. n : UserPlugins[i] \in registered
  BY <1>1
<1>3. UserPlugins[m] \in registered
  BY <1>1
<1> HIDE DEF n
<1>4. Len(SubSeq(UserPlugins, m, n)) = IF m <= n THEN n - m + 1 ELSE 0
  BY <1>1, <1>2, SubSeqProperties
<1>5. Head(SubSeq(UserPlugins, m, n)) = UserPlugins[m] /\ Tail(SubSeq(UserPlugins, m, n)) = SubSeq(UserPlugins, m + 1, n)
  BY <1>1, HeadTailOfSubSeq DEF n
<1>6. m = n => SubSeq(UserPlugins, m + 1, n) = <<>>
  BY <1>1, SubSeqEmpty
<1>7. d = SubSeq(UserPlugins, m, n) /\ m + 1 = k + 2
  BY DEF n
<1>8. Len(d) = n - k
  BY <1>1, <1>4, <1>7
<1> QED BY <1>3, <1>5, <1>6, <1>7, <1>8 DEF n

\* A round or a step begins with no dump, or with one that no plugin has written to.
LEMMA DumpBegins ==
    ASSUME LifeInv, UNCHANGED <<disk, plugins>>, at' = "step", at \in Equipped, dump' \in {UserPlugins, <<>>}
    PROVE  DumpInv' /\ LineInv'
<1>1. plugins'.list = UserPlugins
  BY DEF LifeInv, DumpInv
<1>2. 0 \in 0 .. Len(UserPlugins) /\ 1 .. 0 = {} /\ 0 < Len(UserPlugins)
  BY PluginsListed
<1>3. UserPlugins = SubSeq(UserPlugins, 0 + 1, Len(UserPlugins))
  BY PluginsListed
<1>4. DumpInv'
  BY <1>1, <1>2, <1>3 DEF DumpInv
<1>5. LineInv'
  BY DEF LifeInv, LineInv
<1> QED BY <1>4, <1>5

\* The dumps begun are counted, and nothing else of the history changes.
LEMMA Counted ==
    ASSUME LifeInv, NEW b \in BOOLEAN, history' = IF b THEN [history EXCEPT !.dumps = @ + 1] ELSE history
    PROVE  /\ history' = [processes |-> history'.processes, dumps |-> history'.dumps,
                          loads |-> history'.loads, unloads |-> history'.unloads]
           /\ history'.dumps \in Nat /\ history'.loads = history.loads /\ history'.unloads = history.unloads
<1>1. /\ history = [processes |-> history.processes, dumps |-> history.dumps,
                    loads |-> history.loads, unloads |-> history.unloads]
      /\ history.dumps \in Nat
  BY DEF LifeInv, LifeTypes
<1>2. CASE b
  BY <1>1, <1>2
<1>3. CASE ~b
  BY <1>1, <1>3
<1> QED BY <1>2, <1>3

\* A restart that checkRestart lets pass: which step it is from.
LEMMA RestartFrom ==
    ASSUME LifeInv, NEW r, r = checkRestart
    PROVE  /\ r.restart \in {"DISABLED", "TRY", "FORCE", "SUCCESS", "FAILED"} /\ r.step \in {None} \cup Steps
           /\ r.throws \in BOOLEAN
           /\ ~r.throws /\ sim.restart = "FORCE" => r.step # None
           /\ r.step # None => /\ sim.restart \in {"TRY", "FORCE"} /\ options.step \in {None, r.step}
                               /\ \A p \in registered : disk.of[p][r.step] # None
<1>1. disk.lines \in Seq(Steps) /\ sim.restart \in {"DISABLED", "TRY", "FORCE", "SUCCESS", "FAILED"}
  BY DEF LifeInv, LifeTypes
<1>2. None \notin Steps
  BY LifecycleAssumption DEF None, Steps
<1>3. CASE sim.restart \notin {"TRY", "FORCE"}
  BY <1>1, <1>3 DEF checkRestart
<1>4. CASE sim.restart \in {"TRY", "FORCE"} /\ ~available
  BY <1>4 DEF checkRestart
<1>5. CASE sim.restart \in {"TRY", "FORCE"} /\ available
  <2>1. r.restart = "SUCCESS" /\ r.step = restartStep /\ r.throws = FALSE
    BY <1>5 DEF checkRestart
  <2>2. restartStep \in ToSet(disk.lines) /\ restartStep \in Steps
    BY <1>1, <1>5 DEF available, readCheckpointMasterFile, Contains, ToSet
  <2>3. \A p \in registered : disk.of[p][restartStep] # None
    BY <2>2 DEF LifeInv, LineInv
  <2>4. options.step \in {None, restartStep}
    BY DEF restartStep
  <2> QED BY <1>2, <1>5, <2>1, <2>2, <2>3, <2>4
<1> QED BY <1>3, <1>4, <1>5

LEMMA FillStep == ASSUME LifeInv, fillSimulation PROVE LifeInv'
<1>1. PICK r : r = IF options.resumes THEN checkRestart ELSE [restart |-> sim.restart, step |-> None, throws |-> FALSE]
  OBVIOUS
<1>2. /\ at = "loop" /\ UNCHANGED <<options, env, plugins, notified, disk>>
      /\ history' = IF ~r.throws /\ dump' # <<>> THEN [history EXCEPT !.dumps = @ + 1] ELSE history
      /\ IF r.throws THEN at' = "unwind" /\ UNCHANGED <<sim, datasets, dump>>
         ELSE /\ at' = "step"
              /\ sim' = [restart |-> r.restart, step |-> IF r.step = None THEN 0 ELSE r.step,
                         begun |-> sim.begun + 1, indices |-> TRUE, from |-> r.step, memory |-> Fresh.memory]
              /\ dump' = IF r.restart # "SUCCESS" /\ 0 \in CheckpointSteps THEN plugins.list ELSE <<>>
  BY <1>1 DEF fillSimulation, throw
<1>3. dump = <<>> /\ plugins.list = UserPlugins
  BY <1>2 DEF LifeInv, DumpInv, Equipped
<1>4. /\ sim.restart \in {"DISABLED", "TRY", "FORCE", "SUCCESS", "FAILED"} /\ sim.begun \in Nat
      /\ 0 \in Steps /\ StepSize \in Nat
  BY LifecycleAssumption DEF LifeInv, LifeTypes, Steps
<1>5. /\ r.restart \in {"DISABLED", "TRY", "FORCE", "SUCCESS", "FAILED"} /\ r.step \in {None} \cup Steps
      /\ r.throws \in BOOLEAN
  <2>1. CASE options.resumes
    BY <1>1, <2>1, RestartFrom
  <2>2. CASE ~options.resumes
    BY <1>1, <1>4, <2>2
  <2> QED BY <2>1, <2>2
<1>6. /\ history' = [processes |-> history'.processes, dumps |-> history'.dumps,
                     loads |-> history'.loads, unloads |-> history'.unloads]
      /\ history'.dumps \in Nat /\ history'.loads = history.loads /\ history'.unloads = history.unloads
  <2>1. PICK b \in BOOLEAN : b = (~r.throws /\ dump' # <<>>)
    OBVIOUS
  <2> QED BY <1>2, <2>1, Counted
<1>7. CASE r.throws
  <2>1. LifeTypes' /\ MemoryInv'
    BY <1>2, <1>6, <1>7 DEF LifeInv, LifeTypes, MemoryInv
  <2>2. DumpInv' /\ LineInv' /\ AskedInv'
    BY <1>2, <1>3, <1>7, OutsideKeeps, AskedKept
  <2>3. UnloadInv' /\ DeviceInv'
    BY <1>2, <1>7 DEF LifeInv, UnloadInv, DeviceInv, Equipped, Before
  <2> QED BY <2>1, <2>2, <2>3 DEF LifeInv
<1>8. CASE ~r.throws
  <2>1. Fresh.memory = [most |-> 0, largest |-> 0, by |-> 0, found |-> 0]
    BY DEF Fresh
  <2>2. /\ sim' \in Runs
        /\ sim'.begun = sim.begun + 1 /\ sim'.from = r.step
        /\ sim'.memory = [most |-> 0, largest |-> 0, by |-> 0, found |-> 0]
    <3>1. PICK z, f : /\ z = Fresh.memory /\ f = IF r.step = None THEN 0 ELSE r.step
                      /\ z \in Memory /\ f \in Steps
      BY <1>4, <1>5, <2>1
    <3>2. sim' = [restart |-> r.restart, step |-> f, begun |-> sim.begun + 1, indices |-> TRUE,
                  from |-> r.step, memory |-> z]
      BY <1>2, <1>8, <3>1
    <3>3. sim'.begun = sim.begun + 1 /\ sim'.from = r.step /\ sim'.memory = z
      BY <3>2
    <3> QED BY <1>4, <1>5, <2>1, <3>1, <3>2, <3>3
  <2>3. LifeTypes'
    BY <1>2, <1>6, <1>8, <2>2 DEF LifeInv, LifeTypes, Equipped
  <2>4. MemoryInv'
    BY <1>2, <1>4, <1>8, <2>2 DEF MemoryInv
  <2>5. DumpInv' /\ LineInv'
    BY <1>2, <1>3, <1>8, DumpBegins DEF Equipped
  <2>6. AskedInv'
    <3>1. sim'.begun # 0
      BY <1>4, <2>2
    <3>2. ASSUME options.resumes, sim'.begun = 1
          PROVE  /\ options.restart = "FORCE" => sim'.from # None
                 /\ sim'.from # None => /\ options.restart # "DISABLED" /\ options.step \in {None, sim'.from}
                                        /\ \A p \in registered : disk.of[p][sim'.from] # None
      <4>1. r = checkRestart /\ sim.restart = options.restart
        BY <1>1, <1>4, <2>2, <3>2 DEF LifeInv, AskedInv
      <4> QED BY <1>8, <2>2, <4>1, RestartFrom
    <3> QED BY <1>2, <3>1, <3>2 DEF AskedInv, RestartsAsAsked
  <2>7. UnloadInv' /\ DeviceInv'
    BY <1>2, <1>6, <1>8 DEF LifeInv, UnloadInv, DeviceInv, Equipped, Before
  <2> QED BY <2>3, <2>4, <2>5, <2>6, <2>7 DEF LifeInv
<1> QED BY <1>5, <1>7, <1>8

\* A checkpoint fails: the run ends with what is on disk.
LEMMA FailStep ==
    ASSUME LifeInv, at \in {"step", "line"}, at' = "unwind", dump' = <<>>,
           UNCHANGED <<options, env, datasets, plugins, notified, sim, disk, history>>
    PROVE  LifeInv'
<1>1. LifeTypes' /\ MemoryInv'
  BY DEF LifeInv, LifeTypes, MemoryInv
<1>2. DumpInv'
  BY DEF LifeInv, DumpInv, Equipped, Before
<1>3. LineInv' /\ AskedInv'
  BY AskedKept DEF LifeInv, LineInv
<1>4. UnloadInv' /\ DeviceInv'
  BY DEF LifeInv, UnloadInv, DeviceInv, Equipped, Before
<1> QED BY <1>1, <1>2, <1>3, <1>4 DEF LifeInv

\* A plugin writes its checkpoint of the dump under way.
LEMMA CheckpointStep == ASSUME LifeInv, checkpointPlugin(FALSE) PROVE LifeInv'
<1>1. PICK p, s, n : p = Head(dump) /\ s = sim.step /\ n = history.dumps
  OBVIOUS
<1>2. /\ at = "step" /\ dump # <<>>
      /\ at' = IF Len(dump) = 1 THEN "line" ELSE "step"
      /\ disk'.lines = disk.lines
      /\ disk'.torn = IF Len(dump) = 1 THEN disk.torn \ {s} ELSE disk.torn \cup {s}
      /\ disk'.of = [disk.of EXCEPT ![p][s] = n]
      /\ dump' = Tail(dump) /\ UNCHANGED <<options, env, datasets, plugins, notified, sim, history>>
  BY <1>1 DEF checkpointPlugin
<1>3. PICK k \in 0 .. Len(UserPlugins) :
         /\ dump = SubSeq(UserPlugins, k + 1, Len(UserPlugins)) /\ k < Len(UserPlugins)
         /\ \A i \in 1 .. k : disk.of[UserPlugins[i]][s] = n
         /\ k > 0 => s \in disk.torn
  BY <1>1, <1>2 DEF LifeInv, DumpInv
<1>4. Len(UserPlugins) \in Nat \ {0} /\ k \in Nat
  BY PluginsListed
<1>5. /\ Len(dump) = Len(UserPlugins) - k /\ p = UserPlugins[k + 1] /\ p \in registered
      /\ dump' = SubSeq(UserPlugins, k + 2, Len(UserPlugins))
      /\ k + 1 = Len(UserPlugins) => dump' = <<>>
  <2>1. k \in Nat /\ k < Len(UserPlugins)
    BY <1>3, <1>4
  <2> QED BY <1>1, <1>2, <1>3, <2>1, Remaining
<1>6. Len(dump) = 1 <=> k + 1 = Len(UserPlugins)
  <2>1. PICK l, d : l = Len(UserPlugins) /\ d = Len(dump) /\ l \in Nat /\ d = l - k
    BY <1>4, <1>5
  <2>2. d = 1 <=> k + 1 = l
    BY <1>4, <2>1
  <2> QED BY <2>1, <2>2
<1>7. /\ disk.lines \in Seq(Steps) /\ disk.of \in [registered -> [Steps -> {None} \cup Nat]]
      /\ s \in Steps /\ n \in Nat /\ n # None
  BY <1>1 DEF LifeInv, LifeTypes, None
<1>8. /\ disk'.of \in [registered -> [Steps -> {None} \cup Nat]]
      /\ \A q \in registered, t \in Steps : disk'.of[q][t] = IF q = p /\ t = s THEN n ELSE disk.of[q][t]
  BY <1>2, <1>5, <1>7
<1>10. ToSet(disk.lines) \subseteq Steps
  BY <1>7 DEF ToSet
<1>11. Len(dump) = 1 => \A q \in registered : disk'.of[q][s] = n
  <2> SUFFICES ASSUME Len(dump) = 1, NEW q \in registered PROVE disk'.of[q][s] = n
    OBVIOUS
  <2>1. k + 1 = Len(UserPlugins)
    BY <1>6
  <2>2. PICK i \in 1 .. Len(UserPlugins) : q = UserPlugins[i]
    BY PluginsListed
  <2>3. i \in 1 .. k \/ i = k + 1
    BY <1>4, <2>1
  <2> QED BY <1>3, <1>5, <1>7, <1>8, <2>2, <2>3
<1>12. LifeTypes'
  BY <1>2, <1>7, <1>8 DEF LifeInv, LifeTypes, Equipped
<1>13. MemoryInv'
  BY <1>2 DEF LifeInv, MemoryInv
<1>14. LineInv'
  <2> SUFFICES ASSUME NEW t \in ToSet(disk'.lines)
               PROVE  /\ \A q \in registered : disk'.of[q][t] # None
                      /\ t \notin disk'.torn => \A q, o \in registered : disk'.of[q][t] = disk'.of[o][t]
    BY DEF LineInv
  <2>1. t \in Steps /\ t \in ToSet(disk.lines)
    BY <1>2, <1>10
  <2>2. CASE t # s
    <3>1. /\ \A q \in registered : disk.of[q][t] # None
          /\ t \notin disk.torn => \A q, o \in registered : disk.of[q][t] = disk.of[o][t]
      BY <2>1, <2>2 DEF LifeInv, LineInv
    <3>2. t \in disk'.torn <=> t \in disk.torn
      BY <1>2, <2>2
    <3>3. \A q \in registered : disk'.of[q][t] = disk.of[q][t]
      BY <1>8, <2>1, <2>2
    <3> QED BY <3>1, <3>2, <3>3
  <2>3. CASE t = s /\ Len(dump) = 1
    BY <1>7, <1>11, <2>3
  <2>4. CASE t = s /\ Len(dump) # 1
    <3>1. t \in disk'.torn /\ t \in ToSet(disk.lines)
      BY <1>2, <2>1, <2>4
    <3>2. \A q \in registered : disk.of[q][t] # None
      BY <3>1 DEF LifeInv, LineInv
    <3> QED BY <1>7, <1>8, <2>1, <3>1, <3>2
  <2> QED BY <2>2, <2>3, <2>4
<1>15. DumpInv'
  <2>1. plugins'.list = UserPlugins
    BY <1>2 DEF LifeInv, DumpInv, Equipped
  <2>2. CASE Len(dump) = 1
    <3>1. dump' = <<>>
      BY <1>5, <1>6, <2>2
    <3>2. \A q \in registered : disk'.of[q][sim'.step] = history'.dumps
      BY <1>1, <1>2, <1>11, <2>2
    <3> QED BY <1>2, <1>3, <2>1, <3>1, <3>2 DEF DumpInv
  <2>3. CASE Len(dump) # 1
    <3>1. k + 1 \in 0 .. Len(UserPlugins) /\ k + 1 < Len(UserPlugins) /\ (k + 1) + 1 = k + 2
      BY <1>3, <1>4, <1>5, <2>3
    <3>2. s \in disk'.torn
      BY <1>2, <2>3
    <3>3. ASSUME NEW i \in 1 .. k + 1 PROVE disk'.of[UserPlugins[i]][s] = n
      <4>1. UserPlugins[i] \in registered
        BY <1>4, <3>1, PluginsListed
      <4>2. i \in 1 .. k \/ i = k + 1
        BY <1>4
      <4> QED BY <1>3, <1>5, <1>7, <1>8, <4>1, <4>2
    <3>4. /\ dump' = SubSeq(UserPlugins, (k + 1) + 1, Len(UserPlugins))
          /\ \A i \in 1 .. k + 1 : disk'.of[UserPlugins[i]][sim'.step] = history'.dumps
          /\ sim'.step \in disk'.torn
      BY <1>1, <1>2, <1>5, <3>1, <3>2, <3>3
    <3>5. at' = "step"
      BY <1>2, <2>3
    <3> QED BY <2>1, <3>1, <3>4, <3>5 DEF DumpInv
  <2> QED BY <2>2, <2>3
<1>16. AskedInv'
  <2>1. \A q \in registered, t \in Steps : disk.of[q][t] # None => disk'.of[q][t] # None
    BY <1>7, <1>8
  <2>2. sim.from \in {None} \cup Steps
    BY DEF LifeInv, LifeTypes
  <2> QED BY <1>2, <2>1, <2>2 DEF LifeInv, AskedInv, RestartsAsAsked
<1>17. UnloadInv' /\ DeviceInv'
  BY <1>2 DEF LifeInv, UnloadInv, DeviceInv, Equipped, Before
<1> QED BY <1>12, <1>13, <1>14, <1>15, <1>16, <1>17 DEF LifeInv

\* The line of a dump every plugin has written to is added to the master file.
LEMMA LineStep == ASSUME LifeInv, writeCheckpointStep(FALSE) PROVE LifeInv'
<1>1. PICK s : s = sim.step
  OBVIOUS
<1>2. /\ at = "line" /\ at' = "step" /\ disk' = [disk EXCEPT !.lines = Append(@, s)]
      /\ UNCHANGED <<options, env, datasets, plugins, notified, sim, dump, history>>
  BY <1>1 DEF writeCheckpointStep
<1>3. /\ disk.lines \in Seq(Steps) /\ disk.of \in [registered -> [Steps -> {None} \cup Nat]]
      /\ s \in Steps /\ history.dumps \in Nat /\ history.dumps # None
  BY <1>1 DEF LifeInv, LifeTypes, None
<1>4. dump = <<>> /\ plugins.list = UserPlugins /\ \A p \in registered : disk.of[p][s] = history.dumps
  BY <1>1, <1>2 DEF LifeInv, DumpInv, Equipped
<1>5. disk'.lines = Append(disk.lines, s) /\ disk'.of = disk.of /\ disk'.torn = disk.torn
  BY <1>2 DEF LifeInv, LifeTypes
<1>6. disk'.lines \in Seq(Steps) /\ ToSet(disk'.lines) \subseteq ToSet(disk.lines) \cup {s}
  <2>1. /\ Append(disk.lines, s) \in Seq(Steps) /\ Len(Append(disk.lines, s)) = Len(disk.lines) + 1
        /\ \A i \in 1 .. Len(disk.lines) : Append(disk.lines, s)[i] = disk.lines[i]
        /\ Append(disk.lines, s)[Len(disk.lines) + 1] = s
    BY <1>3, AppendProperties
  <2>2. DOMAIN disk.lines = 1 .. Len(disk.lines) /\ Len(disk.lines) \in Nat
    BY <1>3
  <2>3. DOMAIN Append(disk.lines, s) = 1 .. Len(disk.lines) + 1
    BY <2>1
  <2>4. ASSUME NEW i \in 1 .. Len(disk.lines) + 1
        PROVE  Append(disk.lines, s)[i] \in ToSet(disk.lines) \cup {s}
    BY <2>1, <2>2 DEF ToSet
  <2> QED BY <1>5, <2>1, <2>3, <2>4 DEF ToSet
<1>7. LifeTypes' /\ MemoryInv'
  <2>1. LifeTypes'
    BY <1>2, <1>3, <1>5, <1>6 DEF LifeInv, LifeTypes, Equipped
  <2>2. MemoryInv'
    BY <1>2 DEF LifeInv, MemoryInv
  <2> QED BY <2>1, <2>2
<1>8. LineInv'
  <2> SUFFICES ASSUME NEW t \in ToSet(disk'.lines)
               PROVE  /\ \A q \in registered : disk'.of[q][t] # None
                      /\ t \notin disk'.torn => \A q, o \in registered : disk'.of[q][t] = disk'.of[o][t]
    BY DEF LineInv
  <2>1. CASE t = s
    BY <1>3, <1>4, <1>5, <2>1
  <2>2. CASE t \in ToSet(disk.lines)
    BY <1>5, <2>2 DEF LifeInv, LineInv
  <2> QED BY <1>6, <2>1, <2>2
<1>9. DumpInv'
  BY <1>2, <1>4 DEF LifeInv, DumpInv
<1>10. AskedInv'
  BY <1>2, <1>5 DEF LifeInv, AskedInv, RestartsAsAsked
<1>11. UnloadInv' /\ DeviceInv'
  BY <1>2 DEF LifeInv, UnloadInv, DeviceInv, Equipped, Before
<1> QED BY <1>7, <1>8, <1>9, <1>10, <1>11 DEF LifeInv

\* A dump goes on or fails, at a plugin or at the line.
LEMMA DumpStep ==
    ASSUME LifeInv, NEW fails \in BOOLEAN, checkpointPlugin(fails) \/ writeCheckpointStep(fails)
    PROVE  LifeInv'
<1>1. CASE fails = FALSE
  BY <1>1, CheckpointStep, LineStep
<1>2. CASE fails = TRUE /\ checkpointPlugin(fails)
  <2>1. /\ at = "step" /\ at' = "unwind" /\ dump' = <<>>
        /\ UNCHANGED <<options, env, datasets, plugins, notified, sim, disk, history>>
    BY <1>2 DEF checkpointPlugin, throw
  <2> QED BY <2>1, FailStep
<1>3. CASE fails = TRUE /\ writeCheckpointStep(fails)
  <2>1. /\ at = "line" /\ at' = "unwind" /\ dump' = dump
        /\ UNCHANGED <<options, env, datasets, plugins, notified, sim, disk, history>>
    BY <1>3 DEF writeCheckpointStep, throw
  <2>2. dump = <<>>
    BY <2>1 DEF LifeInv, DumpInv
  <2> QED BY <2>1, <2>2, FailStep
<1> QED BY <1>1, <1>2, <1>3

LEMMA OneStep == ASSUME LifeInv, runOneStep PROVE LifeInv'
<1>1. /\ at = "step" /\ at' = at /\ dump = <<>> /\ sim.step < LastStep /\ sim' = [sim EXCEPT !.step = @ + 1]
      /\ dump' = IF sim.step + 1 \in CheckpointSteps THEN plugins.list ELSE <<>>
      /\ history' = IF dump' # <<>> THEN [history EXCEPT !.dumps = @ + 1] ELSE history
      /\ UNCHANGED <<options, env, datasets, plugins, notified, disk>>
  BY DEF runOneStep
<1>2. plugins.list = UserPlugins
  BY <1>1 DEF LifeInv, DumpInv, Equipped
<1>3. sim.step \in Steps /\ sim.step + 1 \in Steps
  BY <1>1, LifecycleAssumption DEF LifeInv, LifeTypes, Steps
<1>4. /\ sim' \in Runs
      /\ sim'.begun = sim.begun /\ sim'.from = sim.from /\ sim'.restart = sim.restart
      /\ sim'.indices = sim.indices /\ sim'.memory = sim.memory
  BY <1>1, <1>3 DEF LifeInv, LifeTypes
<1>5. /\ history' = [processes |-> history'.processes, dumps |-> history'.dumps,
                     loads |-> history'.loads, unloads |-> history'.unloads]
      /\ history'.dumps \in Nat /\ history'.loads = history.loads /\ history'.unloads = history.unloads
  <2>1. PICK b \in BOOLEAN : b = (dump' # <<>>)
    OBVIOUS
  <2> QED BY <1>1, <2>1, Counted
<1>6. LifeTypes' /\ MemoryInv'
  BY <1>1, <1>4, <1>5 DEF LifeInv, LifeTypes, MemoryInv
<1>7. DumpInv' /\ LineInv'
  BY <1>1, <1>2, DumpBegins DEF Equipped
<1>8. AskedInv'
  BY <1>1, <1>4, AskedKept
<1>9. UnloadInv' /\ DeviceInv'
  BY <1>1, <1>4, <1>5 DEF LifeInv, UnloadInv, DeviceInv
<1> QED BY <1>6, <1>7, <1>8, <1>9 DEF LifeInv

LEMMA EndStep == ASSUME LifeInv, endRound PROVE LifeInv'
<1>1. /\ at = "step" /\ dump = <<>> /\ at' \in {"loop", "unload"}
      /\ UNCHANGED <<options, env, datasets, plugins, notified, sim, disk, dump, history>>
  BY DEF endRound
<1>2. plugins.list = UserPlugins
  BY <1>1 DEF LifeInv, DumpInv, Equipped
<1>3. LifeTypes' /\ MemoryInv'
  BY <1>1 DEF LifeInv, LifeTypes, MemoryInv, Equipped
<1>4. DumpInv' /\ LineInv' /\ AskedInv'
  BY <1>1, <1>2, OutsideKeeps, AskedKept
<1>5. UnloadInv' /\ DeviceInv'
  BY <1>1 DEF LifeInv, UnloadInv, DeviceInv, Equipped, Before
<1> QED BY <1>3, <1>4, <1>5 DEF LifeInv

-----------------------------------------------------------------------------
(* The way out, and the next process.                                      *)

\* The run's record with other indices.
LEMMA Dropped ==
    ASSUME LifeInv, sim' = [sim EXCEPT !.indices = FALSE]
    PROVE  /\ sim' \in Runs
           /\ sim'.step = sim.step /\ sim'.begun = sim.begun /\ sim'.from = sim.from
           /\ sim'.restart = sim.restart /\ sim'.memory = sim.memory /\ ~sim'.indices
  BY DEF LifeInv, LifeTypes

LEMMA UnloadStep == ASSUME LifeInv, unload PROVE LifeInv'
<1>1. /\ at = "unload" /\ at' = "unwind" /\ history' = [history EXCEPT !.unloads = Reverse(plugins.loaded)]
      /\ plugins' = [list |-> <<>>, loaded |-> <<>>] /\ sim' = [sim EXCEPT !.indices = FALSE]
      /\ datasets' = <<>> /\ UNCHANGED <<options, env, notified, disk, dump>>
  BY DEF unload, go, unloadOrder
<1>2. /\ history' = [processes |-> history'.processes, dumps |-> history'.dumps,
                     loads |-> history'.loads, unloads |-> history'.unloads]
      /\ history'.dumps = history.dumps /\ history.dumps \in Nat
      /\ history'.loads = history.loads /\ history'.unloads = Reverse(plugins.loaded)
  <2>1. /\ history = [processes |-> history.processes, dumps |-> history.dumps,
                      loads |-> history.loads, unloads |-> history.unloads]
        /\ history.dumps \in Nat
    BY DEF LifeInv, LifeTypes
  <2> QED BY <1>1, <2>1
<1>3. dump = <<>> /\ plugins.loaded = history.loads
  BY <1>1 DEF LifeInv, DumpInv, UnloadInv
<1>4. /\ sim' \in Runs
      /\ sim'.step = sim.step /\ sim'.begun = sim.begun /\ sim'.from = sim.from
      /\ sim'.restart = sim.restart /\ sim'.memory = sim.memory /\ ~sim'.indices
  BY <1>1, Dropped
<1>5. LifeTypes'
  <2>1. plugins' = [list |-> plugins'.list, loaded |-> plugins'.loaded]
    BY <1>1
  <2> QED BY <1>1, <1>2, <1>4, <2>1 DEF LifeInv, LifeTypes
<1>6. MemoryInv'
  BY <1>1, <1>4 DEF LifeInv, MemoryInv
<1>7. DumpInv' /\ LineInv' /\ AskedInv'
  BY <1>1, <1>2, <1>3, <1>4, OutsideKeeps, AskedKept DEF Before, Equipped
<1>8. UnloadInv' /\ DeviceInv'
  BY <1>1, <1>2, <1>3 DEF UnloadInv, DeviceInv, Before, Equipped
<1> QED BY <1>5, <1>6, <1>7, <1>8 DEF LifeInv

LEMMA FinalizeStep == ASSUME LifeInv, finalize PROVE LifeInv'
<1>1. /\ at = "unwind" /\ at' = "exit" /\ sim' = [sim EXCEPT !.indices = FALSE]
      /\ UNCHANGED <<options, datasets, plugins, notified, disk, dump, history>>
  BY DEF finalize, go
<1>2. dump = <<>>
  BY <1>1 DEF LifeInv, DumpInv
<1>3. /\ sim' \in Runs
      /\ sim'.step = sim.step /\ sim'.begun = sim.begun /\ sim'.from = sim.from
      /\ sim'.restart = sim.restart /\ sim'.memory = sim.memory /\ ~sim'.indices
  BY <1>1, Dropped
<1>4. LifeTypes' /\ MemoryInv'
  BY <1>1, <1>3 DEF LifeInv, LifeTypes, MemoryInv
<1>5. DumpInv' /\ LineInv' /\ AskedInv'
  BY <1>1, <1>2, <1>3, OutsideKeeps, AskedKept DEF Before, Equipped
<1>6. UnloadInv' /\ DeviceInv'
  BY <1>1, <1>3 DEF LifeInv, UnloadInv, DeviceInv, Before, Equipped
<1> QED BY <1>4, <1>5, <1>6 DEF LifeInv

LEMMA AgainStep ==
    ASSUME LifeInv, NEW o \in Options, Meaningful(o), again(o)
    PROVE  LifeInv'
<1>1. /\ at' = "parse" /\ options' = o /\ UNCHANGED disk /\ datasets' = <<>> /\ dump' = <<>>
      /\ plugins' = [list |-> UserPlugins, loaded |-> <<>>] /\ sim' = [Fresh EXCEPT !.restart = o.restart]
      /\ history' = [processes |-> history.processes + 1, dumps |-> history.dumps, loads |-> <<>>, unloads |-> <<>>]
  BY DEF again
<1>2. /\ 0 \in Steps /\ StepSize \in Nat /\ history.dumps \in Nat /\ o.restart \in {"DISABLED", "TRY", "FORCE"}
  BY LifecycleAssumption DEF Steps, Options, LifeInv, LifeTypes
<1>3. sim' = [restart |-> o.restart, step |-> 0, begun |-> 0, indices |-> FALSE, from |-> None,
              memory |-> [most |-> 0, largest |-> 0, by |-> 0, found |-> 0]]
  BY <1>1 DEF Fresh
<1>4. LifeTypes'
  <2>1. sim' \in Runs
    BY <1>2, <1>3
  <2>2. /\ plugins' = [list |-> plugins'.list, loaded |-> plugins'.loaded]
        /\ history' = [processes |-> history'.processes, dumps |-> history'.dumps,
                       loads |-> history'.loads, unloads |-> history'.unloads]
        /\ history'.dumps \in Nat
    BY <1>1, <1>2
  <2> QED BY <1>1, <2>1, <2>2 DEF LifeInv, LifeTypes, Before
<1>5. MemoryInv'
  BY <1>2, <1>3 DEF MemoryInv
<1>6. DumpInv'
  <2>1. 0 \in 0 .. Len(UserPlugins)
    BY PluginsListed
  <2> QED BY <1>1, <2>1 DEF DumpInv
<1>7. LineInv'
  BY <1>1 DEF LifeInv, LineInv
<1>8. AskedInv'
  BY <1>1, <1>3 DEF AskedInv, RestartsAsAsked
<1>9. UnloadInv' /\ DeviceInv'
  BY <1>1 DEF UnloadInv, DeviceInv, Before, Equipped
<1> QED BY <1>4, <1>5, <1>6, <1>7, <1>8, <1>9 DEF LifeInv

\* Every step of every process preserves the invariant.
LEMMA LifeInvNext == LifeInv /\ [LifeNext]_life => LifeInv'
<1> SUFFICES ASSUME LifeInv, [LifeNext]_life PROVE LifeInv'
  OBVIOUS
<1>1. CASE UNCHANGED life
  <2>1. LifeTypes'
    BY <1>1 DEF life, LifeInv, LifeTypes
  <2>2. MemoryInv'
    BY <1>1 DEF life, LifeInv, MemoryInv
  <2>3. DumpInv' /\ LineInv'
    <3>1. UNCHANGED <<disk, dump>> /\ at' = at /\ plugins' = plugins /\ sim' = sim /\ history' = history
      BY <1>1 DEF life
    <3>2. /\ at' \in Before \cup Equipped => plugins'.list = UserPlugins
          /\ (dump # <<>> => at' = "step") /\ (at' = "line" => at = "line")
      BY <3>1 DEF LifeInv, DumpInv
    <3> QED BY <3>1, <3>2, OutsideKeeps
  <2>4. AskedInv'
    BY <1>1, AskedKept DEF life
  <2>5. UnloadInv' /\ DeviceInv'
    BY <1>1 DEF life, LifeInv, UnloadInv, DeviceInv
  <2> QED BY <2>1, <2>2, <2>3, <2>4, <2>5 DEF LifeInv
<1>2. CASE LifeOver
  BY <1>1, <1>2 DEF LifeOver
<1>3. CASE parse \/ testAllocation \/ init \/ unload \/ finalize
  BY <1>3, ParseStep, TestStep, InitStep, UnloadStep, FinalizeStep
<1>4. CASE fillSimulation \/ runOneStep \/ endRound
  BY <1>4, FillStep, OneStep, EndStep
<1>9. CASE \E fails \in BOOLEAN : checkpointPlugin(fails) \/ writeCheckpointStep(fails)
  BY <1>9, DumpStep
<1>5. CASE \E free \in MemorySizes, ranks \in {1, 2}, largest \in MemorySizes :
               largest <= free /\ start(free, ranks, largest)
  BY <1>5, StartStep
<1>6. CASE \E valid \in BOOLEAN, rank \in 0 .. NumDevices, tries \in {1, NumDevices},
              usable \in SUBSET (0 .. NumDevices - 1) : load(valid, rank, tries, usable)
  BY <1>6, LoadStep
<1>7. CASE \E fails \in BOOLEAN, period \in {0, 1} : (fails => period = 1) /\ loadPlugin(fails, period)
  BY <1>7, PluginStep
<1>8. CASE \E o \in {x \in Options : Meaningful(x)} : again(o)
  BY <1>8, AgainStep
<1> QED BY <1>1, <1>2, <1>3, <1>4, <1>5, <1>6, <1>7, <1>8, <1>9 DEF LifeNext

\* All checkpoints of a listed step that is not torn are of one dump: one number.
LEMMA OneDump ==
    ASSUME LineInv
    PROVE  CheckpointsUsable
<1> SUFFICES ASSUME NEW s \in ToSet(disk.lines), NEW dumps, dumps = {disk.of[p][s] : p \in registered}
             PROVE  None \notin dumps /\ (s \notin disk.torn => Cardinality(dumps) = 1)
  BY DEF CheckpointsUsable, readCheckpointMasterFile
<1>1. None \notin dumps
  BY DEF LineInv
<1>2. ASSUME s \notin disk.torn PROVE Cardinality(dumps) = 1
  <2>1. PICK p \in registered : TRUE
    BY PluginsListed
  <2>2. \A q \in registered : disk.of[q][s] = disk.of[p][s]
    BY <1>2 DEF LineInv
  <2>3. dumps = {disk.of[p][s]}
    BY <2>2
  <2> QED BY <2>3, FS_Singleton
<1> QED BY <1>1, <1>2

(* Whatever fails, throws or crashes, in any process and at any point:     *)
(* the invariant behind the life of a run.                                 *)
THEOREM LifecycleInvariance == LifeSpec => []LifeInv
<1>1. LifeInit => LifeInv
  BY LifeInvInit
<1>2. LifeInv /\ [LifeNext]_life => LifeInv'
  BY LifeInvNext
<1> QED BY <1>1, <1>2, PTL DEF LifeSpec

(* A run leaves behind only checkpoints the next one can use, restarts as  *)
(* it was asked to, takes no memory it cannot have, and shuts down in the  *)
(* reverse of the order it came up (main.x.cpp, Checkpointing.hpp,         *)
(* PluginConnector.cpp, Environment.tpp).                                  *)
THEOREM RunsCanBeRestarted == LifeSpec => []LifecycleSound
<1>1. LifeInv => LifecycleSound
  <2> SUFFICES ASSUME LifeInv PROVE LifecycleSound
    OBVIOUS
  <2>1. MemoryProbed
    BY DEF LifeInv, MemoryInv, MemoryProbed
  <2>2. CheckpointsUsable
    BY OneDump DEF LifeInv
  <2>3. RestartsAsAsked
    BY DEF LifeInv, AskedInv
  <2>4. LeavesInOrder
    BY DEF LifeInv, UnloadInv, LeavesInOrder
  <2>5. DeviceWhileUsed
    BY DEF LifeInv, LifeTypes, DeviceInv, DeviceWhileUsed, Before, Equipped
  <2> QED BY <2>1, <2>2, <2>3, <2>4, <2>5 DEF LifecycleSound
<1> QED BY <1>1, LifecycleInvariance, PTL
==============================================================================
