---------------------- MODULE DeviceSubmission_proofs ----------------------
(***************************************************************************)
(* Proofs about DeviceSubmission, for every set of graphs, of expressions  *)
(* and of queues.                                                          *)
(***************************************************************************)
EXTENDS DeviceSubmission, FiniteSetTheorems, FunctionTheorems, WellFoundedInduction,
        SequenceTheorems, TLAPS

Phases == {"new", "bound", "locking", "submit", "unlock", "publish", "posted", "done", "gone"}

Expressions == {single} \cup UNION {SendersOf[g] : g \in Graphs}

Commands ==
    [kind : {"task"}, graph : Graphs, stage : Nat]
        \cup [kind : {"wait"}, graph : Graphs, event : Nat, upto : Nat]
        \cup [kind : {"record"}, graph : Graphs, event : Nat]

Count(g) == Len(sender[g].pred)
index(g) == fenceIndices(sender[g], bound[g])
qOf(g, i) == queueOf(sender[g], bound[g], i)

TypeInv ==
    /\ pool \in {"shared", "leased"} /\ m_next \in 0 .. QueueCount - 1
    /\ sender \in [Graphs -> Expressions] /\ phase \in [Graphs -> Phases]
    /\ DOMAIN bound = Graphs /\ DOMAIN fence = Graphs
    /\ holder \in [Queues -> Graphs \cup {None}] /\ stage \in [Graphs -> Nat]
    /\ made \in Nat /\ free \in Seq(1 .. made)
    /\ recorded \in Seq(Nat) /\ Len(recorded) = made /\ reached \in Seq(Nat) /\ Len(reached) = made
    /\ queue \in [Queues -> Seq(Commands)] /\ executed \subseteq Graphs \X Nat
    /\ posted \in Seq(Graphs) /\ pending \in Seq(Graphs) /\ deferred \in Seq(Graphs)
    /\ worker \in {"lock", "asleep", "scan", "gone"} /\ runner \in Graphs \cup {None}
    /\ stopped \in BOOLEAN

(* A graph submits its stages between the locks and the post.              *)
StageInv ==
    \A g \in Graphs :
        /\ phase[g] # "new" => sender[g] \in SendersOf[g]
        /\ phase[g] \in {"new", "bound", "locking", "gone"} => stage[g] = 0
        /\ phase[g] = "submit" => stage[g] < Count(g)
        /\ phase[g] \in {"unlock", "publish", "posted", "done"} => stage[g] = Count(g)

(* A connected graph leases an event for every fence and a queue for every *)
(* lane.                                                                   *)
LeaseInv ==
    \A g \in Graphs :
        /\ live(g) => /\ fence[g] \in [Range(index(g)) -> 1 .. made]
                      /\ explicit(sender[g]) => bound[g] = <<>>
                      /\ ~explicit(sender[g]) =>
                            bound[g] \in [0 .. sender[g].count - 1 ->
                                             IF pool = "shared" THEN 0 .. QueueCount - 1 ELSE 0 .. MaxQueues - 1]
        /\ ~live(g) => fence[g] = <<>> /\ bound[g] = <<>>

(* No event and no leased queue has two users.                             *)
EventInv ==
    /\ \A g \in Graphs : \A i, j \in DOMAIN fence[g] : fence[g][i] = fence[g][j] => i = j
    /\ \A g, h \in Graphs : g # h =>
          \A i \in DOMAIN fence[g], j \in DOMAIN fence[h] : fence[g][i] # fence[h][j]
    /\ \A g \in Graphs : \A i \in DOMAIN fence[g], k \in 1 .. Len(free) : fence[g][i] # free[k]
    /\ \A k, l \in 1 .. Len(free) : free[k] = free[l] => k = l

QueueInv ==
    pool = "leased" => \A g, h \in Graphs : g # h =>
        \A i \in DOMAIN bound[g], j \in DOMAIN bound[h] : bound[g][i] # bound[h][j]

(* A graph on shared queues submits under all its mutexes.                 *)
LockInv ==
    /\ \A q \in Queues : holder[q] # None => phase[holder[q]] \in {"locking", "submit", "unlock"}
    /\ \A g \in Graphs :
        /\ phase[g] = "locking" => distinct(g) \ held(g) # {} /\ pool = "shared" /\ ~explicit(sender[g])
        /\ phase[g] = "submit" /\ pool = "shared" /\ ~explicit(sender[g]) => distinct(g) \subseteq held(g)
        /\ phase[g] = "unlock" => held(g) # {}

(* The lists of the completion thread hold each published graph once.      *)
Listed == Range(posted) \cup Range(pending) \cup Range(deferred)

WorkInv ==
    /\ \A g \in Graphs : g \in Listed <=> phase[g] = "posted"
    /\ \A i, j \in DOMAIN posted : posted[i] = posted[j] => i = j
    /\ \A i, j \in DOMAIN pending : pending[i] = pending[j] => i = j
    /\ \A i, j \in DOMAIN deferred : deferred[i] = deferred[j] => i = j
    /\ \A i \in DOMAIN posted, j \in DOMAIN pending : posted[i] # pending[j]
    /\ \A i \in DOMAIN posted, j \in DOMAIN deferred : posted[i] # deferred[j]
    /\ \A i \in DOMAIN pending, j \in DOMAIN deferred : pending[i] # deferred[j]

StopInv ==
    /\ runner # None \/ deferred # <<>> => worker = "scan"
    /\ stopped => \A g \in Graphs :
          phase[g] \in {"locking", "submit", "unlock", "publish"} => runner = g
    /\ worker = "gone" => stopped /\ posted = <<>> /\ pending = <<>>

(* What a command of a queue is there for.                                 *)
TaskAt(q, p, g, i) ==
    /\ p \in DOMAIN queue[q]
    /\ queue[q][p].kind = "task" /\ queue[q][p].graph = g /\ queue[q][p].stage = i

EventAt(q, p, kind, g, e) ==
    /\ p \in DOMAIN queue[q]
    /\ queue[q][p].kind = kind /\ queue[q][p].graph = g /\ queue[q][p].event = e

CommandInv ==
    \A q \in Queues : \A p \in DOMAIN queue[q] :
        LET c == queue[q][p] IN
        /\ phase[c.graph] \in {"submit", "unlock", "publish", "posted"}
        /\ c.kind = "task" => c.stage \in 1 .. stage[c.graph] /\ qOf(c.graph, c.stage) = q
        /\ c.kind = "record" =>
              \E k \in 1 .. stage[c.graph] :
                 /\ index(c.graph)[k] = k /\ c.event = fence[c.graph][k] /\ qOf(c.graph, k) = q
        /\ c.kind = "wait" =>
              \E k \in 1 .. stage[c.graph] : index(c.graph)[k] = k /\ c.event = fence[c.graph][k]

(* An event has at most one outstanding record, and a wait is for it.      *)
RecordInv ==
    /\ \A q, r \in Queues : \A p \in DOMAIN queue[q], o \in DOMAIN queue[r] :
          queue[q][p].kind = "record" /\ queue[r][o].kind = "record" /\ queue[q][p].event = queue[r][o].event
              => q = r /\ p = o
    /\ \A q \in Queues : \A p \in DOMAIN queue[q] :
          /\ queue[q][p].kind = "record" =>
                recorded[queue[q][p].event] = reached[queue[q][p].event] + 1
          /\ queue[q][p].kind = "wait" => recorded[queue[q][p].event] = queue[q][p].upto
    /\ \A e \in 1 .. made : reached[e] # recorded[e] =>
          \E q \in Queues : \E p \in DOMAIN queue[q] : queue[q][p].kind = "record" /\ queue[q][p].event = e
    /\ \A e \in 1 .. made : reached[e] <= recorded[e]

(* Behind every command its stage's task, behind every task its fence's    *)
(* record, once it is submitted.                                           *)
BehindInv ==
    \A q \in Queues : \A p \in DOMAIN queue[q] :
        LET c == queue[q][p] IN
        /\ c.kind = "wait" => \E o \in DOMAIN queue[q], i \in 1 .. Count(c.graph) : p < o /\ TaskAt(q, o, c.graph, i)
        /\ c.kind = "task" =>
              \/ index(c.graph)[c.stage] > stage[c.graph]
              \/ \E o \in DOMAIN queue[q] :
                    p < o /\ EventAt(q, o, "record", c.graph, fence[c.graph][index(c.graph)[c.stage]])

(* A submitted stage is queued or executed; before a task's predecessors   *)
(* there is the task on the same queue or the wait for its event.          *)
OrderInv ==
    /\ \A g \in Graphs : \A i \in 1 .. stage[g] :
          <<g, i>> \in executed \/ \E q \in Queues : \E p \in DOMAIN queue[q] : TaskAt(q, p, g, i)
    /\ \A q \in Queues : \A p \in DOMAIN queue[q] :
          LET c == queue[q][p] IN
          c.kind = "task" => \A j \in sender[c.graph].pred[c.stage] :
              \/ <<c.graph, j>> \in executed
              \/ \E o \in DOMAIN queue[q] : o < p /\ TaskAt(q, o, c.graph, j)
              \/ /\ index(c.graph)[j] = j
                 /\ \E o \in DOMAIN queue[q] : o < p /\ EventAt(q, o, "wait", c.graph, fence[c.graph][j])
    /\ \A t \in executed : /\ t[2] \in 1 .. stage[t[1]]
                           /\ \A j \in sender[t[1]].pred[t[2]] : <<t[1], j>> \in executed

(* No two callers submit to the same queue of their own.                   *)
CallersQueuesApart ==
    \A g, h \in Graphs : g # h =>
        \A s \in SendersOf[g], t \in SendersOf[h] : Range(s.own) \cap Range(t.own) = {}

(* A queue of the pool, or one that a single caller uses.                  *)
Apart(q) == CallersQueuesApart \/ q < MaxQueues

(* The commands of a graph that still submits are the last of their queue. *)
SerialInv ==
    \A q \in Queues : Apart(q) =>
        /\ \A i, j, k \in DOMAIN queue[q] :
              i < j /\ j < k /\ queue[q][i].graph = queue[q][k].graph
                  => queue[q][j].graph = queue[q][i].graph
        /\ \A i, j \in DOMAIN queue[q] :
              i < j /\ phase[queue[q][i].graph] = "submit" => queue[q][j].graph = queue[q][i].graph

-----------------------------------------------------------------------------
(* Numbers, sets and sequences.                                            *)

\* A set of natural numbers that is not empty has a smallest element.
LEMMA SmallestOf ==
    ASSUME NEW S \in SUBSET Nat, S # {}
    PROVE  \E x \in S : \A y \in S : x <= y
<1> DEFINE less == OpToRel(<, Nat)
<1>1. \A u, v \in Nat : <<u, v>> \notin less => ~(u < v)
  <2>1. less = {ss \in Nat \X Nat : ss[1] < ss[2]}
    BY Zenon DEF OpToRel
  <2> HIDE DEF less
  <2> QED
    BY <2>1
<1>2. PICK x \in S : \A y \in S : ~(<<y, x>> \in less)
  <2>1. IsWellFoundedOn(less, Nat)
    BY NatLessThanWellFounded
  <2> HIDE DEF less
  <2> QED
    BY <2>1, WFMin
<1> HIDE DEF less
<1>3. \A y \in S : ~(y < x)
  BY <1>1, <1>2, Zenon
<1> QED
  BY <1>3

\* A set of natural numbers with a bound that is not empty has a largest element.
LEMMA LargestOf ==
    ASSUME NEW n \in Nat, NEW S \in SUBSET (0 .. n), S # {}
    PROVE  \E x \in S : \A y \in S : y <= x
<1> DEFINE T == {n - x : x \in S}
<1>1. T \in SUBSET Nat /\ T # {}
  <2>1. \A x \in S : n - x \in Nat
    OBVIOUS
  <2>2. \A t \in T : t \in Nat
    BY <2>1
  <2> QED
    BY <2>2
<1>2. PICK t \in T : \A u \in T : t <= u
  <2> HIDE DEF T
  <2> QED
    BY <1>1, SmallestOf
<1>3. PICK x \in S : t = n - x
  OBVIOUS
<1>4. \A y \in S : n - x <= n - y
  BY <1>2, <1>3
<1> HIDE DEF T
<1> QED
  BY <1>4

\* Min of such a set is its element.
LEMMA MinInSet ==
    ASSUME NEW S \in SUBSET Nat, S # {}
    PROVE  Min(S) \in S
<1>1. \E x \in S : \A y \in S : x <= y
  BY SmallestOf
<1> QED
  BY <1>1 DEF Min

\* The sequence of a finite set holds all its elements.
LEMMA SetToSeqFacts ==
    ASSUME NEW S, IsFiniteSet(S)
    PROVE  /\ SetToSeq(S) \in Seq(S)
           /\ \A x \in S : \E k \in 1 .. Len(SetToSeq(S)) : SetToSeq(S)[k] = x
<1> DEFINE n == Cardinality(S)
           f == SetToSeq(S)
<1>1. n \in Nat /\ ExistsBijection(1 .. n, S)
  BY FS_CardinalityType
<1>2. PICK h \in Bijection(1 .. n, S) : TRUE
  BY <1>1 DEF ExistsBijection
<1>3. h \in [1 .. n -> S] /\ IsInjective(h)
  BY <1>2 DEF Bijection, Injection, IsInjective
<1>4. f \in [1 .. n -> S] /\ IsInjective(f)
  BY <1>3 DEF SetToSeq
<1> HIDE DEF f
<1>5. f \in Injection(1 .. n, S)
  BY <1>4 DEF Injection, IsInjective
<1>6. IsFiniteSet(1 .. n) /\ Cardinality(1 .. n) = n
  BY <1>1, FS_Interval
<1> HIDE DEF n
<1>7. Cardinality(S) = n
  BY DEF n
<1>8. f \in Surjection(1 .. n, S)
  BY <1>5, <1>6, <1>7, FS_Injection
<1>9. \A x \in S : \E k \in 1 .. n : f[k] = x
  BY <1>8 DEF Surjection
<1>10. f \in Seq(S) /\ Len(f) = n
  BY <1>1, <1>4
<1> QED
  BY <1>9, <1>10 DEF f

-----------------------------------------------------------------------------
(* Expressions and fences.                                                 *)

\* The lowering of every expression has the form WellFormed says.
LEMMA ExpressionsWellFormed ==
    ASSUME NEW s \in Expressions
    PROVE  WellFormed(s)
<1>1. CASE s = single
  <2>1. Len(s.pred) = 1 /\ s.pred = <<{}>> /\ s.lanes = <<0>> /\ s.count = 1 /\ s.own = <<>> /\ s.before = {}
    BY <1>1 DEF single
  <2>2. s.pred \in Seq(SUBSET (1 .. 1))
    BY <2>1
  <2>3. s.lanes \in [1 .. 1 -> 0 .. 0]
    BY <2>1
  <2>4. \A i \in 1 .. 1 : s.pred[i] = {}
    BY <2>1
  <2> QED
    BY <2>1, <2>2, <2>3, <2>4 DEF WellFormed, ordersBefore
<1>2. CASE \E g \in Graphs : s \in SendersOf[g]
  BY <1>2, SendersWellFormed
<1> QED
  BY <1>1, <1>2 DEF Expressions

\* A stage's fence is its own or that of a later stage on its queue, which has its own; a
\* stage with a successor on another queue has its own.
LEMMA FenceFacts ==
    ASSUME NEW s, NEW b, WellFormed(s), NEW n, n = Len(s.pred),
           NEW idx, idx = fenceIndices(s, b)
    PROVE  /\ n \in Nat /\ idx \in [1 .. n -> 1 .. n]
           /\ \A i \in 1 .. n : /\ i <= idx[i] /\ idx[idx[i]] = idx[i]
                                /\ queueOf(s, b, idx[i]) = queueOf(s, b, i)
           /\ \A i \in 1 .. n : \A j \in s.pred[i] :
                 queueOf(s, b, j) # queueOf(s, b, i) => idx[j] = j
<1> DEFINE outgoing(i) == Cardinality({j \in 1 .. n : i \in s.pred[j]})
           shares(i) == /\ i < n /\ queueOf(s, b, i) = queueOf(s, b, i + 1) /\ i \in s.pred[i + 1]
                        /\ outgoing(i) = 1 /\ Cardinality(s.pred[i + 1]) = 1
           ends(i, k) == ~shares(k) /\ \A j \in i .. k - 1 : shares(j)
<1>1. n \in Nat /\ n > 0 /\ s.pred \in [1 .. n -> SUBSET (1 .. n)]
  BY DEF WellFormed
<1>2. idx = [i \in 1 .. n |-> CHOOSE k \in i .. n : ends(i, k)]
  BY DEF fenceIndices
<1>3. ~shares(n)
  OBVIOUS
<1>4. ASSUME NEW i \in 1 .. n, shares(i)
      PROVE  queueOf(s, b, i) = queueOf(s, b, i + 1) /\ \A j \in 1 .. n : i \in s.pred[j] => j = i + 1
  <2> DEFINE W == {j \in 1 .. n : i \in s.pred[j]}
  <2>1. Cardinality(W) = 1 /\ i + 1 \in W
    BY <1>1, <1>4
  <2>2. IsFiniteSet(W)
    <3>1. IsFiniteSet(1 .. n)
      BY <1>1, FS_Interval
    <3> QED
      BY <3>1, FS_Subset
  <2>3. PICK x : W = {x}
    BY <2>1, <2>2, FS_Singleton
  <2>4. \A j \in W : j = i + 1
    BY <2>1, <2>3
  <2> QED
    BY <1>4, <2>4
<1> HIDE DEF shares
<1>5. ASSUME NEW i \in 1 .. n
      PROVE  \E k \in i .. n : ends(i, k)
  <2> DEFINE T == {k \in i .. n : ~shares(k)}
  <2>1. T \in SUBSET Nat /\ T # {}
    BY <1>1, <1>3
  <2>2. PICK k \in T : \A l \in T : k <= l
    <3> HIDE DEF T
    <3> QED
      BY <2>1, SmallestOf
  <2>3. k \in i .. n /\ ~shares(k)
    OBVIOUS
  <2>4. \A j \in i .. k - 1 : shares(j)
    <3>1. \A j \in i .. k - 1 : j \notin T /\ j \in i .. n
      BY <1>1, <2>2, <2>3
    <3> QED
      BY <3>1
  <2> QED
    BY <2>3, <2>4
<1>6. ASSUME NEW i \in 1 .. n
      PROVE  idx[i] \in i .. n /\ ends(i, idx[i])
  <2> HIDE DEF ends
  <2> QED
    BY <1>2, <1>5
<1>7. \A i \in 1 .. n : ~shares(i) => idx[i] = i
  <2> SUFFICES ASSUME NEW i \in 1 .. n, ~shares(i)
               PROVE  idx[i] = i
    OBVIOUS
  <2>1. idx[i] \in i .. n /\ \A j \in i .. idx[i] - 1 : shares(j)
    BY <1>6
  <2> QED
    BY <1>1, <2>1
<1>8. idx \in [1 .. n -> 1 .. n]
  BY <1>1, <1>2, <1>6
<1>9. ASSUME NEW i \in 1 .. n
      PROVE  i <= idx[i] /\ idx[idx[i]] = idx[i]
  <2>1. idx[i] \in i .. n /\ ~shares(idx[i])
    BY <1>6
  <2> QED
    BY <1>1, <1>7, <2>1
<1>10. ASSUME NEW i \in 1 .. n
       PROVE  queueOf(s, b, idx[i]) = queueOf(s, b, i)
  <2> DEFINE T == {j \in i .. idx[i] : queueOf(s, b, j) # queueOf(s, b, i)}
  <2>1. idx[i] \in i .. n /\ \A j \in i .. idx[i] - 1 : shares(j)
    BY <1>6
  <2>2. SUFFICES ASSUME T # {}
                 PROVE  FALSE
    BY <1>1, <2>1
  <2>3. T \in SUBSET Nat
    BY <1>1, <2>1
  <2>4. PICK j \in T : \A l \in T : j <= l
    <3> HIDE DEF T
    <3> QED
      BY <2>2, <2>3, SmallestOf
  <2>5. j \in i .. idx[i] /\ queueOf(s, b, j) # queueOf(s, b, i) /\ j # i
    OBVIOUS
  <2>6. j - 1 \in i .. idx[i] - 1 /\ j - 1 \in 1 .. n /\ j - 1 \notin T
    BY <1>1, <2>1, <2>4, <2>5
  <2>7. queueOf(s, b, j - 1) = queueOf(s, b, i)
    BY <1>1, <2>1, <2>6
  <2>8. queueOf(s, b, j - 1) = queueOf(s, b, (j - 1) + 1)
    BY <1>4, <2>1, <2>6
  <2>9. (j - 1) + 1 = j
    BY <1>1, <2>1, <2>5
  <2> QED
    BY <2>5, <2>7, <2>8, <2>9
<1>11. ASSUME NEW i \in 1 .. n, NEW j \in s.pred[i], queueOf(s, b, j) # queueOf(s, b, i)
       PROVE  idx[j] = j
  <2>1. j \in 1 .. n
    BY <1>1
  <2>2. ~shares(j)
    BY <1>4, <1>11, <2>1
  <2> QED
    BY <1>7, <2>1, <2>2
<1> QED
  BY <1>1, <1>8, <1>9, <1>10, <1>11

-----------------------------------------------------------------------------
(* Leases.                                                                 *)

\* Fences are numbered from the last to the first without gap or repetition.
LEMMA DescendingRanks ==
    ASSUME NEW I \in SUBSET Nat, IsFiniteSet(I)
    PROVE  /\ \A i \in I : Cardinality({j \in I : j >= i}) \in 1 .. Cardinality(I)
           /\ \A i, k \in I : Cardinality({j \in I : j >= i}) = Cardinality({j \in I : j >= k}) => i = k
<1> DEFINE above(i) == {j \in I : j >= i}
<1>1. Cardinality(I) \in Nat
  BY FS_CardinalityType
<1>2. \A i \in I : /\ IsFiniteSet(above(i)) /\ Cardinality(above(i)) \in Nat
                   /\ Cardinality(above(i)) <= Cardinality(I) /\ i \in above(i)
  <2> TAKE i \in I
  <2>1. above(i) \in SUBSET I
    OBVIOUS
  <2>2. i \in above(i)
    OBVIOUS
  <2> HIDE DEF above
  <2> QED
    BY <2>1, <2>2, FS_Subset, FS_CardinalityType
<1>3. ASSUME NEW i \in I, NEW k \in I, i < k
      PROVE  Cardinality(above(i)) # Cardinality(above(k))
  <2>0. i \in Nat /\ k \in Nat /\ \A j \in I : j \in Nat
    OBVIOUS
  <2>1. above(k) \in SUBSET above(i) /\ i \notin above(k) /\ i \in above(i)
    <3>1. \A j \in I : j >= k => j >= i
      BY <1>3, <2>0
    <3>2. ~(i >= k) /\ i >= i
      BY <1>3, <2>0
    <3> QED
      BY <3>1, <3>2, Zenon
  <2> HIDE DEF above
  <2> QED
    BY <1>2, <2>1, FS_Subset
<1>4. \A i \in I : Cardinality(above(i)) \in 1 .. Cardinality(I)
  <2> TAKE i \in I
  <2>1. Cardinality(above(i)) # 0
    <3> HIDE DEF above
    <3> QED
      BY <1>2, FS_EmptySet
  <2> HIDE DEF above
  <2> QED
    BY <1>1, <1>2, <2>1
<1>5. \A i, k \in I : Cardinality(above(i)) = Cardinality(above(k)) => i = k
  <2> TAKE i, k \in I
  <2>1. CASE i < k
    BY <1>3, <2>1
  <2>2. CASE k < i
    BY <1>3, <2>2
  <2>3. i \in Nat /\ k \in Nat
    OBVIOUS
  <2> HIDE DEF above
  <2> QED
    BY <2>1, <2>2, <2>3
<1> QED
  BY <1>4, <1>5

\* ... and from the first to the last.
LEMMA AscendingRanks ==
    ASSUME NEW I \in SUBSET Nat, IsFiniteSet(I)
    PROVE  \A k \in 1 .. Cardinality(I) : \E i \in I : Cardinality({j \in I : j <= i}) = k
<1> DEFINE below(i) == {j \in I : j <= i}
           N == Cardinality(I)
           r == [i \in I |-> Cardinality(below(i))]
<1>1. N \in Nat
  BY FS_CardinalityType
<1>2. \A i \in I : /\ IsFiniteSet(below(i)) /\ Cardinality(below(i)) \in Nat
                   /\ Cardinality(below(i)) <= N /\ i \in below(i)
  <2> TAKE i \in I
  <2>1. below(i) \in SUBSET I
    OBVIOUS
  <2>2. i \in below(i)
    OBVIOUS
  <2> HIDE DEF below
  <2> QED
    BY <2>1, <2>2, FS_Subset, FS_CardinalityType
<1>3. ASSUME NEW i \in I, NEW k \in I, i < k
      PROVE  Cardinality(below(i)) # Cardinality(below(k))
  <2>0. i \in Nat /\ k \in Nat /\ \A j \in I : j \in Nat
    OBVIOUS
  <2>1. below(i) \in SUBSET below(k) /\ k \notin below(i) /\ k \in below(k)
    <3>1. \A j \in I : j <= i => j <= k
      BY <1>3, <2>0
    <3>2. ~(k <= i) /\ k <= k
      BY <1>3, <2>0
    <3> QED
      BY <3>1, <3>2, Zenon
  <2> HIDE DEF below
  <2> QED
    BY <1>2, <2>1, FS_Subset
<1>4. \A i \in I : Cardinality(below(i)) \in 1 .. N
  <2> TAKE i \in I
  <2>1. Cardinality(below(i)) # 0
    <3> HIDE DEF below
    <3> QED
      BY <1>2, FS_EmptySet
  <2> HIDE DEF below, N
  <2> QED
    BY <1>1, <1>2, <2>1
<1>5. \A i, k \in I : Cardinality(below(i)) = Cardinality(below(k)) => i = k
  <2> TAKE i, k \in I
  <2>1. CASE i < k
    BY <1>3, <2>1
  <2>2. CASE k < i
    BY <1>3, <2>2
  <2>3. i \in Nat /\ k \in Nat
    OBVIOUS
  <2> HIDE DEF below
  <2> QED
    BY <2>1, <2>2, <2>3
<1>6. r \in Injection(I, 1 .. N)
  <2> HIDE DEF below, N
  <2>1. r \in [I -> 1 .. N]
    BY <1>4
  <2>2. \A i, k \in I : r[i] = r[k] => i = k
    BY <1>5
  <2> QED
    BY <2>1, <2>2 DEF Injection, IsInjective
<1>7. IsFiniteSet(1 .. N) /\ Cardinality(1 .. N) = Cardinality(I)
  BY <1>1, FS_Interval
<1>8. r \in Surjection(I, 1 .. N)
  <2> HIDE DEF r, N
  <2> QED
    BY <1>6, <1>7, FS_Injection
<1>9. \A k \in 1 .. N : \E i \in I : r[i] = k
  BY <1>8 DEF Surjection
<1> QED
  BY <1>9

\* EventPool::acquire for all fences: the first recycled events, then events made for them,
\* each once.
LEMMA AcquiredEvents ==
    ASSUME NEW I \in SUBSET Nat, IsFiniteSet(I), made \in Nat, NEW leased \in Seq(1 .. made),
           \A k, l \in 1 .. Len(leased) : leased[k] = leased[l] => k = l,
           NEW recycled, recycled = Min({Len(leased), Cardinality(I)}),
           NEW fresh, fresh = Cardinality(I) - recycled,
           NEW events, events = acquireEvents(leased, I)
    PROVE  /\ recycled \in 0 .. Len(leased) /\ fresh \in Nat
           /\ events \in [I -> 1 .. made + fresh]
           /\ \A i, j \in I : events[i] = events[j] => i = j
           /\ \A i \in I : events[i] > made \/ \E k \in 1 .. recycled : events[i] = leased[k]
<1> DEFINE N == Cardinality(I)
           rank(i) == Cardinality({j \in I : j >= i})
           new == [k \in 1 .. N |-> made + k]
           supply == leased \o new
<1>1. N \in Nat /\ Len(leased) \in Nat
  BY FS_CardinalityType
<1>2. recycled \in {Len(leased), N} /\ recycled <= Len(leased) /\ recycled <= N
  <2>1. \E x \in {Len(leased), N} : \A y \in {Len(leased), N} : x <= y
    <3> HIDE DEF N
    <3> QED
      BY <1>1
  <2>2. /\ Min({Len(leased), N}) \in {Len(leased), N}
        /\ \A y \in {Len(leased), N} : Min({Len(leased), N}) <= y
    <3> HIDE DEF N
    <3> QED
      BY <2>1 DEF Min
  <2> QED
    BY <2>2
<1>3. \A i \in I : rank(i) \in 1 .. N
  BY DescendingRanks
<1>4. \A i, k \in I : rank(i) = rank(k) => i = k
  BY DescendingRanks
<1>5. events = [i \in I |-> supply[rank(i)]]
  BY DEF acquireEvents
<1> HIDE DEF rank
<1>6. fresh = N - recycled
  OBVIOUS
<1> HIDE DEF N
<1>7. new \in Seq(Nat) /\ Len(new) = N /\ \A k \in 1 .. N : new[k] = made + k
  BY <1>1
<1>8. leased \in Seq(Nat)
  BY SMT
<1>9. /\ supply \in Seq(Nat) /\ Len(supply) = Len(leased) + N
      /\ \A k \in 1 .. Len(leased) + N :
            supply[k] = IF k <= Len(leased) THEN leased[k] ELSE made + (k - Len(leased))
  <2> HIDE DEF new
  <2>1. /\ supply \in Seq(Nat) /\ Len(supply) = Len(leased) + Len(new)
        /\ \A k \in 1 .. Len(leased) + Len(new) :
              supply[k] = IF k <= Len(leased) THEN leased[k] ELSE new[k - Len(leased)]
    BY <1>7, <1>8, ConcatProperties
  <2>2. \A k \in 1 .. Len(leased) + N : k > Len(leased) => k - Len(leased) \in 1 .. N
    BY <1>1
  <2> QED
    BY <1>1, <1>7, <2>1, <2>2
<1> HIDE DEF supply
<1>10. \A k \in 1 .. Len(leased) : leased[k] \in 1 .. made
  OBVIOUS
<1>11. fresh \in Nat /\ recycled \in Nat
  <2> HIDE DEF N
  <2> QED
    BY <1>1, <1>2, <1>6
<1>12. ASSUME NEW i \in I
       PROVE  \/ rank(i) <= Len(leased) /\ rank(i) \in 1 .. recycled /\ events[i] = leased[rank(i)]
              \/ /\ rank(i) > Len(leased) /\ events[i] = made + (rank(i) - Len(leased))
                 /\ rank(i) - Len(leased) \in 1 .. fresh
  <2>1. rank(i) \in 1 .. N
    BY <1>3
  <2>2. events[i] = supply[rank(i)]
    BY <1>5
  <2>3. events[i] = IF rank(i) <= Len(leased) THEN leased[rank(i)] ELSE made + (rank(i) - Len(leased))
    BY <1>1, <1>9, <2>1, <2>2, SMTT(30)
  <2>4. CASE rank(i) <= Len(leased)
    BY <1>1, <1>2, <1>11, <2>1, <2>3, <2>4
  <2>5. CASE ~(rank(i) <= Len(leased))
    <3>1. recycled = Len(leased) /\ rank(i) > Len(leased)
      BY <1>1, <1>2, <2>1, <2>5
    <3> QED
      BY <1>1, <1>6, <1>11, <2>1, <2>3, <2>5, <3>1
  <2> QED
    BY <2>4, <2>5
<1>13. ASSUME NEW i \in I
       PROVE  events[i] \in 1 .. made + fresh
  <2>1. CASE rank(i) <= Len(leased) /\ rank(i) \in 1 .. recycled /\ events[i] = leased[rank(i)]
    BY <1>1, <1>10, <1>11, <2>1
  <2>2. CASE /\ rank(i) > Len(leased) /\ events[i] = made + (rank(i) - Len(leased))
             /\ rank(i) - Len(leased) \in 1 .. fresh
    BY <1>1, <1>11, <2>2
  <2> QED
    BY <1>12, <2>1, <2>2
<1>14. ASSUME NEW i \in I, NEW j \in I, events[i] = events[j]
       PROVE  i = j
  <2>1. rank(i) \in 1 .. N /\ rank(j) \in 1 .. N
    BY <1>3
  <2> DEFINE ri == rank(i)
             rj == rank(j)
  <2>2. \/ ri <= Len(leased) /\ events[i] = leased[ri] /\ leased[ri] <= made
        \/ ri > Len(leased) /\ events[i] = made + (ri - Len(leased)) /\ events[i] > made
    <3>1. ri \in 1 .. N
      BY <2>1
    <3> HIDE DEF ri
    <3>2. \/ ri <= Len(leased) /\ events[i] = leased[ri]
          \/ ri > Len(leased) /\ events[i] = made + (ri - Len(leased))
      BY <1>12 DEF ri
    <3> QED
      BY <1>1, <1>10, <3>1, <3>2
  <2>3. \/ rj <= Len(leased) /\ events[j] = leased[rj] /\ leased[rj] <= made
        \/ rj > Len(leased) /\ events[j] = made + (rj - Len(leased)) /\ events[j] > made
    <3>1. rj \in 1 .. N
      BY <2>1
    <3> HIDE DEF rj
    <3>2. \/ rj <= Len(leased) /\ events[j] = leased[rj]
          \/ rj > Len(leased) /\ events[j] = made + (rj - Len(leased))
      BY <1>12 DEF rj
    <3> QED
      BY <1>1, <1>10, <3>1, <3>2
  <2>4. ri \in 1 .. N /\ rj \in 1 .. N
    BY <2>1
  <2>5. ri = rj
    <3> HIDE DEF ri, rj
    <3>1. CASE ri <= Len(leased) /\ rj <= Len(leased)
      BY <1>1, <1>14, <2>2, <2>3, <2>4, <3>1
    <3>2. CASE ri > Len(leased) /\ rj > Len(leased)
      BY <1>1, <1>14, <2>2, <2>3, <2>4, <3>2
    <3>3. CASE ri <= Len(leased) /\ rj > Len(leased)
      <4>1. leased[ri] \in 1 .. made
        BY <1>1, <1>10, <2>4, <3>3
      <4> QED
        BY <1>1, <1>14, <2>2, <2>3, <2>4, <3>3, <4>1
    <3>4. CASE ri > Len(leased) /\ rj <= Len(leased)
      <4>1. leased[rj] \in 1 .. made
        BY <1>1, <1>10, <2>4, <3>4
      <4> QED
        BY <1>1, <1>14, <2>2, <2>3, <2>4, <3>4, <4>1
    <3> QED
      BY <1>1, <2>4, <3>1, <3>2, <3>3, <3>4
  <2> QED
    BY <1>4, <2>5
<1>15. ASSUME NEW i \in I
       PROVE  events[i] > made \/ \E k \in 1 .. recycled : events[i] = leased[k]
  <2>1. rank(i) \in 1 .. N
    BY <1>3
  <2>2. CASE rank(i) <= Len(leased) /\ rank(i) \in 1 .. recycled /\ events[i] = leased[rank(i)]
    BY <2>2
  <2>3. CASE /\ rank(i) > Len(leased) /\ events[i] = made + (rank(i) - Len(leased))
             /\ rank(i) - Len(leased) \in 1 .. fresh
    BY <1>1, <1>11, <2>3
  <2> QED
    BY <1>12, <2>2, <2>3
<1>16. events \in [I -> 1 .. made + fresh]
  BY <1>5, <1>13
<1>17. recycled \in 0 .. Len(leased)
  BY <1>1, <1>2, <1>11
<1> HIDE DEF N
<1> QED
  BY <1>11, <1>14, <1>15, <1>16, <1>17

\* The events that return, in either order: each event of the graph's fences at most once.
LEMMA ReturnedEvents ==
    ASSUME NEW g \in Graphs, NEW D \in SUBSET Nat, IsFiniteSet(D), made \in Nat,
           fence[g] \in [D -> 1 .. made],
           \A i, j \in D : fence[g][i] = fence[g][j] => i = j,
           NEW back \in {eventsOf(g), Reverse(eventsOf(g))}
    PROVE  /\ back \in Seq(1 .. made)
           /\ \A k \in 1 .. Len(back) : \E i \in D : back[k] = fence[g][i]
           /\ \A k, l \in 1 .. Len(back) : back[k] = back[l] => k = l
<1> DEFINE N == Cardinality(D)
           rank(i) == Cardinality({j \in D : j <= i})
           at(k) == CHOOSE i \in D : rank(i) = k
           evs == eventsOf(g)
<1>1. N \in Nat
  BY FS_CardinalityType
<1>2. \A k \in 1 .. N : \E i \in D : rank(i) = k
  BY AscendingRanks
<1>3. evs = [k \in 1 .. N |-> fence[g][at(k)]]
  <2>1. DOMAIN fence[g] = D
    OBVIOUS
  <2> QED
    BY <2>1 DEF eventsOf
<1> HIDE DEF rank, evs, N
<1>4. \A k \in 1 .. N : at(k) \in D /\ rank(at(k)) = k
  BY <1>2
<1> HIDE DEF at
<1>5. \A k \in 1 .. N : evs[k] \in 1 .. made /\ evs[k] = fence[g][at(k)]
  BY <1>3, <1>4
<1>6. evs \in Seq(1 .. made) /\ Len(evs) = N
  BY <1>1, <1>3, <1>5
<1>7. \A k, l \in 1 .. N : evs[k] = evs[l] => k = l
  BY <1>4, <1>5, ZenonT(60)
<1>8. CASE back = evs
  BY <1>4, <1>5, <1>6, <1>7, <1>8
<1>9. CASE back = Reverse(evs)
  <2>1. back = [k \in 1 .. N |-> evs[(N - k) + 1]]
    BY <1>6, <1>9 DEF Reverse
  <2>2. \A k \in 1 .. N : (N - k) + 1 \in 1 .. N
    BY <1>1
  <2>3. back \in Seq(1 .. made) /\ Len(back) = N
    BY <1>1, <1>5, <2>1, <2>2
  <2>4. \A k \in 1 .. N : back[k] = fence[g][at((N - k) + 1)]
    BY <1>5, <2>1, <2>2
  <2>5. ASSUME NEW k \in 1 .. N, NEW l \in 1 .. N, back[k] = back[l]
        PROVE  k = l
    <3>1. (N - k) + 1 = (N - l) + 1
      BY <1>7, <2>1, <2>2, <2>5
    <3> QED
      BY <1>1, <3>1
  <2> QED
    BY <1>4, <2>2, <2>3, <2>4, <2>5
<1> QED
  BY <1>8, <1>9 DEF evs

\* Behind the first queues there is always another one nobody leases.
LEMMA UnleasedQueue ==
    ASSUME NEW M \in Nat, NEW L \in SUBSET (0 .. M - 1), NEW lane \in Nat
    PROVE  \E q \in 0 .. M + lane : q \notin L /\ Cardinality((0 .. q - 1) \ L) = lane
<1> DEFINE found(k) == \E q \in 0 .. M + k : q \notin L /\ Cardinality((0 .. q - 1) \ L) = k
           T == {k \in Nat : ~found(k)}
<1>1. SUFFICES ASSUME T # {}
               PROVE  FALSE
  OBVIOUS
<1>2. PICK k \in T : \A l \in T : k <= l
  <2>1. T \in SUBSET Nat
    OBVIOUS
  <2> HIDE DEF T
  <2> QED
    BY <1>1, <2>1, SmallestOf
<1>3. \* The next queue nobody leases.
      ASSUME NEW from \in Nat
      PROVE  \E q \in Nat : /\ from <= q /\ q \notin L /\ (q <= M \/ q = from)
                            /\ \A p \in from .. q - 1 : p \in L
  <2> DEFINE U == {q \in Nat : from <= q /\ q \notin L}
  <2>1. U \in SUBSET Nat /\ M + from \in U
    OBVIOUS
  <2>2. PICK q \in U : \A p \in U : q <= p
    <3> HIDE DEF U
    <3> QED
      BY <2>1, SmallestOf
  <2>3. q \in Nat /\ from <= q /\ q \notin L
    OBVIOUS
  <2>4. \A p \in from .. q - 1 : p \in L
    <3> SUFFICES ASSUME NEW p \in from .. q - 1, p \notin L
                 PROVE  FALSE
      OBVIOUS
    <3>1. p \in U
      BY <2>3
    <3> QED
      BY <2>2, <2>3, <3>1
  <2>5. q <= M \/ q = from
    <3> SUFFICES ASSUME ~(q <= M), q # from
                 PROVE  FALSE
      OBVIOUS
    <3>1. q - 1 \in from .. q - 1
      BY <2>3
    <3>2. q - 1 \in L
      BY <2>4, <3>1
    <3> QED
      BY <2>3, <3>2
  <2> QED
    BY <2>3, <2>4, <2>5
<1>4. CASE k = 0
  <2>1. PICK q \in Nat : 0 <= q /\ q \notin L /\ (q <= M \/ q = 0) /\ \A p \in 0 .. q - 1 : p \in L
    BY <1>3
  <2>2. (0 .. q - 1) \ L = {}
    BY <2>1
  <2>3. Cardinality((0 .. q - 1) \ L) = 0
    BY <2>2, FS_EmptySet
  <2>4. q \in 0 .. M + 0
    BY <2>1
  <2>5. found(0)
    BY <2>1, <2>3, <2>4
  <2>6. found(k)
    BY <1>4, <2>5
  <2> QED
    BY <1>2, <2>6
<1>5. CASE k # 0
  <2>1. k \in Nat /\ k - 1 \in Nat /\ k - 1 \notin T
    <3>1. k \in Nat
      OBVIOUS
    <3> HIDE DEF T
    <3> QED
      BY <1>2, <1>5, <3>1
  <2>2. PICK p \in 0 .. M + (k - 1) : p \notin L /\ Cardinality((0 .. p - 1) \ L) = k - 1
    BY <2>1
  <2>3. PICK q \in Nat : p + 1 <= q /\ q \notin L /\ (q <= M \/ q = p + 1) /\ \A x \in p + 1 .. q - 1 : x \in L
    <3>1. p + 1 \in Nat
      OBVIOUS
    <3> QED
      BY <1>3, <3>1
  <2>4. (0 .. q - 1) \ L = ((0 .. p - 1) \ L) \cup {p}
    <3>1. \A x \in (0 .. q - 1) \ L : x \in ((0 .. p - 1) \ L) \cup {p}
      BY <2>3
    <3>2. \A x \in ((0 .. p - 1) \ L) \cup {p} : x \in (0 .. q - 1) \ L
      BY <2>2, <2>3
    <3> QED
      BY <3>1, <3>2
  <2>5. IsFiniteSet((0 .. p - 1) \ L)
    <3>1. IsFiniteSet(0 .. p - 1)
      BY FS_Interval
    <3> QED
      BY <3>1, FS_Difference
  <2>6. Cardinality((0 .. q - 1) \ L) = k
    <3>1. p \notin (0 .. p - 1) \ L
      OBVIOUS
    <3>2. Cardinality(((0 .. p - 1) \ L) \cup {p}) = (k - 1) + 1
      BY <2>2, <2>5, <3>1, FS_AddElement
    <3>3. (k - 1) + 1 = k
      BY <2>1
    <3> QED
      BY <2>4, <3>2, <3>3, Zenon
  <2>7. q \in 0 .. M + k
    BY <2>1, <2>3
  <2>8. found(k)
    BY <2>3, <2>6, <2>7
  <2> QED
    BY <1>2, <2>8
<1> QED
  BY <1>4, <1>5

-----------------------------------------------------------------------------
(* What the invariant says of one graph.                                   *)

\* The stages of a graph and their fences.
LEMMA GraphFacts ==
    ASSUME TypeInv, NEW g \in Graphs
    PROVE  /\ Count(g) \in Nat /\ Count(g) > 0 /\ Stages(g) = 1 .. Count(g)
           /\ \A i \in 1 .. Count(g) : \A j \in sender[g].pred[i] : j \in 1 .. Count(g) /\ j < i
           /\ index(g) \in [1 .. Count(g) -> 1 .. Count(g)]
           /\ \A i \in 1 .. Count(g) : /\ i <= index(g)[i] /\ index(g)[index(g)[i]] = index(g)[i]
                                       /\ qOf(g, index(g)[i]) = qOf(g, i)
           /\ \A i \in 1 .. Count(g) : \A j \in sender[g].pred[i] :
                 qOf(g, j) # qOf(g, i) => index(g)[j] = j
<1>1. WellFormed(sender[g])
  BY ExpressionsWellFormed DEF TypeInv
<1>2. /\ Count(g) \in Nat /\ Count(g) > 0 /\ Stages(g) = 1 .. Count(g)
      /\ sender[g].pred \in [1 .. Count(g) -> SUBSET (1 .. Count(g))]
      /\ \A i \in 1 .. Count(g) : \A j \in sender[g].pred[i] : j < i
  BY <1>1 DEF WellFormed, Count, Stages
<1>3. /\ index(g) \in [1 .. Count(g) -> 1 .. Count(g)]
      /\ \A i \in 1 .. Count(g) : /\ i <= index(g)[i] /\ index(g)[index(g)[i]] = index(g)[i]
                                  /\ qOf(g, index(g)[i]) = qOf(g, i)
      /\ \A i \in 1 .. Count(g) : \A j \in sender[g].pred[i] :
            qOf(g, j) # qOf(g, i) => index(g)[j] = j
  <2> DEFINE s == sender[g]
             b == bound[g]
             n == Len(s.pred)
             idx == fenceIndices(s, b)
  <2>1. /\ n \in Nat /\ idx \in [1 .. n -> 1 .. n]
        /\ \A i \in 1 .. n : /\ i <= idx[i] /\ idx[idx[i]] = idx[i]
                             /\ queueOf(s, b, idx[i]) = queueOf(s, b, i)
        /\ \A i \in 1 .. n : \A j \in s.pred[i] :
              queueOf(s, b, j) # queueOf(s, b, i) => idx[j] = j
    <3> HIDE DEF s, b
    <3>1. WellFormed(s)
      BY <1>1 DEF s
    <3> QED
      BY <3>1, FenceFacts
  <2> QED
    BY <2>1, Zenon DEF Count, index, qOf
<1> QED
  BY <1>2, <1>3

\* The events and the queues of a connected graph.
LEMMA LeaseFacts ==
    ASSUME TypeInv, LeaseInv, NEW g \in Graphs
    PROVE  /\ DOMAIN fence[g] \in SUBSET (1 .. Count(g)) /\ IsFiniteSet(DOMAIN fence[g])
           /\ fence[g] \in [DOMAIN fence[g] -> 1 .. made]
           /\ live(g) => \A i \in 1 .. Count(g) :
                 /\ index(g)[i] \in DOMAIN fence[g] /\ qOf(g, i) \in Queues
                 /\ explicit(sender[g]) <=> qOf(g, i) >= MaxQueues
                 /\ ~explicit(sender[g]) =>
                       /\ \E lane \in DOMAIN bound[g] : qOf(g, i) = bound[g][lane]
                       /\ qOf(g, i) \in 0 .. MaxQueues - 1
<1>1. Count(g) \in Nat /\ index(g) \in [1 .. Count(g) -> 1 .. Count(g)]
  BY GraphFacts
<1>2. DOMAIN fence[g] \in SUBSET (1 .. Count(g)) /\ fence[g] \in [DOMAIN fence[g] -> 1 .. made]
  <2>1. CASE live(g)
    <3>1. fence[g] \in [Range(index(g)) -> 1 .. made]
      BY <2>1 DEF LeaseInv
    <3>2. Range(index(g)) \subseteq 1 .. Count(g)
      BY <1>1 DEF Range
    <3> QED
      BY <3>1, <3>2, Zenon
  <2>2. CASE ~live(g)
    <3>1. fence[g] = <<>>
      BY <2>2 DEF LeaseInv
    <3>2. DOMAIN fence[g] = {} /\ fence[g] \in [{} -> 1 .. made]
      BY <3>1
    <3> QED
      BY <3>2
  <2> QED
    BY <2>1, <2>2
<1>3. IsFiniteSet(DOMAIN fence[g])
  <2>1. IsFiniteSet(1 .. Count(g))
    BY <1>1, FS_Interval
  <2> QED
    BY <1>2, <2>1, FS_Subset
<1>4. ASSUME live(g), NEW i \in 1 .. Count(g)
      PROVE  /\ index(g)[i] \in DOMAIN fence[g] /\ qOf(g, i) \in Queues
             /\ explicit(sender[g]) <=> qOf(g, i) >= MaxQueues
             /\ ~explicit(sender[g]) =>
                   /\ \E lane \in DOMAIN bound[g] : qOf(g, i) = bound[g][lane]
                   /\ qOf(g, i) \in 0 .. MaxQueues - 1
  <2>1. index(g)[i] \in DOMAIN fence[g]
    BY <1>1, <1>4, ZenonT(60) DEF LeaseInv, Range
  <2>2. WellFormed(sender[g])
    BY ExpressionsWellFormed DEF TypeInv
  <2>3. QueueCount \in Nat /\ MaxQueues \in Nat /\ MaxQueues >= QueueCount /\ Borrowed \in Nat
    BY DeviceConstants
  <2>4. CASE explicit(sender[g])
    <3>1. qOf(g, i) \in MaxQueues .. MaxQueues + Borrowed - 1
      BY <2>2, <2>4 DEF WellFormed, explicit, qOf, queueOf, Count
    <3> QED
      BY <2>1, <2>3, <2>4, <3>1 DEF Queues
  <2>5. CASE ~explicit(sender[g])
    <3>1. /\ sender[g].lanes[i] \in 0 .. sender[g].count - 1
          /\ qOf(g, i) = bound[g][sender[g].lanes[i]]
      BY <2>2, <2>5 DEF WellFormed, qOf, queueOf, Count
    <3>2. bound[g] \in [0 .. sender[g].count - 1 ->
                           IF pool = "shared" THEN 0 .. QueueCount - 1 ELSE 0 .. MaxQueues - 1]
      BY <1>4, <2>5 DEF LeaseInv
    <3>3. qOf(g, i) \in 0 .. MaxQueues - 1 /\ sender[g].lanes[i] \in DOMAIN bound[g]
      <4>1. CASE pool = "shared"
        <5>1. bound[g] \in [0 .. sender[g].count - 1 -> 0 .. QueueCount - 1]
          BY <3>2, <4>1
        <5>2. qOf(g, i) \in 0 .. QueueCount - 1 /\ sender[g].lanes[i] \in DOMAIN bound[g]
          BY <3>1, <5>1, Zenon
        <5> QED
          BY <2>3, <5>2
      <4>2. CASE pool # "shared"
        <5>1. bound[g] \in [0 .. sender[g].count - 1 -> 0 .. MaxQueues - 1]
          BY <3>2, <4>2
        <5> QED
          BY <3>1, <5>1, Zenon
      <4> QED
        BY <4>1, <4>2
    <3> QED
      BY <2>1, <2>3, <2>5, <3>1, <3>3 DEF Queues
  <2> QED
    BY <2>4, <2>5
<1> QED
  BY <1>2, <1>3, <1>4

\* A graph with a command in a queue is live.
LEMMA CommandFacts ==
    ASSUME TypeInv, CommandInv, NEW q \in Queues, NEW p \in DOMAIN queue[q]
    PROVE  /\ DOMAIN queue[q] = 1 .. Len(queue[q]) /\ Len(queue[q]) \in Nat /\ p \in Nat
           /\ queue[q][p] \in Commands /\ queue[q][p].graph \in Graphs
           /\ live(queue[q][p].graph)
<1>1. queue[q] \in Seq(Commands)
  BY DEF TypeInv
<1>2. queue[q][p] \in Commands /\ DOMAIN queue[q] = 1 .. Len(queue[q]) /\ Len(queue[q]) \in Nat /\ p \in Nat
  BY <1>1
<1>3. queue[q][p].graph \in Graphs
  BY <1>2 DEF Commands
<1>4. phase[queue[q][p].graph] \in {"submit", "unlock", "publish", "posted"}
  BY DEF CommandInv
<1> QED
  BY <1>2, <1>3, <1>4 DEF live

-----------------------------------------------------------------------------
(* Steps that submit, execute and lease nothing.                           *)

DeviceInv == CommandInv /\ RecordInv /\ BehindInv /\ OrderInv /\ SerialInv
PoolInv == LeaseInv /\ EventInv /\ QueueInv

\* They leave the leases and the device as they are.
LEMMA QuietStep ==
    ASSUME TypeInv, PoolInv, DeviceInv, DOMAIN phase' = Graphs,
           UNCHANGED <<pool, sender, bound, stage, fence, eventVars, deviceVars>>,
           \A g \in Graphs : live(g)' <=> live(g),
           \A g \in Graphs : phase[g] \in {"submit", "unlock", "publish", "posted"}
                             => phase'[g] \in {"submit", "unlock", "publish", "posted"},
           \A g \in Graphs : phase'[g] = "submit" => phase[g] \in {"bound", "locking", "submit"}
    PROVE  PoolInv' /\ DeviceInv'
<1> USE DEF eventVars, deviceVars
<1>1. LeaseInv'
  BY DEF PoolInv, LeaseInv, index
<1>2. EventInv' /\ QueueInv'
  BY DEF PoolInv, EventInv, QueueInv
<1>3. CommandInv'
  <2>1. \A q \in Queues : \A p \in DOMAIN queue[q] : queue[q][p].graph \in Graphs
    BY CommandFacts DEF DeviceInv
  <2> QED
    BY <2>1 DEF DeviceInv, CommandInv, index, qOf
<1>4. RecordInv' /\ BehindInv' /\ OrderInv'
  <2>1. RecordInv'
    BY DEF DeviceInv, RecordInv
  <2>2. BehindInv'
    <3>1. queue' = queue /\ stage' = stage /\ fence' = fence /\ sender' = sender /\ bound' = bound
      OBVIOUS
    <3>2. \A g : index(g)' = index(g) /\ Count(g)' = Count(g)
      BY <3>1 DEF index, Count
    <3>3. BehindInv
      BY DEF DeviceInv
    <3> QED
      BY <3>1, <3>2, <3>3 DEF BehindInv, TaskAt, EventAt
  <2>3. OrderInv'
    BY DEF DeviceInv, OrderInv, index, TaskAt, EventAt
  <2> QED
    BY <2>1, <2>2, <2>3
<1>5. SerialInv'
  <2>1. \A q \in Queues : \A p \in DOMAIN queue[q] :
           phase'[queue[q][p].graph] = "submit" => phase[queue[q][p].graph] = "submit"
    BY CommandFacts DEF DeviceInv, CommandInv
  <2> QED
    BY <2>1 DEF DeviceInv, SerialInv, Apart
<1> QED
  BY <1>1, <1>2, <1>3, <1>4, <1>5 DEF PoolInv, DeviceInv

ControlInv == StageInv /\ LockInv /\ WorkInv /\ StopInv

\* Start: nobody has submitted or locked anything for the graph.
LEMMA StartStep ==
    ASSUME TypeInv, ControlInv, PoolInv, DeviceInv, NEW g \in Graphs, Start(g)
    PROVE  TypeInv' /\ ControlInv' /\ PoolInv' /\ DeviceInv'
<1> USE DEF Start, eventVars, deviceVars, workerVars
<1> DEFINE next == IF pool = "shared" /\ ~explicit(sender[g]) THEN "locking" ELSE "submit"
<1>0. phase' = [phase EXCEPT ![g] = next] /\ next \in {"locking", "submit"} /\ phase[g] = "bound"
  OBVIOUS
<1>1. TypeInv'
  BY <1>0 DEF TypeInv, Phases
<1>2. phase' \in [Graphs -> Phases] /\ phase'[g] = next /\ \A h \in Graphs : h # g => phase'[h] = phase[h]
  BY <1>0, <1>1 DEF TypeInv
<1> HIDE DEF next
<1>3. StageInv'
  <2>1. Count(g) > 0
    BY GraphFacts
  <2> QED
    BY <1>0, <1>2, <2>1 DEF ControlInv, StageInv, Count
<1>4. LockInv'
  <2>1. \A q \in Queues : holder[q] # None => holder[q] # g /\ holder[q] \in Graphs
    BY <1>0, ZenonT(60) DEF ControlInv, LockInv, TypeInv
  <2>2. distinct(g) # {} /\ held(g) = {}
    <3>1. held(g) = {}
      BY <2>1, DeviceConstants DEF held
    <3>2. 1 \in Stages(g)
      BY GraphFacts
    <3> QED
      BY <3>1, <3>2 DEF distinct
  <2>3. \A q \in Queues : holder'[q] # None => phase'[holder'[q]] \in {"locking", "submit", "unlock"}
    BY <1>2, <2>1 DEF ControlInv, LockInv
  <2>4. \A h \in Graphs : distinct(h)' = distinct(h) /\ held(h)' = held(h)
    BY DEF distinct, held, Stages
  <2>5. ASSUME NEW h \in Graphs
        PROVE  /\ phase'[h] = "locking" =>
                     distinct(h) \ held(h) # {} /\ pool = "shared" /\ ~explicit(sender[h])
               /\ phase'[h] = "submit" /\ pool = "shared" /\ ~explicit(sender[h])
                     => distinct(h) \subseteq held(h)
               /\ phase'[h] = "unlock" => held(h) # {}
    <3>1. CASE h = g
      BY <1>2, <2>2, <3>1 DEF next
    <3>2. CASE h # g
      BY <1>2, <3>2 DEF ControlInv, LockInv
    <3> QED
      BY <3>1, <3>2
  <2> QED
    BY <2>3, <2>4, <2>5 DEF LockInv
<1>5. WorkInv'
  BY <1>0, <1>2 DEF ControlInv, WorkInv, Listed
<1>6. StopInv'
  <2>1. stopped => runner = g
    BY DEF TypeInv
  <2> QED
    BY <1>0, <1>2, <2>1 DEF ControlInv, StopInv
<1>7. PoolInv' /\ DeviceInv'
  BY <1>0, <1>2, QuietStep DEF live
<1> QED
  BY <1>1, <1>3, <1>4, <1>5, <1>6, <1>7 DEF ControlInv

\* LockQueue: one mutex more, none taken away.
LEMMA LockStep ==
    ASSUME TypeInv, ControlInv, PoolInv, DeviceInv, NEW g \in Graphs, LockQueue(g)
    PROVE  TypeInv' /\ ControlInv' /\ PoolInv' /\ DeviceInv'
<1> USE DEF LockQueue, eventVars, deviceVars, workerVars
<1> DEFINE m == nextLock(g)
           next == IF {m} = distinct(g) \ held(g) THEN "submit" ELSE "locking"
<1>0. /\ phase' = [phase EXCEPT ![g] = next] /\ next \in {"locking", "submit"} /\ phase[g] = "locking"
      /\ holder' = [holder EXCEPT ![m] = g] /\ holder[m] = None
  OBVIOUS
<1>1. pool = "shared" /\ ~explicit(sender[g]) /\ distinct(g) \ held(g) # {}
  BY <1>0 DEF ControlInv, LockInv
<1>2. m \in distinct(g) \ held(g) /\ m \in Queues
  <2>1. live(g)
    BY <1>0 DEF live
  <2>2. \A q \in distinct(g) : q \in Queues
    BY <2>1, GraphFacts, LeaseFacts DEF distinct, PoolInv, qOf
  <2>3. \A q \in Queues : q \in Nat
    BY DeviceConstants DEF Queues
  <2>4. distinct(g) \ held(g) \in SUBSET Nat
    BY <2>2, <2>3
  <2> QED
    BY <1>1, <2>2, <2>4, MinInSet DEF nextLock
<1> HIDE DEF m
<1>3. TypeInv'
  <2>1. UNCHANGED <<pool, sender, bound, m_next, stage, fence, free, made, queue, recorded, reached, executed,
                    posted, pending, deferred, worker, runner, stopped>>
    OBVIOUS
  <2> HIDE DEF next, LockQueue
  <2>2. phase' \in [Graphs -> Phases] /\ holder' \in [Queues -> Graphs \cup {None}]
    BY <1>0, <1>2 DEF TypeInv, Phases
  <2> QED
    BY <2>1, <2>2 DEF TypeInv
<1>4. phase' \in [Graphs -> Phases] /\ phase'[g] = next /\ \A h \in Graphs : h # g => phase'[h] = phase[h]
  BY <1>0, <1>3 DEF TypeInv
<1>5. /\ holder'[m] = g /\ \A q \in Queues : q # m => holder'[q] = holder[q]
  BY <1>0, <1>2 DEF TypeInv
<1>6. held(g)' = held(g) \cup {m} /\ \A h \in Graphs : h # g => held(h)' = held(h)
  <2>1. \A h \in Graphs : h # None
    BY DeviceConstants
  <2> QED
    BY <1>0, <1>2, <1>5, <2>1 DEF held
<1>7. \A h \in Graphs : distinct(h)' = distinct(h)
  BY DEF distinct, Stages
<1>8. StageInv'
  <2>1. Count(g) > 0
    BY GraphFacts
  <2> QED
    BY <1>0, <1>4, <2>1 DEF ControlInv, StageInv, Count
<1>9. LockInv'
  <2>1. ASSUME NEW q \in Queues, holder'[q] # None
        PROVE  phase'[holder'[q]] \in {"locking", "submit", "unlock"}
    <3>1. CASE q = m
      BY <1>0, <1>4, <1>5, <3>1
    <3>2. CASE q # m
      <4>1. holder'[q] = holder[q] /\ holder[q] \in Graphs
        BY <1>5, <2>1, <3>2 DEF TypeInv
      <4>2. phase[holder[q]] \in {"locking", "submit", "unlock"}
        BY <2>1, <4>1 DEF ControlInv, LockInv
      <4> QED
        BY <1>0, <1>4, <4>1, <4>2
    <3> QED
      BY <3>1, <3>2
  <2>2. ASSUME NEW h \in Graphs
        PROVE  /\ phase'[h] = "locking" =>
                     distinct(h)' \ held(h)' # {} /\ pool = "shared" /\ ~explicit(sender[h])
               /\ phase'[h] = "submit" /\ pool = "shared" /\ ~explicit(sender[h])
                     => distinct(h)' \subseteq held(h)'
               /\ phase'[h] = "unlock" => held(h)' # {}
    <3>1. CASE h = g
      BY <1>1, <1>2, <1>4, <1>6, <1>7, <3>1
    <3>2. CASE h # g
      BY <1>4, <1>6, <1>7, <3>2 DEF ControlInv, LockInv
    <3> QED
      BY <3>1, <3>2
  <2> QED
    BY <2>1, <2>2 DEF LockInv
<1> HIDE DEF next
<1>10. WorkInv'
  BY <1>0, <1>4 DEF ControlInv, WorkInv, Listed
<1>11. StopInv'
  BY <1>0, <1>4 DEF ControlInv, StopInv
<1>12. PoolInv' /\ DeviceInv'
  BY <1>0, <1>4, QuietStep DEF live
<1> QED
  BY <1>3, <1>8, <1>9, <1>10, <1>11, <1>12 DEF ControlInv

\* UnlockQueue: the last mutex goes with the phase.
LEMMA UnlockStep ==
    ASSUME TypeInv, ControlInv, PoolInv, DeviceInv, NEW g \in Graphs, UnlockQueue(g)
    PROVE  TypeInv' /\ ControlInv' /\ PoolInv' /\ DeviceInv'
<1> USE DEF UnlockQueue, eventVars, deviceVars, workerVars
<1> DEFINE m == Max(held(g))
           next == IF Cardinality(held(g)) = 1 THEN "publish" ELSE "unlock"
<1>0. /\ phase' = [phase EXCEPT ![g] = next] /\ next \in {"publish", "unlock"} /\ phase[g] = "unlock"
      /\ holder' = [holder EXCEPT ![m] = None]
  OBVIOUS
<1>1. m \in held(g) /\ m \in Queues
  <2>1. held(g) # {}
    BY <1>0 DEF ControlInv, LockInv
  <2>2. held(g) \in SUBSET (0 .. MaxQueues + Borrowed) /\ MaxQueues + Borrowed \in Nat
    BY DeviceConstants DEF held, Queues
  <2>3. \E x \in held(g) : \A y \in held(g) : y <= x
    BY <2>1, <2>2, LargestOf
  <2>4. \E x \in held(g) : \A y \in held(g) : x >= y
    BY <2>2, <2>3
  <2> QED
    BY <2>4 DEF Max, held
<1>2. IF next = "publish" THEN held(g) = {m} ELSE held(g) \ {m} # {}
  <2>1. IsFiniteSet(Queues)
    BY DeviceConstants, FS_Interval DEF Queues
  <2>2. IsFiniteSet(held(g))
    BY <2>1, FS_Subset DEF held
  <2>3. Cardinality(held(g)) = 1 <=> \E q : held(g) = {q}
    BY <2>2, FS_Singleton
  <2> HIDE DEF m
  <2> QED
    BY <1>1, <2>3
<1> HIDE DEF m, next
<1>3. TypeInv'
  BY <1>0 DEF TypeInv, Phases
<1>4. phase' \in [Graphs -> Phases] /\ phase'[g] = next /\ \A h \in Graphs : h # g => phase'[h] = phase[h]
  BY <1>0, <1>3 DEF TypeInv
<1>5. \A q \in Queues : holder'[q] = IF q = m THEN None ELSE holder[q]
  BY <1>0 DEF TypeInv
<1>6. held(g)' = held(g) \ {m} /\ \A h \in Graphs : h # g => held(h)' = held(h)
  <2>1. \A h \in Graphs : h # None
    BY DeviceConstants
  <2> QED
    BY <1>1, <1>5, <2>1 DEF held
<1>7. \A h \in Graphs : distinct(h)' = distinct(h)
  BY DEF distinct, Stages
<1>8. StageInv'
  BY <1>0, <1>4 DEF ControlInv, StageInv, Count
<1>9. LockInv'
  <2>1. ASSUME NEW q \in Queues, holder'[q] # None
        PROVE  phase'[holder'[q]] \in {"locking", "submit", "unlock"}
    <3>1. q # m /\ holder'[q] = holder[q] /\ holder[q] \in Graphs
      BY <1>5, <2>1 DEF TypeInv
    <3>2. phase[holder[q]] \in {"locking", "submit", "unlock"}
      BY <2>1, <3>1 DEF ControlInv, LockInv
    <3>3. CASE holder[q] = g
      <4>1. q \in held(g) \ {m}
        BY <3>1, <3>3 DEF held
      <4>2. next = "unlock"
        BY <1>0, <1>2, <4>1
      <4> QED
        BY <1>4, <3>1, <3>3, <4>2
    <3>4. CASE holder[q] # g
      BY <1>4, <3>1, <3>2, <3>4
    <3> QED
      BY <3>3, <3>4
  <2>2. ASSUME NEW h \in Graphs
        PROVE  /\ phase'[h] = "locking" =>
                     distinct(h)' \ held(h)' # {} /\ pool = "shared" /\ ~explicit(sender[h])
               /\ phase'[h] = "submit" /\ pool = "shared" /\ ~explicit(sender[h])
                     => distinct(h)' \subseteq held(h)'
               /\ phase'[h] = "unlock" => held(h)' # {}
    <3>1. CASE h = g
      BY <1>0, <1>2, <1>4, <1>6, <3>1
    <3>2. CASE h # g
      BY <1>4, <1>6, <1>7, <3>2 DEF ControlInv, LockInv
    <3> QED
      BY <3>1, <3>2
  <2> QED
    BY <2>1, <2>2 DEF LockInv
<1>10. WorkInv'
  BY <1>0, <1>4 DEF ControlInv, WorkInv, Listed
<1>11. StopInv'
  BY <1>0, <1>4 DEF ControlInv, StopInv
<1>12. PoolInv' /\ DeviceInv'
  BY <1>0, <1>4, QuietStep DEF live
<1> QED
  BY <1>3, <1>8, <1>9, <1>10, <1>11, <1>12 DEF ControlInv

\* LockInv depends on phases, mutexes and bindings alone.
LEMMA LockUnchanged ==
    ASSUME TypeInv, LockInv, UNCHANGED <<pool, sender, bound, holder>>, DOMAIN phase' = Graphs,
           \A g \in Graphs : phase'[g] = phase[g]
                                \/ {phase[g], phase'[g]} \cap {"locking", "submit", "unlock"} = {}
    PROVE  LockInv'
<1>1. \A g \in Graphs : distinct(g)' = distinct(g) /\ held(g)' = held(g)
  BY DEF distinct, held, Stages
<1>2. \A q \in Queues : holder[q] # None => holder[q] \in Graphs
  BY DEF TypeInv
<1> QED
  BY <1>1, <1>2, ZenonT(60) DEF LockInv

\* Publish: the graph enters a list that does not hold it.
LEMMA PublishStep ==
    ASSUME TypeInv, ControlInv, PoolInv, DeviceInv, NEW g \in Graphs, Publish(g)
    PROVE  TypeInv' /\ ControlInv' /\ PoolInv' /\ DeviceInv'
<1> USE DEF Publish, eventVars, deviceVars
<1>0. /\ phase' = [phase EXCEPT ![g] = "posted"] /\ phase[g] = "publish" /\ posted' = Append(posted, g)
      /\ runner' = IF runner = g THEN None ELSE runner
  OBVIOUS
<1>1. TypeInv'
  BY <1>0 DEF TypeInv, Phases
<1>2. phase' \in [Graphs -> Phases] /\ phase'[g] = "posted" /\ \A h \in Graphs : h # g => phase'[h] = phase[h]
  BY <1>0, <1>1 DEF TypeInv
<1>3. StageInv'
  BY <1>0, <1>2 DEF ControlInv, StageInv, Count
<1>4. LockInv'
  BY <1>0, <1>2, LockUnchanged DEF ControlInv
<1>5. WorkInv'
  <2> DEFINE n == Len(posted)
  <2>1. /\ n \in Nat /\ DOMAIN posted = 1 .. n /\ DOMAIN posted' = 1 .. n + 1
        /\ \A i \in 1 .. n : posted'[i] = posted[i]
        /\ posted'[n + 1] = g
    BY <1>0 DEF TypeInv
  <2> HIDE DEF n
  <2>2. Range(posted') = Range(posted) \cup {g}
    BY <2>1 DEF Range
  <2>3. g \notin Listed
    BY <1>0 DEF ControlInv, WorkInv
  <2>4. Listed' = Listed \cup {g}
    BY <2>2 DEF Listed
  <2>5. \A h \in Graphs : h \in Listed' <=> phase'[h] = "posted"
    BY <1>0, <1>2, <2>4 DEF ControlInv, WorkInv
  <2>6. \A i \in DOMAIN posted : posted[i] # g
    BY <2>3 DEF Listed, Range
  <2>7. \A i, j \in DOMAIN posted' : posted'[i] = posted'[j] => i = j
    BY <2>1, <2>6 DEF ControlInv, WorkInv
  <2>8. (\A i \in DOMAIN pending : pending[i] # g) /\ (\A i \in DOMAIN deferred : deferred[i] # g)
    BY <2>3 DEF Listed, Range
  <2>9. /\ \A i \in DOMAIN posted', j \in DOMAIN pending : posted'[i] # pending[j]
        /\ \A i \in DOMAIN posted', j \in DOMAIN deferred : posted'[i] # deferred[j]
    BY <2>1, <2>8 DEF ControlInv, WorkInv
  <2>10. /\ \A i, j \in DOMAIN pending : pending[i] = pending[j] => i = j
         /\ \A i, j \in DOMAIN deferred : deferred[i] = deferred[j] => i = j
         /\ \A i \in DOMAIN pending, j \in DOMAIN deferred : pending[i] # deferred[j]
    BY DEF ControlInv, WorkInv
  <2>11. pending' = pending /\ deferred' = deferred
    OBVIOUS
  <2> HIDE DEF Publish
  <2> QED
    BY <2>5, <2>7, <2>9, <2>10, <2>11 DEF WorkInv
<1>6. StopInv'
  <2>1. runner' # None \/ deferred' # <<>> => worker' = "scan"
    BY <1>0 DEF ControlInv, StopInv
  <2>2. stopped => runner = g
    BY <1>0 DEF ControlInv, StopInv
  <2>3. worker = "gone" => runner = None
    BY DEF ControlInv, StopInv
  <2>4. worker # "gone"
    BY <2>2, <2>3, DeviceConstants DEF ControlInv, StopInv
  <2>5. stopped' => \A h \in Graphs :
           phase'[h] \in {"locking", "submit", "unlock", "publish"} => runner' = h
    BY <1>2, <2>2 DEF ControlInv, StopInv
  <2> QED
    BY <2>1, <2>4, <2>5 DEF StopInv
<1>7. PoolInv' /\ DeviceInv'
  BY <1>0, <1>2, QuietStep DEF live
<1> QED
  BY <1>1, <1>3, <1>4, <1>5, <1>6, <1>7 DEF ControlInv

\* Notify and Stop change what no other part depends on.
LEMMA NotifyStep ==
    ASSUME TypeInv, ControlInv, PoolInv, DeviceInv, NEW t, Notify(t)
    PROVE  TypeInv' /\ ControlInv' /\ PoolInv' /\ DeviceInv'
<1> USE DEF Notify, eventVars, deviceVars
<1>1. TypeInv'
  BY DEF TypeInv
<1>2. StageInv'
  BY DEF ControlInv, StageInv, Count
<1>3. LockInv'
  BY <1>1, LockUnchanged DEF ControlInv, TypeInv
<1>4. WorkInv'
  BY DEF ControlInv, WorkInv, Listed
<1>5. StopInv'
  BY DEF ControlInv, StopInv
<1>6. PoolInv' /\ DeviceInv'
  BY <1>1, QuietStep DEF live, TypeInv
<1> QED
  BY <1>1, <1>2, <1>3, <1>4, <1>5, <1>6 DEF ControlInv

LEMMA StopStep ==
    ASSUME TypeInv, ControlInv, PoolInv, DeviceInv, Stop
    PROVE  TypeInv' /\ ControlInv' /\ PoolInv' /\ DeviceInv'
<1> USE DEF Stop, eventVars, deviceVars, workerVars
<1>1. TypeInv'
  BY DEF TypeInv
<1>2. StageInv'
  BY DEF ControlInv, StageInv, Count
<1>3. LockInv'
  BY <1>1, LockUnchanged DEF ControlInv, TypeInv
<1>4. WorkInv'
  BY DEF ControlInv, WorkInv, Listed
<1>5. StopInv'
  BY DEF ControlInv, StopInv
<1>6. PoolInv' /\ DeviceInv'
  BY <1>1, QuietStep DEF live, TypeInv
<1> QED
  BY <1>1, <1>2, <1>3, <1>4, <1>5, <1>6 DEF ControlInv

\* Take: what was posted goes in front of what is pending.
LEMMA TakeStep ==
    ASSUME TypeInv, ControlInv, PoolInv, DeviceInv, Take
    PROVE  TypeInv' /\ ControlInv' /\ PoolInv' /\ DeviceInv'
<1> USE DEF Take, eventVars, deviceVars
<1>0. pending' = posted \o pending /\ posted' = <<>> /\ worker = "lock"
  OBVIOUS
<1>1. worker' \in {"gone", "scan", "asleep"} /\ (worker' = "gone" => mayLeave)
  OBVIOUS
<1>2. TypeInv'
  BY <1>0, <1>1 DEF TypeInv
<1>3. StageInv'
  BY DEF ControlInv, StageInv, Count
<1>4. LockInv'
  BY <1>2, LockUnchanged DEF ControlInv, TypeInv
<1>5. /\ Len(posted) \in Nat /\ Len(pending) \in Nat
      /\ DOMAIN posted = 1 .. Len(posted) /\ DOMAIN pending = 1 .. Len(pending)
      /\ DOMAIN pending' = 1 .. Len(posted) + Len(pending)
      /\ \A i \in 1 .. Len(posted) + Len(pending) :
            pending'[i] = IF i <= Len(posted) THEN posted[i] ELSE pending[i - Len(posted)]
      /\ posted' = <<>> /\ DOMAIN posted' = {} /\ deferred' = deferred
  BY <1>0 DEF TypeInv
<1>6. WorkInv'
  <2>1. Range(pending') = Range(posted) \cup Range(pending)
    BY <1>0, RangeConcatenation DEF TypeInv
  <2>2. Range(posted') = {}
    BY <1>5 DEF Range
  <2>3. Listed' = Listed
    BY <1>5, <2>1, <2>2 DEF Listed
  <2>4. \A h \in Graphs : h \in Listed' <=> phase'[h] = "posted"
    BY <2>3 DEF ControlInv, WorkInv
  <2> HIDE DEF Take
  <2>5. ASSUME NEW i \in DOMAIN pending', NEW j \in DOMAIN pending', pending'[i] = pending'[j]
        PROVE  i = j
    <3>1. /\ \A k, l \in DOMAIN posted : posted[k] = posted[l] => k = l
          /\ \A k, l \in DOMAIN pending : pending[k] = pending[l] => k = l
          /\ \A k \in DOMAIN posted, l \in DOMAIN pending : posted[k] # pending[l]
      BY DEF ControlInv, WorkInv
    <3>2. i \in 1 .. Len(posted) + Len(pending) /\ j \in 1 .. Len(posted) + Len(pending)
      BY <1>5
    <3>3. CASE i <= Len(posted) /\ j <= Len(posted)
      BY <1>5, <2>5, <3>1, <3>2, <3>3
    <3>4. CASE i > Len(posted) /\ j > Len(posted)
      <4>1. i - Len(posted) \in DOMAIN pending /\ j - Len(posted) \in DOMAIN pending
        BY <1>5, <3>2, <3>4
      <4>2. pending[i - Len(posted)] = pending[j - Len(posted)]
        BY <1>5, <2>5, <3>2, <3>4
      <4>3. i - Len(posted) = j - Len(posted)
        BY <3>1, <4>1, <4>2
      <4> QED
        BY <1>5, <3>2, <4>3
    <3>5. CASE i <= Len(posted) /\ j > Len(posted)
      <4>1. i \in DOMAIN posted /\ j - Len(posted) \in DOMAIN pending
        BY <1>5, <3>2, <3>5
      <4> QED
        BY <1>5, <2>5, <3>1, <3>2, <3>5, <4>1
    <3>6. CASE i > Len(posted) /\ j <= Len(posted)
      <4>1. j \in DOMAIN posted /\ i - Len(posted) \in DOMAIN pending
        BY <1>5, <3>2, <3>6
      <4> QED
        BY <1>5, <2>5, <3>1, <3>2, <3>6, <4>1
    <3> QED
      BY <1>5, <3>2, <3>3, <3>4, <3>5, <3>6
  <2>6. ASSUME NEW i \in DOMAIN pending', NEW j \in DOMAIN deferred'
        PROVE  pending'[i] # deferred'[j]
    <3>1. /\ \A k \in DOMAIN posted, l \in DOMAIN deferred : posted[k] # deferred[l]
          /\ \A k \in DOMAIN pending, l \in DOMAIN deferred : pending[k] # deferred[l]
      BY DEF ControlInv, WorkInv
    <3>2. i \in 1 .. Len(posted) + Len(pending)
      BY <1>5
    <3>3. CASE i <= Len(posted)
      BY <1>5, <3>1, <3>2, <3>3
    <3>4. CASE i > Len(posted)
      <4>1. i - Len(posted) \in DOMAIN pending
        BY <1>5, <3>2, <3>4
      <4> QED
        BY <1>5, <3>1, <3>2, <3>4, <4>1
    <3> QED
      BY <1>5, <3>2, <3>3, <3>4
  <2> QED
    BY <1>5, <2>4, <2>5, <2>6 DEF ControlInv, WorkInv
<1>7. StopInv'
  <2>1. runner = None /\ deferred = <<>>
    BY <1>0 DEF ControlInv, StopInv
  <2>2. worker' = "gone" => stopped /\ posted' = <<>> /\ pending' = <<>>
    <3>1. mayLeave => pending' = <<>>
      BY <1>0 DEF mayLeave
    <3> QED
      BY <1>0, <1>1, <3>1 DEF mayLeave
  <2> QED
    BY <2>1, <2>2 DEF ControlInv, StopInv
<1>8. PoolInv' /\ DeviceInv'
  BY <1>2, QuietStep DEF live, TypeInv
<1> QED
  BY <1>2, <1>3, <1>4, <1>6, <1>7, <1>8 DEF ControlInv

\* The head of a list and the rest.
LEMMA ListHead ==
    ASSUME NEW S, NEW s \in Seq(S), s # <<>>
    PROVE  /\ Len(s) \in Nat /\ Len(s) >= 1 /\ DOMAIN s = 1 .. Len(s)
           /\ Tail(s) \in Seq(S) /\ Len(Tail(s)) = Len(s) - 1 /\ DOMAIN Tail(s) = 1 .. Len(s) - 1
           /\ \A i \in 1 .. Len(s) - 1 : Tail(s)[i] = s[i + 1]
           /\ Head(s) = s[1] /\ Head(s) \in S
           /\ Range(s) = {Head(s)} \cup Range(Tail(s))
<1>1. /\ Len(s) \in Nat /\ Len(s) >= 1 /\ DOMAIN s = 1 .. Len(s)
      /\ Tail(s) \in Seq(S) /\ Len(Tail(s)) = Len(s) - 1 /\ DOMAIN Tail(s) = 1 .. Len(s) - 1
      /\ \A i \in 1 .. Len(s) - 1 : Tail(s)[i] = s[i + 1]
      /\ Head(s) = s[1] /\ Head(s) \in S
  OBVIOUS
<1>2. Range(s) \subseteq {Head(s)} \cup Range(Tail(s))
  <2> SUFFICES ASSUME NEW k \in 1 .. Len(s)
               PROVE  s[k] \in {Head(s)} \cup Range(Tail(s))
    BY <1>1 DEF Range
  <2>1. CASE k = 1
    BY <1>1, <2>1
  <2>2. CASE k # 1
    <3>1. k - 1 \in 1 .. Len(s) - 1 /\ Tail(s)[k - 1] = s[k]
      BY <1>1, <2>2
    <3> QED
      BY <1>1, <3>1 DEF Range
  <2> QED
    BY <2>1, <2>2
<1>3. {Head(s)} \cup Range(Tail(s)) \subseteq Range(s)
  <2>1. Head(s) \in Range(s)
    BY <1>1 DEF Range
  <2>2. \A k \in 1 .. Len(s) - 1 : Tail(s)[k] = s[k + 1] /\ k + 1 \in 1 .. Len(s)
    BY <1>1
  <2>3. \A k \in 1 .. Len(s) - 1 : Tail(s)[k] \in Range(s)
    BY <1>1, <2>2 DEF Range
  <2> QED
    BY <1>1, <2>1, <2>3 DEF Range
<1> QED
  BY <1>1, <1>2, <1>3

\* Defer: the first pending graph becomes the last deferred one.
LEMMA DeferStep ==
    ASSUME TypeInv, ControlInv, PoolInv, DeviceInv, Defer
    PROVE  TypeInv' /\ ControlInv' /\ PoolInv' /\ DeviceInv'
<1> USE DEF Defer, eventVars, deviceVars
<1> DEFINE g == Head(pending)
           n == Len(pending)
           d == Len(deferred)
<1>0. /\ worker = "scan" /\ pending # <<>> /\ deferred' = Append(deferred, g) /\ pending' = Tail(pending)
      /\ posted' = posted
  OBVIOUS
<1>1. /\ n \in Nat /\ n >= 1 /\ DOMAIN pending = 1 .. n
      /\ pending' \in Seq(Graphs) /\ DOMAIN pending' = 1 .. n - 1
      /\ \A i \in 1 .. n - 1 : pending'[i] = pending[i + 1]
      /\ g = pending[1] /\ g \in Graphs /\ Range(pending) = {g} \cup Range(pending')
  BY <1>0, ListHead DEF TypeInv
<1>2. /\ d \in Nat /\ DOMAIN deferred = 1 .. d /\ deferred' \in Seq(Graphs) /\ DOMAIN deferred' = 1 .. d + 1
      /\ \A i \in 1 .. d : deferred'[i] = deferred[i]
      /\ deferred'[d + 1] = g
  BY <1>0, <1>1 DEF TypeInv
<1> HIDE DEF g, n, d
<1>3. TypeInv'
  BY <1>1, <1>2 DEF TypeInv
<1>4. StageInv'
  BY DEF ControlInv, StageInv, Count
<1>5. LockInv'
  BY <1>3, LockUnchanged DEF ControlInv, TypeInv
<1>6. WorkInv'
  <2>1. Range(deferred') = Range(deferred) \cup {g}
    BY <1>2 DEF Range
  <2>2. Listed' = Listed
    BY <1>0, <1>1, <2>1 DEF Listed
  <2>3. \A h \in Graphs : h \in Listed' <=> phase'[h] = "posted"
    BY <2>2 DEF ControlInv, WorkInv
  <2>4. \A i \in 1 .. n - 1 : i + 1 \in DOMAIN pending /\ 1 \in DOMAIN pending
    BY <1>1
  <2>5. /\ \A i, j \in DOMAIN posted : posted[i] = posted[j] => i = j
        /\ \A i, j \in DOMAIN pending : pending[i] = pending[j] => i = j
        /\ \A i, j \in DOMAIN deferred : deferred[i] = deferred[j] => i = j
        /\ \A i \in DOMAIN posted, j \in DOMAIN pending : posted[i] # pending[j]
        /\ \A i \in DOMAIN posted, j \in DOMAIN deferred : posted[i] # deferred[j]
        /\ \A i \in DOMAIN pending, j \in DOMAIN deferred : pending[i] # deferred[j]
    BY DEF ControlInv, WorkInv
  <2> HIDE DEF Defer
  <2>6. 1 \in DOMAIN pending
    BY <1>1
  <2>7. \A i, j \in DOMAIN pending' : pending'[i] = pending'[j] => i = j
    <3> SUFFICES ASSUME NEW i \in 1 .. n - 1, NEW j \in 1 .. n - 1, pending'[i] = pending'[j]
                 PROVE  i = j
      BY <1>1
    <3>1. i + 1 = j + 1
      BY <1>1, <2>4, <2>5
    <3> QED
      BY <1>1, <3>1
  <2>8. \A i, j \in DOMAIN deferred' : deferred'[i] = deferred'[j] => i = j
    <3>1. \A i \in DOMAIN deferred : deferred[i] # g
      BY <1>1, <2>5, <2>6
    <3> QED
      BY <1>2, <2>5, <3>1
  <2>9. \A i \in DOMAIN posted', j \in DOMAIN pending' : posted'[i] # pending'[j]
    BY <1>0, <1>1, <2>4, <2>5
  <2>10. \A i \in DOMAIN posted', j \in DOMAIN deferred' : posted'[i] # deferred'[j]
    <3>1. \A i \in DOMAIN posted : posted[i] # g
      BY <1>1, <2>5, <2>6
    <3> QED
      BY <1>0, <1>2, <2>5, <3>1
  <2>11. \A i \in DOMAIN pending', j \in DOMAIN deferred' : pending'[i] # deferred'[j]
    <3>1. \A i \in 1 .. n - 1 : pending'[i] # g
      <4> SUFFICES ASSUME NEW i \in 1 .. n - 1, pending'[i] = g
                   PROVE  FALSE
        OBVIOUS
      <4>1. i + 1 = 1
        BY <1>1, <2>4, <2>5, <2>6
      <4> QED
        BY <1>1, <4>1
    <3>2. \A i \in 1 .. n - 1, j \in 1 .. d : pending'[i] # deferred[j]
      BY <1>1, <1>2, <2>4, <2>5, SMTT(30)
    <3> QED
      BY <1>1, <1>2, <3>1, <3>2
  <2> QED
    BY <1>0, <2>3, <2>5, <2>7, <2>8, <2>9, <2>10, <2>11 DEF WorkInv
<1>7. StopInv'
  BY <1>0 DEF ControlInv, StopInv
<1>8. PoolInv' /\ DeviceInv'
  BY <1>3, QuietStep DEF live, TypeInv
<1> QED
  BY <1>3, <1>4, <1>5, <1>6, <1>7, <1>8 DEF ControlInv

\* Rescan: what was deferred is pending.
LEMMA RescanStep ==
    ASSUME TypeInv, ControlInv, PoolInv, DeviceInv, Rescan
    PROVE  TypeInv' /\ ControlInv' /\ PoolInv' /\ DeviceInv'
<1> USE DEF Rescan, eventVars, deviceVars
<1>1. TypeInv'
  BY DEF TypeInv
<1>2. StageInv'
  BY DEF ControlInv, StageInv, Count
<1>3. LockInv'
  BY <1>1, LockUnchanged DEF ControlInv, TypeInv
<1>4. WorkInv'
  <2>1. DOMAIN deferred' = {} /\ DOMAIN pending = {} /\ Range(deferred') = {} /\ Range(pending) = {}
    BY DEF Range
  <2>2. Listed' = Listed
    BY <2>1 DEF Listed
  <2> QED
    BY <2>1, <2>2 DEF ControlInv, WorkInv
<1>5. StopInv'
  BY DEF ControlInv, StopInv
<1>6. PoolInv' /\ DeviceInv'
  BY <1>1, QuietStep DEF live, TypeInv
<1> QED
  BY <1>1, <1>2, <1>3, <1>4, <1>5, <1>6 DEF ControlInv

-----------------------------------------------------------------------------
(* The end of a graph.                                                     *)

\* A command is a task, a wait or a record.
LEMMA CommandKinds ==
    ASSUME NEW c \in Commands
    PROVE  /\ c.graph \in Graphs /\ c.kind \in {"task", "wait", "record"}
           /\ c.kind = "task" => c.stage \in Nat
           /\ c.kind \in {"wait", "record"} => c.event \in Nat
BY DEF Commands

\* poll: with every fence reached no queue holds a command of the graph and every stage was
\* executed.
LEMMA PolledQuiescent ==
    ASSUME TypeInv, StageInv, PoolInv, DeviceInv, NEW g \in Graphs, phase[g] = "posted", poll(g)
    PROVE  /\ \A q \in Queues : \A p \in DOMAIN queue[q] : queue[q][p].graph # g
           /\ \A i \in Stages(g) : <<g, i>> \in executed
<1>1. live(g) /\ stage[g] = Count(g) /\ Count(g) \in Nat
  BY GraphFacts DEF live, StageInv
<1>2. \A q \in Queues : \A p \in DOMAIN queue[q] : queue[q][p].kind = "record" => queue[q][p].graph # g
  <2> SUFFICES ASSUME NEW q \in Queues, NEW p \in DOMAIN queue[q], queue[q][p].kind = "record", queue[q][p].graph = g
               PROVE  FALSE
    OBVIOUS
  <2>1. PICK k \in 1 .. stage[g] : index(g)[k] = k /\ queue[q][p].event = fence[g][k]
    BY DEF DeviceInv, CommandInv
  <2>2. k \in DOMAIN fence[g] /\ fence[g][k] \in 1 .. made
    BY <1>1, <2>1, LeaseFacts DEF PoolInv
  <2>3. reached[fence[g][k]] = recorded[fence[g][k]]
    BY <2>2 DEF poll
  <2>4. recorded[fence[g][k]] = reached[fence[g][k]] + 1
    BY <2>1 DEF DeviceInv, RecordInv
  <2>5. reached[fence[g][k]] \in Nat
    BY <2>2, SMTT(30) DEF TypeInv
  <2> QED
    BY <2>3, <2>4, <2>5
<1>3. \A q \in Queues : \A p \in DOMAIN queue[q] : queue[q][p].kind = "task" => queue[q][p].graph # g
  <2> SUFFICES ASSUME NEW q \in Queues, NEW p \in DOMAIN queue[q], queue[q][p].kind = "task", queue[q][p].graph = g
               PROVE  FALSE
    OBVIOUS
  <2> DEFINE i == queue[q][p].stage
  <2>1. i \in 1 .. Count(g)
    BY <1>1 DEF DeviceInv, CommandInv
  <2>2. index(g)[i] \in 1 .. Count(g)
    BY <2>1, GraphFacts
  <2>3. \/ index(g)[i] > stage[g]
        \/ \E o \in DOMAIN queue[q] : EventAt(q, o, "record", g, fence[g][index(g)[i]])
    BY DEF DeviceInv, BehindInv
  <2>4. PICK o \in DOMAIN queue[q] : EventAt(q, o, "record", g, fence[g][index(g)[i]])
    <3> HIDE DEF i
    <3> QED
      BY <1>1, <2>2, <2>3
  <2> QED
    BY <1>2, <2>4 DEF EventAt
<1>4. \A q \in Queues : \A p \in DOMAIN queue[q] : queue[q][p].kind = "wait" => queue[q][p].graph # g
  BY <1>3 DEF DeviceInv, BehindInv, TaskAt
<1>5. \A q \in Queues : \A p \in DOMAIN queue[q] : queue[q][p].graph # g
  BY <1>2, <1>3, <1>4, CommandFacts, CommandKinds DEF DeviceInv
<1>6. \A i \in 1 .. Count(g) : <<g, i>> \in executed
  BY <1>1, <1>5 DEF DeviceInv, OrderInv, TaskAt
<1>7. Stages(g) = 1 .. Count(g)
  BY GraphFacts
<1> QED
  BY <1>5, <1>6, <1>7

\* A step of a graph without commands that submits and executes nothing leaves the commands of
\* the others as they are.
LEMMA OthersUnchanged ==
    ASSUME TypeInv, DeviceInv, NEW g \in Graphs,
           \A q \in Queues : \A p \in DOMAIN queue[q] : queue[q][p].graph # g,
           \A h \in Graphs : h # g => /\ phase'[h] = phase[h] /\ fence'[h] = fence[h]
                                       /\ bound'[h] = bound[h] /\ sender'[h] = sender[h],
           sender' = sender \/ stage[g] = 0,
           UNCHANGED <<stage, queue, executed>>
    PROVE  CommandInv' /\ BehindInv' /\ OrderInv' /\ SerialInv'
<1>1. ASSUME NEW q \in Queues, NEW p \in DOMAIN queue[q]
      PROVE  LET h == queue[q][p].graph IN
             /\ h \in Graphs /\ h # g /\ phase'[h] = phase[h] /\ fence'[h] = fence[h]
             /\ Count(h)' = Count(h) /\ sender'[h] = sender[h]
             /\ index(h)' = index(h) /\ \A i : qOf(h, i)' = qOf(h, i)
  BY CommandFacts DEF DeviceInv, index, qOf, Count
<1>2. CommandInv'
  <2> SUFFICES ASSUME NEW q \in Queues, NEW p \in DOMAIN queue[q]
               PROVE  LET c == queue[q][p] IN
        /\ phase'[c.graph] \in {"submit", "unlock", "publish", "posted"}
        /\ c.kind = "task" => c.stage \in 1 .. stage[c.graph] /\ qOf(c.graph, c.stage)' = q
        /\ c.kind = "record" =>
              \E k \in 1 .. stage[c.graph] :
                 /\ index(c.graph)'[k] = k /\ c.event = fence'[c.graph][k] /\ qOf(c.graph, k)' = q
        /\ c.kind = "wait" =>
              \E k \in 1 .. stage[c.graph] : index(c.graph)'[k] = k /\ c.event = fence'[c.graph][k]
    BY DEF CommandInv
  <2> SUFFICES ASSUME NEW c, c = queue[q][p]
               PROVE
        /\ phase'[c.graph] \in {"submit", "unlock", "publish", "posted"}
        /\ c.kind = "task" => c.stage \in 1 .. stage[c.graph] /\ qOf(c.graph, c.stage)' = q
        /\ c.kind = "record" =>
              \E k \in 1 .. stage[c.graph] :
                 /\ index(c.graph)'[k] = k /\ c.event = fence'[c.graph][k] /\ qOf(c.graph, k)' = q
        /\ c.kind = "wait" =>
              \E k \in 1 .. stage[c.graph] : index(c.graph)'[k] = k /\ c.event = fence'[c.graph][k]
    OBVIOUS
  <2>1. /\ c.graph \in Graphs /\ phase'[c.graph] = phase[c.graph] /\ fence'[c.graph] = fence[c.graph]
        /\ index(c.graph)' = index(c.graph) /\ \A i : qOf(c.graph, i)' = qOf(c.graph, i)
    BY <1>1
  <2>2. /\ phase[c.graph] \in {"submit", "unlock", "publish", "posted"}
        /\ c.kind = "task" => c.stage \in 1 .. stage[c.graph] /\ qOf(c.graph, c.stage) = q
        /\ c.kind = "record" =>
              \E k \in 1 .. stage[c.graph] :
                 /\ index(c.graph)[k] = k /\ c.event = fence[c.graph][k] /\ qOf(c.graph, k) = q
        /\ c.kind = "wait" =>
              \E k \in 1 .. stage[c.graph] : index(c.graph)[k] = k /\ c.event = fence[c.graph][k]
    BY DEF DeviceInv, CommandInv
  <2>3. c.kind = "record" =>
              \E k \in 1 .. stage[c.graph] :
                 /\ index(c.graph)'[k] = k /\ c.event = fence'[c.graph][k] /\ qOf(c.graph, k)' = q
    BY <2>1, <2>2
  <2>4. c.kind = "wait" =>
              \E k \in 1 .. stage[c.graph] : index(c.graph)'[k] = k /\ c.event = fence'[c.graph][k]
    BY <2>1, <2>2
  <2>5. c.kind = "task" => c.stage \in 1 .. stage[c.graph] /\ qOf(c.graph, c.stage)' = q
    BY <2>1, <2>2
  <2>6. phase'[c.graph] \in {"submit", "unlock", "publish", "posted"}
    BY <2>1, <2>2
  <2> QED
    BY <2>3, <2>4, <2>5, <2>6
<1>3. BehindInv'
  <2> SUFFICES ASSUME NEW q \in Queues, NEW p \in DOMAIN queue[q]
               PROVE  LET c == queue[q][p] IN
        /\ c.kind = "wait" => \E o \in DOMAIN queue[q], i \in 1 .. Count(c.graph)' : p < o /\ TaskAt(q, o, c.graph, i)
        /\ c.kind = "task" =>
              \/ index(c.graph)'[c.stage] > stage[c.graph]
              \/ \E o \in DOMAIN queue[q] :
                    p < o /\ EventAt(q, o, "record", c.graph, fence'[c.graph][index(c.graph)'[c.stage]])
    BY DEF BehindInv, TaskAt, EventAt
  <2> QED
    BY <1>1 DEF DeviceInv, BehindInv
<1>4. OrderInv'
  <2>1. \A h \in Graphs : \A i \in 1 .. stage'[h] :
           <<h, i>> \in executed' \/ \E q \in Queues : \E p \in DOMAIN queue'[q] : TaskAt(q, p, h, i)'
    <3>1. \A h \in Graphs : \A i \in 1 .. stage[h] :
             <<h, i>> \in executed \/ \E q \in Queues : \E p \in DOMAIN queue[q] : TaskAt(q, p, h, i)
      BY DEF DeviceInv, OrderInv
    <3>2. \A q, p, h, i : TaskAt(q, p, h, i)' <=> TaskAt(q, p, h, i)
      BY DEF TaskAt
    <3> QED
      BY <3>1, <3>2
  <2>2. ASSUME NEW q \in Queues, NEW p \in DOMAIN queue[q]
        PROVE  LET c == queue[q][p] IN
          c.kind = "task" => \A j \in sender'[c.graph].pred[c.stage] :
              \/ <<c.graph, j>> \in executed
              \/ \E o \in DOMAIN queue[q] : o < p /\ TaskAt(q, o, c.graph, j)
              \/ /\ index(c.graph)'[j] = j
                 /\ \E o \in DOMAIN queue[q] : o < p /\ EventAt(q, o, "wait", c.graph, fence'[c.graph][j])
    BY <1>1 DEF DeviceInv, OrderInv
  <2>3. ASSUME NEW t \in executed
        PROVE  /\ t[2] \in 1 .. stage'[t[1]]
               /\ \A j \in sender'[t[1]].pred[t[2]] : <<t[1], j>> \in executed'
    <3>1. t[1] \in Graphs /\ t[2] \in 1 .. stage[t[1]]
      BY DEF TypeInv, DeviceInv, OrderInv
    <3>2. t[1] # g \/ sender' = sender
      BY <3>1
    <3> QED
      BY <3>1, <3>2 DEF DeviceInv, OrderInv
  <2> QED
    BY <2>1, <2>2, <2>3 DEF OrderInv, TaskAt, EventAt
<1>5. SerialInv'
  BY <1>1 DEF DeviceInv, SerialInv, Apart
<1> QED
  BY <1>2, <1>3, <1>4, <1>5

\* The events and the queues of a graph without commands return to the pools.
LEMMA ReleaseStep ==
    ASSUME TypeInv, PoolInv, DeviceInv, NEW g \in Graphs,
           \A q \in Queues : \A p \in DOMAIN queue[q] : queue[q][p].graph # g,
           NEW back \in {eventsOf(g), Reverse(eventsOf(g)), <<>>}, free' = back \o free,
           NEW end \in {"done", "gone"}, phase' = [phase EXCEPT ![g] = end],
           fence' = [fence EXCEPT ![g] = <<>>], bound' = [bound EXCEPT ![g] = <<>>],
           UNCHANGED <<pool, sender, stage, made, deviceVars>>
    PROVE  free' \in Seq(1 .. made) /\ PoolInv' /\ DeviceInv'
<1> USE DEF deviceVars
<1>1. /\ DOMAIN phase' = Graphs /\ phase'[g] = end
      /\ fence'[g] = <<>> /\ bound'[g] = <<>> /\ DOMAIN fence'[g] = {} /\ DOMAIN bound'[g] = {}
      /\ \A h \in Graphs : h # g => phase'[h] = phase[h] /\ fence'[h] = fence[h] /\ bound'[h] = bound[h]
  BY DEF TypeInv
<1>2. /\ back \in Seq(1 .. made)
      /\ \A k \in 1 .. Len(back) : \E i \in DOMAIN fence[g] : back[k] = fence[g][i]
      /\ \A k, l \in 1 .. Len(back) : back[k] = back[l] => k = l
  <2> DEFINE D == DOMAIN fence[g]
  <2>1. D \in SUBSET Nat /\ IsFiniteSet(D) /\ fence[g] \in [D -> 1 .. made] /\ made \in Nat
    BY LeaseFacts, GraphFacts, SMTT(30) DEF PoolInv, TypeInv
  <2>2. \A i, j \in D : fence[g][i] = fence[g][j] => i = j
    BY DEF PoolInv, EventInv
  <2> HIDE DEF D
  <2>3. /\ back \in Seq(1 .. made)
        /\ \A k \in 1 .. Len(back) : \E i \in D : back[k] = fence[g][i]
        /\ \A k, l \in 1 .. Len(back) : back[k] = back[l] => k = l
    <3>1. CASE back = <<>>
      BY <2>1, <3>1
    <3>2. CASE back \in {eventsOf(g), Reverse(eventsOf(g))}
      BY <2>1, <2>2, <3>2, ReturnedEvents
    <3> QED
      BY <3>1, <3>2
  <2> QED
    BY <2>3 DEF D
<1>3. /\ free' \in Seq(1 .. made) /\ Len(free') = Len(back) + Len(free)
      /\ Len(back) \in Nat /\ Len(free) \in Nat
      /\ \A k \in 1 .. Len(back) + Len(free) :
            free'[k] = IF k <= Len(back) THEN back[k] ELSE free[k - Len(back)]
  BY <1>2 DEF TypeInv
<1>4. LeaseInv'
  <2>1. ~live(g)'
    BY <1>1 DEF live
  <2>2. \A h \in Graphs : h # g => (live(h)' <=> live(h)) /\ index(h)' = index(h)
    BY <1>1 DEF live, index
  <2> QED
    BY <1>1, <2>1, <2>2 DEF PoolInv, LeaseInv
<1>5. QueueInv'
  BY <1>1 DEF PoolInv, QueueInv
<1>6. EventInv'
  <2>1. \A h \in Graphs : \A i, j \in DOMAIN fence'[h] : fence'[h][i] = fence'[h][j] => i = j
    BY <1>1 DEF PoolInv, EventInv
  <2>2. \A f, h \in Graphs : f # h =>
           \A i \in DOMAIN fence'[f], j \in DOMAIN fence'[h] : fence'[f][i] # fence'[h][j]
    BY <1>1 DEF PoolInv, EventInv
  <2>3. \A k \in 1 .. Len(free') : \/ k \in 1 .. Len(back) /\ free'[k] = back[k]
                                   \/ /\ k > Len(back) /\ free'[k] = free[k - Len(back)]
                                      /\ k - Len(back) \in 1 .. Len(free)
    BY <1>3
  <2>4. ASSUME NEW h \in Graphs, NEW i \in DOMAIN fence'[h], NEW k \in 1 .. Len(free')
        PROVE  fence'[h][i] # free'[k]
    <3>1. h # g /\ fence'[h] = fence[h] /\ i \in DOMAIN fence[h]
      BY <1>1, <2>4
    <3>2. CASE k \in 1 .. Len(back) /\ free'[k] = back[k]
      <4>1. PICK j \in DOMAIN fence[g] : back[k] = fence[g][j]
        BY <1>2, <3>2
      <4> QED
        BY <3>1, <3>2, <4>1 DEF PoolInv, EventInv
    <3>3. CASE free'[k] = free[k - Len(back)] /\ k - Len(back) \in 1 .. Len(free)
      BY <3>1, <3>3 DEF PoolInv, EventInv
    <3> QED
      BY <2>3, <3>2, <3>3
  <2>5. ASSUME NEW k \in 1 .. Len(free'), NEW l \in 1 .. Len(free'), free'[k] = free'[l]
        PROVE  k = l
    <3>0. /\ \A x \in DOMAIN fence[g], y \in 1 .. Len(free) : fence[g][x] # free[y]
          /\ \A x, y \in 1 .. Len(free) : free[x] = free[y] => x = y
      BY DEF PoolInv, EventInv
    <3>1. CASE k \in 1 .. Len(back) /\ free'[k] = back[k] /\ l \in 1 .. Len(back) /\ free'[l] = back[l]
      BY <1>2, <2>5, <3>1
    <3>2. CASE /\ k > Len(back) /\ free'[k] = free[k - Len(back)] /\ k - Len(back) \in 1 .. Len(free)
               /\ l > Len(back) /\ free'[l] = free[l - Len(back)] /\ l - Len(back) \in 1 .. Len(free)
      <4>1. k - Len(back) = l - Len(back)
        BY <2>5, <3>0, <3>2
      <4> QED
        BY <1>3, <4>1
    <3>3. CASE /\ k \in 1 .. Len(back) /\ free'[k] = back[k]
               /\ l > Len(back) /\ free'[l] = free[l - Len(back)] /\ l - Len(back) \in 1 .. Len(free)
      <4>1. PICK j \in DOMAIN fence[g] : back[k] = fence[g][j]
        BY <1>2, <3>3
      <4>2. fence[g][j] # free[l - Len(back)]
        BY <3>0, <3>3
      <4> QED
        BY <2>5, <3>3, <4>1, <4>2, Zenon
    <3>4. CASE /\ l \in 1 .. Len(back) /\ free'[l] = back[l]
               /\ k > Len(back) /\ free'[k] = free[k - Len(back)] /\ k - Len(back) \in 1 .. Len(free)
      <4>1. PICK j \in DOMAIN fence[g] : back[l] = fence[g][j]
        BY <1>2, <3>4
      <4>2. fence[g][j] # free[k - Len(back)]
        BY <3>0, <3>4
      <4> QED
        BY <2>5, <3>4, <4>1, <4>2, Zenon
    <3> DEFINE low(m) == m \in 1 .. Len(back) /\ free'[m] = back[m]
               high(m) == m > Len(back) /\ free'[m] = free[m - Len(back)] /\ m - Len(back) \in 1 .. Len(free)
    <3>5. \A m \in 1 .. Len(free') : low(m) \/ high(m)
      BY <2>3
    <3>6. /\ low(k) /\ low(l) => k = l
          /\ high(k) /\ high(l) => k = l
          /\ low(k) /\ high(l) => k = l
          /\ low(l) /\ high(k) => k = l
      BY <3>1, <3>2, <3>3, <3>4
    <3>7. low(k) \/ high(k)
      BY <3>5, Zenon
    <3>8. low(l) \/ high(l)
      BY <3>5, Zenon
    <3> HIDE DEF low, high
    <3> QED
      BY <3>6, <3>7, <3>8, Zenon
  <2> QED
    BY <2>1, <2>2, <2>4, <2>5 DEF EventInv
<1>7. CommandInv' /\ BehindInv' /\ OrderInv' /\ SerialInv'
  BY <1>1, OthersUnchanged
<1>8. RecordInv'
  BY DEF DeviceInv, RecordInv
<1> QED
  BY <1>3, <1>4, <1>5, <1>6, <1>7, <1>8 DEF PoolInv, DeviceInv

\* A graph that neither locks nor submits may change its binding.
LEMMA LockElsewhere ==
    ASSUME TypeInv, LockInv, NEW g \in Graphs, UNCHANGED <<pool, holder>>, DOMAIN phase' = Graphs,
           phase[g] \notin {"locking", "submit", "unlock"},
           phase'[g] \notin {"locking", "submit", "unlock"},
           \A h \in Graphs : h # g =>
               phase'[h] = phase[h] /\ bound'[h] = bound[h] /\ sender'[h] = sender[h]
    PROVE  LockInv'
<1>1. \A h \in Graphs : h # g => distinct(h)' = distinct(h) /\ held(h)' = held(h)
  BY DEF distinct, held, Stages
<1>2. \A q \in Queues : holder[q] # None => holder[q] \in Graphs /\ holder[q] # g
  BY DEF TypeInv, LockInv
<1>3. \A q \in Queues : holder'[q] # None => phase'[holder'[q]] \in {"locking", "submit", "unlock"}
  BY <1>2 DEF LockInv
<1>4. ASSUME NEW h \in Graphs
      PROVE  /\ phase'[h] = "locking" =>
                   distinct(h)' \ held(h)' # {} /\ pool' = "shared" /\ ~explicit(sender'[h])
             /\ phase'[h] = "submit" /\ pool' = "shared" /\ ~explicit(sender'[h])
                   => distinct(h)' \subseteq held(h)'
             /\ phase'[h] = "unlock" => held(h)' # {}
  <2>1. CASE h = g
    BY <2>1
  <2>2. CASE h # g
    BY <1>1, <2>2 DEF LockInv
  <2> QED
    BY <2>1, <2>2
<1> QED
  BY <1>3, <1>4 DEF LockInv

\* Discard: an operation that was not started has submitted nothing.
LEMMA DiscardStep ==
    ASSUME TypeInv, ControlInv, PoolInv, DeviceInv, NEW g \in Graphs, Discard(g)
    PROVE  TypeInv' /\ ControlInv' /\ PoolInv' /\ DeviceInv'
<1> USE DEF Discard
<1>0. /\ phase[g] = "bound" /\ phase' = [phase EXCEPT ![g] = "gone"]
      /\ free' = leasable(sender[g], eventsOf(g)) \o free
      /\ fence' = [fence EXCEPT ![g] = <<>>] /\ bound' = [bound EXCEPT ![g] = <<>>]
      /\ UNCHANGED <<pool, sender, m_next, holder, stage, made, deviceVars, runner, stopped>>
      /\ UNCHANGED <<posted, pending, deferred, worker>>
  BY DEF workerVars
<1> HIDE DEF Discard
<1>1. phase' \in [Graphs -> Phases] /\ phase'[g] = "gone" /\ \A h \in Graphs : h # g => phase'[h] = phase[h]
  BY <1>0 DEF TypeInv, Phases
<1>2. \A q \in Queues : \A p \in DOMAIN queue[q] : queue[q][p].graph # g
  BY <1>0 DEF DeviceInv, CommandInv
<1>3. free' \in Seq(1 .. made) /\ PoolInv' /\ DeviceInv'
  <2> DEFINE back == leasable(sender[g], eventsOf(g))
             end == "gone"
  <2>1. /\ back \in {eventsOf(g), Reverse(eventsOf(g)), <<>>} /\ free' = back \o free
        /\ end \in {"done", "gone"} /\ phase' = [phase EXCEPT ![g] = end]
    BY <1>0 DEF leasable
  <2> HIDE DEF back, end
  <2> QED
    BY <1>0, <1>2, <2>1, ReleaseStep
<1>4. TypeInv'
  BY <1>0, <1>1, <1>3 DEF TypeInv, deviceVars
<1>5. StageInv'
  BY <1>0, <1>1 DEF ControlInv, StageInv, Count
<1>6. LockInv'
  <2>1. \A h \in Graphs : h # g => bound'[h] = bound[h] /\ sender'[h] = sender[h]
    BY <1>0 DEF TypeInv
  <2> QED
    BY <1>0, <1>1, <2>1, LockElsewhere DEF ControlInv
<1>7. WorkInv'
  BY <1>0, <1>1 DEF ControlInv, WorkInv, Listed
<1>8. StopInv'
  BY <1>0, <1>1 DEF ControlInv, StopInv
<1> QED
  BY <1>3, <1>4, <1>5, <1>6, <1>7, <1>8 DEF ControlInv

\* Deliver: the device is done with the graph, and its events and queues return.
LEMMA DeliverStep ==
    ASSUME TypeInv, ControlInv, PoolInv, DeviceInv, Deliver
    PROVE  TypeInv' /\ ControlInv' /\ PoolInv' /\ DeviceInv'
<1> USE DEF Deliver
<1> DEFINE g == Head(pending)
           n == Len(pending)
<1>0. /\ worker = "scan" /\ runner = None /\ pending # <<>> /\ poll(g) /\ phase' = [phase EXCEPT ![g] = "done"]
      /\ free' = leasable(sender[g], Reverse(eventsOf(g))) \o free
      /\ fence' = [fence EXCEPT ![g] = <<>>] /\ bound' = [bound EXCEPT ![g] = <<>>]
      /\ UNCHANGED <<pool, sender, m_next, holder, stage, made, deviceVars, stopped>>
      /\ UNCHANGED <<posted, deferred, worker>>
      /\ pending' = Tail(pending) /\ runner' \in Graphs \cup {None}
  OBVIOUS
<1> HIDE DEF Deliver
<1>1. /\ n \in Nat /\ n >= 1 /\ DOMAIN pending = 1 .. n
      /\ pending' \in Seq(Graphs) /\ DOMAIN pending' = 1 .. n - 1
      /\ \A i \in 1 .. n - 1 : pending'[i] = pending[i + 1]
      /\ g = pending[1] /\ g \in Graphs /\ Range(pending) = {g} \cup Range(pending')
  BY <1>0, ListHead DEF TypeInv
<1>2. phase[g] = "posted"
  <2>1. g \in Listed
    BY <1>1 DEF Listed
  <2> QED
    BY <1>1, <2>1 DEF ControlInv, WorkInv
<1>a. PICK x \in Graphs : x = g
  BY <1>1
<1> HIDE DEF g, n
<1>b. /\ poll(x) /\ phase' = [phase EXCEPT ![x] = "done"]
      /\ free' = leasable(sender[x], Reverse(eventsOf(x))) \o free
      /\ fence' = [fence EXCEPT ![x] = <<>>] /\ bound' = [bound EXCEPT ![x] = <<>>]
      /\ phase[x] = "posted"
  BY <1>0, <1>2, <1>a
<1>3. phase' \in [Graphs -> Phases] /\ phase'[x] = "done" /\ \A h \in Graphs : h # x => phase'[h] = phase[h]
  BY <1>b DEF TypeInv, Phases
<1>4. \A q \in Queues : \A p \in DOMAIN queue[q] : queue[q][p].graph # x
  BY <1>b, PolledQuiescent DEF ControlInv
<1>5. free' \in Seq(1 .. made) /\ PoolInv' /\ DeviceInv'
  <2>0. PICK back : back = leasable(sender[x], Reverse(eventsOf(x)))
    OBVIOUS
  <2> DEFINE end == "done"
  <2>1. /\ back \in {eventsOf(x), Reverse(eventsOf(x)), <<>>} /\ free' = back \o free
        /\ end \in {"done", "gone"} /\ phase' = [phase EXCEPT ![x] = end]
    BY <1>b, <2>0 DEF leasable
  <2> HIDE DEF end
  <2> QED
    BY <1>0, <1>b, <1>4, <2>1, ReleaseStep
<1>6. TypeInv'
  BY <1>0, <1>1, <1>3, <1>5, <1>b DEF TypeInv, deviceVars
<1>7. StageInv'
  BY <1>0, <1>b, <1>3 DEF ControlInv, StageInv, Count
<1>8. LockInv'
  <2>1. \A h \in Graphs : h # x => bound'[h] = bound[h] /\ sender'[h] = sender[h]
    BY <1>0, <1>b DEF TypeInv
  <2> QED
    BY <1>0, <1>3, <1>b, <2>1, LockElsewhere DEF ControlInv
<1>9. WorkInv'
  <2>1. /\ \A i, j \in DOMAIN posted : posted[i] = posted[j] => i = j
        /\ \A i, j \in DOMAIN pending : pending[i] = pending[j] => i = j
        /\ \A i, j \in DOMAIN deferred : deferred[i] = deferred[j] => i = j
        /\ \A i \in DOMAIN posted, j \in DOMAIN pending : posted[i] # pending[j]
        /\ \A i \in DOMAIN posted, j \in DOMAIN deferred : posted[i] # deferred[j]
        /\ \A i \in DOMAIN pending, j \in DOMAIN deferred : pending[i] # deferred[j]
    BY DEF ControlInv, WorkInv
  <2>2. \A i \in 1 .. n - 1 : i + 1 \in DOMAIN pending /\ i + 1 # 1
    BY <1>1
  <2>3. 1 \in DOMAIN pending /\ pending[1] = x
    BY <1>1, <1>a
  <2>4. x \notin Range(posted) /\ x \notin Range(deferred)
    BY <2>1, <2>3 DEF Range
  <2>5. x \notin Range(pending')
    BY <1>1, <2>1, <2>2, <2>3, SMTT(30) DEF Range
  <2>6. Listed' = Listed \ {x}
    BY <1>0, <1>1, <1>a, <2>4, <2>5 DEF Listed
  <2>7. \A h \in Graphs : h \in Listed' <=> phase'[h] = "posted"
    BY <1>3, <2>6 DEF ControlInv, WorkInv
  <2>8. \A i, j \in DOMAIN pending' : pending'[i] = pending'[j] => i = j
    <3> SUFFICES ASSUME NEW i \in 1 .. n - 1, NEW j \in 1 .. n - 1, pending'[i] = pending'[j]
                 PROVE  i = j
      BY <1>1
    <3>1. i + 1 = j + 1
      BY <1>1, <2>1, <2>2
    <3> QED
      BY <1>1, <3>1
  <2>9. \A i \in DOMAIN posted', j \in DOMAIN pending' : posted'[i] # pending'[j]
    BY <1>0, <1>1, <2>1, <2>2
  <2>10. \A i \in DOMAIN pending', j \in DOMAIN deferred' : pending'[i] # deferred'[j]
    BY <1>0, <1>1, <2>1, <2>2
  <2> QED
    BY <1>0, <2>1, <2>7, <2>8, <2>9, <2>10 DEF WorkInv
<1>10. StopInv'
  <2>1. stopped => \A h \in Graphs : phase[h] \in {"locking", "submit", "unlock", "publish"} => FALSE
    BY <1>0, DeviceConstants DEF ControlInv, StopInv
  <2>2. stopped' => \A h \in Graphs :
          phase'[h] \in {"locking", "submit", "unlock", "publish"} => runner' = h
    BY <1>0, <1>3, <2>1
  <2> QED
    BY <1>0, <2>2 DEF StopInv
<1> QED
  BY <1>5, <1>6, <1>7, <1>8, <1>9, <1>10 DEF ControlInv

-----------------------------------------------------------------------------
(* Connecting.                                                             *)

\* The queues of a new binding: of the pool, and with exclusive leases nobody else's.
LEMMA BindingFacts ==
    ASSUME TypeInv, LeaseInv, NEW s, WellFormed(s), NEW b, b = binding(s),
           Range(b) \subseteq 0 .. MaxQueues - 1
    PROVE  /\ explicit(s) => b = <<>>
           /\ ~explicit(s) => b \in [0 .. s.count - 1 ->
                                        IF pool = "shared" THEN 0 .. QueueCount - 1 ELSE 0 .. MaxQueues - 1]
           /\ pool = "leased" => \A h \in Graphs : \A i \in DOMAIN b, j \in DOMAIN bound[h] : b[i] # bound[h][j]
<1>0. /\ QueueCount \in Nat /\ QueueCount > 0 /\ MaxQueues \in Nat /\ MaxQueues >= QueueCount
      /\ s.count \in Nat /\ s.count > 0 /\ m_next \in Nat
  BY DeviceConstants DEF WellFormed, TypeInv
<1>1. CASE explicit(s)
  <2>1. b = <<>>
    BY <1>1 DEF binding
  <2> QED
    BY <1>1, <2>1
<1>2. CASE ~explicit(s) /\ pool = "shared"
  <2>1. b = [lane \in 0 .. s.count - 1 |-> (m_next + lane) % QueueCount]
    BY <1>2 DEF binding, acquireShared
  <2>2. \A lane \in 0 .. s.count - 1 : (m_next + lane) % QueueCount \in 0 .. QueueCount - 1
    BY <1>0
  <2>3. b \in [0 .. s.count - 1 -> 0 .. QueueCount - 1]
    BY <2>1, <2>2
  <2> QED
    BY <1>2, <2>3
<1>3. CASE ~explicit(s) /\ pool = "leased"
  <2> DEFINE leased == UNION {Range(bound[h]) : h \in {h \in Graphs : live(h)}}
             at(lane) == CHOOSE q \in 0 .. MaxQueues + s.count : /\ q \notin leased
                               /\ Cardinality((0 .. q - 1) \ leased) = lane
  <2>1. b = [lane \in 0 .. s.count - 1 |-> at(lane)]
    <3>1. b = acquireLeased(s.count)
      BY <1>3 DEF binding
    <3> QED
      BY <3>1 DEF acquireLeased
  <2>2. \A h \in Graphs : \A j \in DOMAIN bound[h] : bound[h][j] \in leased /\ bound[h][j] \in 0 .. MaxQueues - 1
    <3> SUFFICES ASSUME NEW h \in Graphs, NEW j \in DOMAIN bound[h]
                 PROVE  bound[h][j] \in leased /\ bound[h][j] \in 0 .. MaxQueues - 1
      OBVIOUS
    <3>1. bound[h] # <<>>
      OBVIOUS
    <3>2. live(h) /\ ~explicit(sender[h])
      BY <3>1 DEF LeaseInv
    <3>3. bound[h] \in [0 .. sender[h].count - 1 -> 0 .. MaxQueues - 1]
      BY <1>3, <3>2 DEF LeaseInv
    <3>4. bound[h][j] \in 0 .. MaxQueues - 1
      BY <3>3
    <3>5. bound[h][j] \in Range(bound[h])
      BY DEF Range
    <3>6. bound[h][j] \in leased
      BY <3>2, <3>5, Zenon
    <3> HIDE DEF leased
    <3> QED
      BY <3>4, <3>6
  <2>3. leased \in SUBSET (0 .. MaxQueues - 1)
    <3>1. \A x \in leased : x \in 0 .. MaxQueues - 1
      BY <2>2 DEF Range
    <3> QED
      BY <3>1, Zenon
  <2> HIDE DEF leased
  <2>4. ASSUME NEW lane \in 0 .. s.count - 1
        PROVE  at(lane) \notin leased
    <3>1. PICK q \in 0 .. MaxQueues + lane : q \notin leased /\ Cardinality((0 .. q - 1) \ leased) = lane
      <4>1. lane \in Nat /\ MaxQueues \in Nat
        BY <1>0
      <4> QED
        BY <2>3, <4>1, UnleasedQueue, Zenon
    <3>2. q \in 0 .. MaxQueues + s.count
      BY <1>0, <3>1
    <3> QED
      BY <3>1, <3>2
  <2> HIDE DEF at
  <2>5. \A i \in DOMAIN b : b[i] \notin leased
    BY <2>1, <2>4
  <2>6. \A i \in DOMAIN b : b[i] \in 0 .. MaxQueues - 1
    BY DEF Range
  <2>7. b \in [0 .. s.count - 1 -> 0 .. MaxQueues - 1]
    BY <2>1, <2>6
  <2> QED
    BY <1>3, <2>2, <2>5, <2>7
<1>4. pool \in {"shared", "leased"}
  BY DEF TypeInv
<1> QED
  BY <1>1, <1>2, <1>3, <1>4

\* No more stages are submitted than there are.
LEMMA StageBound ==
    ASSUME TypeInv, StageInv, NEW g \in Graphs
    PROVE  stage[g] \in 0 .. Count(g)
<1>1. Count(g) \in Nat /\ Count(g) > 0
  BY GraphFacts
<1>2. stage[g] \in Nat /\ phase[g] \in Phases
  BY DEF TypeInv
<1>3. stage[g] = 0 \/ stage[g] < Count(g) \/ stage[g] = Count(g)
  BY <1>2 DEF StageInv, Phases
<1> QED
  BY <1>1, <1>2, <1>3

\* The event of a command is leased to its graph.
LEMMA CommandEvents ==
    ASSUME TypeInv, StageInv, LeaseInv, CommandInv, NEW q \in Queues, NEW p \in DOMAIN queue[q],
           NEW c, c = queue[q][p], c.kind \in {"wait", "record"}
    PROVE  /\ c.event \in 1 .. made
           /\ \E k \in DOMAIN fence[c.graph] :
                /\ k \in 1 .. stage[c.graph] /\ c.event = fence[c.graph][k] /\ index(c.graph)[k] = k
                /\ c.kind = "record" => qOf(c.graph, k) = q
<1>1. c.graph \in Graphs /\ live(c.graph)
  BY CommandFacts
<1>2. PICK k \in 1 .. stage[c.graph] :
         /\ index(c.graph)[k] = k /\ c.event = fence[c.graph][k]
         /\ c.kind = "record" => qOf(c.graph, k) = q
  BY DEF CommandInv
<1>3. k \in 1 .. Count(c.graph)
  BY <1>1, <1>2, StageBound, GraphFacts
<1>4. k \in DOMAIN fence[c.graph] /\ fence[c.graph] \in [DOMAIN fence[c.graph] -> 1 .. made]
  BY <1>1, <1>2, <1>3, LeaseFacts
<1> QED
  BY <1>2, <1>4

\* The round-robin cursor of the shared pool stays among its queues.
LEMMA NextQueue ==
    ASSUME NEW n \in Nat \ {0}, NEW x \in 0 .. n - 1, NEW c \in Nat
    PROVE  (x + (c % n)) % n \in 0 .. n - 1
<1>1. PICK r \in Nat : r = c % n
  OBVIOUS
<1>2. PICK y \in Nat : y = x + r
  OBVIOUS
<1>3. y % n \in 0 .. n - 1
  OBVIOUS
<1> QED
  BY <1>1, <1>2, <1>3

\* Connect: the queues and the events of a new operation are nobody else's.
LEMMA ConnectStep ==
    ASSUME TypeInv, ControlInv, PoolInv, DeviceInv, NEW g \in Graphs, Connect(g)
    PROVE  TypeInv' /\ ControlInv' /\ PoolInv' /\ DeviceInv'
<1>0. phase[g] = "new" /\ phase' = [phase EXCEPT ![g] = "bound"]
      /\ UNCHANGED <<pool, holder, stage, queue, executed, workerVars, runner, stopped>>
  BY DEF Connect
<1>1. PICK s \in SendersOf[g] :
         LET b == binding(s)
             fences == Range(fenceIndices(s, b))
             events == acquireEvents(leasable(s, free), fences)
             recycled == Min({Len(leasable(s, free)), Cardinality(fences)})
             fresh == Cardinality(fences) - recycled
         IN  /\ Range(b) \subseteq 0 .. MaxQueues - 1
             /\ sender' = [sender EXCEPT ![g] = s]
             /\ bound' = [bound EXCEPT ![g] = b]
             /\ m_next' = IF pool = "shared" /\ ~explicit(s) THEN (m_next + (s.count % QueueCount)) % QueueCount ELSE m_next
             /\ fence' = [fence EXCEPT ![g] = events]
             /\ free' = SubSeq(free, recycled + 1, Len(free))
             /\ made' = made + fresh
             /\ recorded' = recorded \o [k \in 1 .. fresh |-> 0]
             /\ reached' = reached \o [k \in 1 .. fresh |-> 0]
  BY Zenon DEF Connect
<1>2. PICK b, fences, leased, events, recycled, fresh :
         /\ b = binding(s) /\ fences = Range(fenceIndices(s, b)) /\ leased = leasable(s, free)
         /\ events = acquireEvents(leased, fences)
         /\ recycled = Min({Len(leased), Cardinality(fences)}) /\ fresh = Cardinality(fences) - recycled
  OBVIOUS
<1>3. /\ Range(b) \subseteq 0 .. MaxQueues - 1
      /\ sender' = [sender EXCEPT ![g] = s] /\ bound' = [bound EXCEPT ![g] = b]
      /\ m_next' = IF pool = "shared" /\ ~explicit(s) THEN (m_next + (s.count % QueueCount)) % QueueCount ELSE m_next
      /\ fence' = [fence EXCEPT ![g] = events]
      /\ free' = SubSeq(free, recycled + 1, Len(free)) /\ made' = made + fresh
      /\ recorded' = recorded \o [k \in 1 .. fresh |-> 0]
      /\ reached' = reached \o [k \in 1 .. fresh |-> 0]
  BY <1>1, <1>2, Zenon
<1>4. s \in Expressions /\ WellFormed(s) /\ QueueCount \in Nat \ {0} /\ s.count \in Nat
  <2>1. s \in Expressions
    BY DEF Expressions
  <2>2. WellFormed(s)
    BY <2>1, ExpressionsWellFormed
  <2> QED
    BY <2>1, <2>2, DeviceConstants DEF WellFormed
<1>5. /\ fences \in SUBSET Nat /\ IsFiniteSet(fences)
  <2> DEFINE n == Len(s.pred)
             idx == fenceIndices(s, b)
  <2>1. n \in Nat /\ idx \in [1 .. n -> 1 .. n]
    <3>1. PICK m : m = n
      OBVIOUS
    <3>2. PICK x : x = idx
      OBVIOUS
    <3> QED
      BY <1>4, <3>1, <3>2, FenceFacts
  <2>2. fences \in SUBSET (1 .. n)
    BY <1>2, <2>1 DEF Range
  <2>3. IsFiniteSet(1 .. n)
    BY <2>1, FS_Interval
  <2>4. IsFiniteSet(fences)
    BY <2>2, <2>3, FS_Subset
  <2> HIDE DEF n
  <2>5. fences \in SUBSET Nat
    BY <2>1, <2>2
  <2> QED
    BY <2>4, <2>5
<1>6. /\ recycled \in 0 .. Len(free) /\ fresh \in Nat
      /\ events \in [fences -> 1 .. made + fresh]
      /\ \A i, j \in fences : events[i] = events[j] => i = j
      /\ \A i \in fences : events[i] > made \/ \E k \in 1 .. recycled : events[i] = free[k]
  <2>1. made \in Nat /\ free \in Seq(1 .. made) /\ \A k, l \in 1 .. Len(free) : free[k] = free[l] => k = l
    BY DEF TypeInv, PoolInv, EventInv
  <2>2. leased = free \/ leased = <<>>
    BY <1>2 DEF leasable
  <2>3. leased \in Seq(1 .. made) /\ \A k, l \in 1 .. Len(leased) : leased[k] = leased[l] => k = l
    <3>1. CASE leased = free
      BY <2>1, <3>1
    <3>2. CASE leased = <<>>
      <4>1. leased \in Seq(1 .. made) /\ Len(leased) = 0
        BY <3>2
      <4> QED
        BY <4>1
    <3> QED
      BY <2>2, <3>1, <3>2
  <2>4. /\ recycled = Min({Len(leased), Cardinality(fences)})
        /\ fresh = Cardinality(fences) - recycled
        /\ events = acquireEvents(leased, fences)
    BY <1>2
  <2>5. /\ recycled \in 0 .. Len(leased) /\ fresh \in Nat
        /\ events \in [fences -> 1 .. made + fresh]
        /\ \A i, j \in fences : events[i] = events[j] => i = j
        /\ \A i \in fences : events[i] > made \/ \E k \in 1 .. recycled : events[i] = leased[k]
    <3>1. fences \in SUBSET Nat
      BY <1>5
    <3>2. IsFiniteSet(fences)
      BY <1>5
    <3>3. made \in Nat
      BY <2>1
    <3>4. leased \in Seq(1 .. made)
      BY <2>3
    <3>5. \A k, l \in 1 .. Len(leased) : leased[k] = leased[l] => k = l
      BY <2>3
    <3> QED
      BY <2>4, <3>1, <3>2, <3>3, <3>4, <3>5, AcquiredEvents, SMTT(30)
  <2>6. CASE leased = free
    BY <2>5, <2>6
  <2>7. CASE leased = <<>>
    <3>1. recycled = 0
      BY <2>5, <2>7
    <3>2. 0 \in 0 .. Len(free) /\ \A k : ~(k \in 1 .. 0)
      BY <2>1
    <3> QED
      BY <2>5, <3>1, <3>2
  <2> QED
    BY <2>2, <2>6, <2>7
<1>7. /\ explicit(s) => b = <<>>
      /\ ~explicit(s) => b \in [0 .. s.count - 1 ->
                                   IF pool = "shared" THEN 0 .. QueueCount - 1 ELSE 0 .. MaxQueues - 1]
      /\ pool = "leased" => \A h \in Graphs : \A i \in DOMAIN b, j \in DOMAIN bound[h] : b[i] # bound[h][j]
  BY <1>2, <1>3, <1>4, BindingFacts DEF PoolInv
<1>8. /\ phase' \in [Graphs -> Phases] /\ phase'[g] = "bound" /\ sender' \in [Graphs -> Expressions]
      /\ sender'[g] = s /\ bound'[g] = b /\ fence'[g] = events
      /\ DOMAIN bound' = Graphs /\ DOMAIN fence' = Graphs
      /\ \A h \in Graphs : h # g => /\ phase'[h] = phase[h] /\ sender'[h] = sender[h]
                                    /\ bound'[h] = bound[h] /\ fence'[h] = fence[h]
  BY <1>0, <1>3, <1>4 DEF TypeInv, Phases
<1>9. /\ made \in Nat /\ free \in Seq(1 .. made) /\ made' = made + fresh /\ Len(free) \in Nat
      /\ free' \in Seq(1 .. made') /\ Len(free') = Len(free) - recycled
      /\ \A k \in 1 .. Len(free') : free'[k] = free[k + recycled] /\ k + recycled \in 1 .. Len(free)
  <2>1. made \in Nat /\ free \in Seq(1 .. made) /\ Len(free) \in Nat
    BY DEF TypeInv
  <2> DEFINE m == recycled + 1
             n == Len(free)
             rest == SubSeq(free, m, n)
  <2>2. m \in Int /\ n \in Int /\ m <= n + 1 /\ made' \in Nat /\ made <= made' /\ n - m + 1 = Len(free) - recycled
    BY <1>3, <1>6, <2>1
  <2>3. \A i \in m .. n : free[i] \in 1 .. made'
    <3>1. \A i \in 1 .. n : free[i] \in 1 .. made
      BY <2>1
    <3>2. \A i \in m .. n : i \in 1 .. n
      BY <1>6, <2>1
    <3>3. \A x \in 1 .. made : x \in 1 .. made'
      BY <2>1, <2>2
    <3> HIDE DEF m, n
    <3> QED
      BY <3>1, <3>2, <3>3, Zenon
  <2>4. /\ rest \in Seq(1 .. made') /\ Len(rest) = IF m <= n THEN n - m + 1 ELSE 0
        /\ \A i \in 1 .. n - m + 1 : rest[i] = free[m + i - 1]
    <3> HIDE DEF m, n
    <3> QED
      BY <2>2, <2>3, SubSeqProperties
  <2>5. free' = rest
    BY <1>3
  <2> HIDE DEF rest
  <2>6. free' \in Seq(1 .. made') /\ Len(free') = Len(free) - recycled
    <3>1. CASE m <= n
      BY <2>2, <2>4, <2>5, <3>1
    <3>2. CASE ~(m <= n)
      <4>1. m = n + 1
        BY <2>2, <3>2
      <4> QED
        BY <2>1, <2>2, <2>4, <2>5, <3>2, <4>1
    <3> QED
      BY <3>1, <3>2
  <2>7. \A k \in 1 .. Len(free) - recycled : m + k - 1 = k + recycled /\ k + recycled \in 1 .. Len(free)
    BY <1>6, <2>1
  <2>8. \A k \in 1 .. Len(free') : free'[k] = free[k + recycled] /\ k + recycled \in 1 .. Len(free)
    BY <2>2, <2>4, <2>5, <2>6, <2>7
  <2> QED
    BY <1>3, <2>1, <2>6, <2>8
<1>10. ASSUME NEW t, NEW u, t \in Seq(Nat), Len(t) = made, u = t \o [k \in 1 .. fresh |-> 0]
       PROVE  /\ u \in Seq(Nat) /\ Len(u) = made'
              /\ \A e \in 1 .. made : u[e] = t[e]
              /\ \A e \in 1 .. made' : e > made => u[e] = 0
  <2> DEFINE z == [k \in 1 .. fresh |-> 0]
  <2>1. z \in Seq(Nat) /\ Len(z) = fresh /\ \A k \in 1 .. fresh : z[k] = 0
    BY <1>6
  <2>2. u = t \o z
    BY <1>10
  <2> HIDE DEF z
  <2>3. /\ u \in Seq(Nat) /\ Len(u) = made + fresh
        /\ \A e \in 1 .. made + fresh : u[e] = IF e <= made THEN t[e] ELSE z[e - made]
    <3>1. /\ t \o z \in Seq(Nat) /\ Len(t \o z) = Len(t) + Len(z)
          /\ \A e \in 1 .. Len(t) + Len(z) : (t \o z)[e] = IF e <= Len(t) THEN t[e] ELSE z[e - Len(t)]
      BY <1>10, <2>1, ConcatProperties
    <3> QED
      BY <1>10, <2>1, <2>2, <3>1
  <2>4. \A e \in 1 .. made + fresh : e > made => e - made \in 1 .. fresh
    BY <1>6, <1>9
  <2> QED
    BY <1>6, <1>9, <2>1, <2>3, <2>4
<1>11. /\ recorded' \in Seq(Nat) /\ Len(recorded') = made' /\ reached' \in Seq(Nat) /\ Len(reached') = made'
       /\ \A e \in 1 .. made : recorded'[e] = recorded[e] /\ reached'[e] = reached[e]
       /\ \A e \in 1 .. made' : e > made => recorded'[e] = 0 /\ reached'[e] = 0
  BY <1>3, <1>10 DEF TypeInv
<1>12. TypeInv'
  <2>1. m_next' \in 0 .. QueueCount - 1
    <3>1. m_next \in 0 .. QueueCount - 1
      BY DEF TypeInv
    <3>2. PICK n, c : n = QueueCount /\ c = s.count /\ n \in Nat \ {0} /\ c \in Nat
      BY <1>4
    <3>3. (m_next + (c % n)) % n \in 0 .. n - 1
      BY <3>1, <3>2, NextQueue
    <3> QED
      BY <1>3, <3>1, <3>2, <3>3
  <2>2. made' \in Nat
    BY <1>6, <1>9
  <2> QED
    BY <1>0, <1>8, <1>9, <1>11, <2>1, <2>2 DEF TypeInv, workerVars
<1>13. StageInv'
  <2>1. \A h \in Graphs : h # g => Count(h)' = Count(h)
    BY <1>8 DEF Count
  <2> QED
    BY <1>0, <1>8, <2>1 DEF ControlInv, StageInv
<1>14. LockInv'
  BY <1>0, <1>8, LockElsewhere DEF ControlInv
<1>15. WorkInv' /\ StopInv'
  BY <1>0, <1>8 DEF ControlInv, WorkInv, StopInv, Listed, workerVars
<1>16. LeaseInv'
  <2>1. live(g)' /\ index(g)' = fenceIndices(s, b)
    BY <1>8 DEF live, index
  <2>2. \A h \in Graphs : h # g => (live(h)' <=> live(h)) /\ index(h)' = index(h)
    BY <1>8 DEF live, index
  <2>3. ASSUME NEW h \in Graphs
        PROVE  /\ live(h)' => /\ fence'[h] \in [Range(index(h)') -> 1 .. made']
                              /\ explicit(sender'[h]) => bound'[h] = <<>>
                              /\ ~explicit(sender'[h]) =>
                                    bound'[h] \in [0 .. sender'[h].count - 1 ->
                                       IF pool' = "shared" THEN 0 .. QueueCount - 1 ELSE 0 .. MaxQueues - 1]
               /\ ~live(h)' => fence'[h] = <<>> /\ bound'[h] = <<>>
    <3>1. CASE h = g
      BY <1>0, <1>2, <1>6, <1>7, <1>8, <1>9, <2>1, <3>1, ZenonT(60)
    <3>2. CASE h # g
      <4>1. live(h) => fence[h] \in [Range(index(h)) -> 1 .. made']
        <5>1. live(h) => fence[h] \in [Range(index(h)) -> 1 .. made]
          BY DEF PoolInv, LeaseInv
        <5>2. 1 .. made \subseteq 1 .. made'
          BY <1>6, <1>9
        <5> QED
          BY <5>1, <5>2, Zenon
      <4> QED
        BY <1>0, <1>8, <2>2, <3>2, <4>1 DEF PoolInv, LeaseInv
    <3> QED
      BY <3>1, <3>2
  <2> QED
    BY <2>3 DEF LeaseInv
<1>17. QueueInv'
  <2>1. \A h \in Graphs : h # g => bound'[h] = bound[h]
    BY <1>8
  <2> QED
    BY <1>0, <1>7, <1>8, <2>1 DEF PoolInv, QueueInv
<1>18. \A h \in Graphs : \A j \in DOMAIN fence[h] : fence[h][j] \in 1 .. made
  BY LeaseFacts DEF PoolInv
<1>19. ASSUME NEW i \in fences, NEW h \in Graphs, NEW j \in DOMAIN fence[h]
       PROVE  events[i] # fence[h][j]
  <2>1. CASE events[i] > made
    BY <1>6, <1>9, <1>18, <2>1
  <2>2. CASE \E k \in 1 .. recycled : events[i] = free[k]
    BY <1>6, <1>9, <2>2 DEF PoolInv, EventInv
  <2> QED
    BY <1>6, <2>1, <2>2
<1>20. ASSUME NEW i \in fences, NEW k \in 1 .. Len(free')
       PROVE  events[i] # free'[k]
  <2>1. free'[k] = free[k + recycled] /\ k + recycled \in 1 .. Len(free) /\ free[k + recycled] \in 1 .. made
    BY <1>9
  <2>2. CASE events[i] > made
    BY <1>6, <1>9, <2>1, <2>2
  <2>3. CASE \E l \in 1 .. recycled : events[i] = free[l]
    <3>1. PICK l \in 1 .. recycled : events[i] = free[l]
      BY <2>3
    <3>2. l \in 1 .. Len(free) /\ l # k + recycled
      <4>1. k \in Nat /\ k > 0 /\ Len(free) \in Nat
        BY <1>9
      <4> QED
        BY <1>6, <3>1, <4>1
    <3> QED
      BY <2>1, <3>1, <3>2 DEF PoolInv, EventInv
  <2> QED
    BY <1>6, <2>2, <2>3
<1>21. EventInv'
  <2>0. DOMAIN fence'[g] = fences
    BY <1>6, <1>8
  <2>1. \A h \in Graphs : \A i, j \in DOMAIN fence'[h] : fence'[h][i] = fence'[h][j] => i = j
    BY <1>6, <1>8, <2>0 DEF PoolInv, EventInv
  <2>2. \A f, h \in Graphs : f # h =>
           \A i \in DOMAIN fence'[f], j \in DOMAIN fence'[h] : fence'[f][i] # fence'[h][j]
    BY <1>8, <1>19, <2>0 DEF PoolInv, EventInv
  <2>3. \A h \in Graphs : \A i \in DOMAIN fence'[h], k \in 1 .. Len(free') : fence'[h][i] # free'[k]
    <3> SUFFICES ASSUME NEW h \in Graphs, NEW i \in DOMAIN fence'[h], NEW k \in 1 .. Len(free')
                 PROVE  fence'[h][i] # free'[k]
      OBVIOUS
    <3>1. CASE h = g
      BY <1>8, <1>20, <2>0, <3>1
    <3>2. CASE h # g
      <4>1. free'[k] = free[k + recycled] /\ k + recycled \in 1 .. Len(free)
        BY <1>9
      <4>2. \A l \in 1 .. Len(free) : fence[h][i] # free[l]
        BY <1>8, <3>2 DEF PoolInv, EventInv
      <4> QED
        BY <1>8, <3>2, <4>1, <4>2
    <3> QED
      BY <3>1, <3>2
  <2>4. ASSUME NEW k \in 1 .. Len(free'), NEW l \in 1 .. Len(free'), free'[k] = free'[l]
        PROVE  k = l
    <3>1. k + recycled = l + recycled
      BY <1>9, <2>4 DEF PoolInv, EventInv
    <3> QED
      BY <1>6, <1>9, <3>1
  <2> QED
    BY <2>1, <2>2, <2>3, <2>4 DEF EventInv
<1>22. \A q \in Queues : \A p \in DOMAIN queue[q] : queue[q][p].graph # g
  BY <1>0 DEF DeviceInv, CommandInv
<1>23. CommandInv' /\ BehindInv' /\ OrderInv' /\ SerialInv'
  <2>1. stage[g] = 0
    BY <1>0 DEF ControlInv, StageInv
  <2> QED
    BY <1>0, <1>8, <1>22, <2>1, OthersUnchanged
<1>24. RecordInv'
  <2>1. \A q \in Queues : \A p \in DOMAIN queue[q] :
           queue[q][p].kind \in {"wait", "record"} => queue[q][p].event \in 1 .. made
    BY CommandEvents DEF ControlInv, PoolInv, DeviceInv
  <2>2. \A e \in 1 .. made' : e \in 1 .. made \/ e > made
    BY <1>6, <1>9
  <2>3. queue' = queue
    BY <1>0
  <2>4. \A q \in Queues : \A p \in DOMAIN queue[q] :
          /\ queue[q][p].kind = "record" =>
                recorded'[queue[q][p].event] = reached'[queue[q][p].event] + 1
          /\ queue[q][p].kind = "wait" => recorded'[queue[q][p].event] = queue[q][p].upto
    <3> SUFFICES ASSUME NEW q \in Queues, NEW p \in DOMAIN queue[q], NEW e, e = queue[q][p].event,
                        queue[q][p].kind \in {"wait", "record"}
                 PROVE  /\ queue[q][p].kind = "record" => recorded'[e] = reached'[e] + 1
                        /\ queue[q][p].kind = "wait" => recorded'[e] = queue[q][p].upto
      OBVIOUS
    <3>1. recorded'[e] = recorded[e] /\ reached'[e] = reached[e]
      BY <1>11, <2>1
    <3>2. /\ queue[q][p].kind = "record" => recorded[e] = reached[e] + 1
          /\ queue[q][p].kind = "wait" => recorded[e] = queue[q][p].upto
      BY DEF DeviceInv, RecordInv
    <3> QED
      BY <3>1, <3>2
  <2>5. \A e \in 1 .. made' : reached'[e] # recorded'[e] =>
          \E q \in Queues : \E p \in DOMAIN queue[q] : queue[q][p].kind = "record" /\ queue[q][p].event = e
    BY <1>11, <2>2 DEF DeviceInv, RecordInv
  <2>6. \A e \in 1 .. made' : reached'[e] <= recorded'[e]
    BY <1>11, <2>2 DEF DeviceInv, RecordInv
  <2> QED
    BY <2>3, <2>4, <2>5, <2>6 DEF DeviceInv, RecordInv
<1> QED
  BY <1>12, <1>13, <1>14, <1>15, <1>16, <1>17, <1>21, <1>23, <1>24 DEF ControlInv, PoolInv, DeviceInv

-----------------------------------------------------------------------------
(* The device.                                                             *)

\* The head has left queue q and the other commands have kept their order: old is how many
\* positions a command has moved to the front.
Shifted(q, old) ==
    /\ queue' \in [Queues -> Seq(Commands)] /\ 1 \in DOMAIN queue[q] /\ queue[q][1] = Head(queue[q])
    /\ \A r \in Queues : old[r] \in {0, 1} /\ DOMAIN queue[r] \in SUBSET (Nat \ {0})
    /\ \A r \in Queues : \A p \in DOMAIN queue'[r] :
          /\ p \in Nat /\ p + old[r] \in DOMAIN queue[r] /\ queue'[r][p] = queue[r][p + old[r]]
          /\ ~(r = q /\ p + old[r] = 1)
    /\ \A r \in Queues : \A o \in DOMAIN queue[r] : ~(r = q /\ o = 1) =>
          /\ o - old[r] \in DOMAIN queue'[r] /\ queue'[r][o - old[r]] = queue[r][o]

\* Execute: the head of one queue leaves it.
LEMMA ExecuteShift ==
    ASSUME TypeInv, NEW q \in Queues, queue[q] # <<>>, queue' = [queue EXCEPT ![q] = Tail(@)]
    PROVE  \E old : Shifted(q, old)
<1>0. PICK old : old = [r \in Queues |-> IF r = q THEN 1 ELSE 0]
  OBVIOUS
<1>1. queue \in [Queues -> Seq(Commands)]
  BY DEF TypeInv
<1>2. /\ Len(queue[q]) \in Nat /\ Len(queue[q]) >= 1 /\ DOMAIN queue[q] = 1 .. Len(queue[q])
      /\ Tail(queue[q]) \in Seq(Commands) /\ DOMAIN Tail(queue[q]) = 1 .. Len(queue[q]) - 1
      /\ \A i \in 1 .. Len(queue[q]) - 1 : Tail(queue[q])[i] = queue[q][i + 1]
      /\ Head(queue[q]) = queue[q][1]
  BY <1>1, ListHead
<1>3. queue' \in [Queues -> Seq(Commands)] /\ queue'[q] = Tail(queue[q]) /\ \A r \in Queues : r # q => queue'[r] = queue[r]
  BY <1>1, <1>2
<1>4. \A r \in Queues : old[r] \in {0, 1} /\ DOMAIN queue[r] \in SUBSET (Nat \ {0})
  <2> SUFFICES ASSUME NEW r \in Queues
               PROVE  old[r] \in {0, 1} /\ DOMAIN queue[r] \in SUBSET (Nat \ {0})
    OBVIOUS
  <2>1. queue[r] \in Seq(Commands)
    BY <1>1
  <2>2. DOMAIN queue[r] = 1 .. Len(queue[r]) /\ Len(queue[r]) \in Nat
    BY <2>1
  <2> QED
    BY <1>0, <2>2
<1>5. ASSUME NEW r \in Queues, NEW p \in DOMAIN queue'[r]
      PROVE  /\ p \in Nat /\ p + old[r] \in DOMAIN queue[r] /\ queue'[r][p] = queue[r][p + old[r]]
             /\ ~(r = q /\ p + old[r] = 1)
  <2>1. CASE r = q
    <3>1. p \in 1 .. Len(queue[q]) - 1 /\ old[r] = 1
      BY <1>0, <1>2, <1>3, <2>1
    <3> QED
      BY <1>2, <1>3, <2>1, <3>1
  <2>2. CASE r # q
    <3>1. queue'[r] = queue[r] /\ old[r] = 0 /\ p \in Nat
      BY <1>0, <1>3, <1>4, <2>2
    <3>2. p + old[r] = p
      BY <3>1
    <3> QED
      BY <2>2, <3>1, <3>2
  <2> QED
    BY <2>1, <2>2
<1>6. ASSUME NEW r \in Queues, NEW o \in DOMAIN queue[r], ~(r = q /\ o = 1)
      PROVE  o - old[r] \in DOMAIN queue'[r] /\ queue'[r][o - old[r]] = queue[r][o]
  <2>1. CASE r = q
    <3>1. o \in 1 .. Len(queue[q]) /\ o # 1 /\ old[r] = 1
      BY <1>0, <1>2, <1>6, <2>1
    <3>2. o - 1 \in 1 .. Len(queue[q]) - 1 /\ (o - 1) + 1 = o
      BY <1>2, <3>1
    <3> QED
      BY <1>2, <1>3, <2>1, <3>1, <3>2
  <2>2. CASE r # q
    <3>1. queue'[r] = queue[r] /\ old[r] = 0 /\ o \in Nat
      BY <1>0, <1>3, <1>4, <2>2
    <3>2. o - old[r] = o
      BY <3>1
    <3> QED
      BY <3>1, <3>2
  <2> QED
    BY <2>1, <2>2
<1>7. 1 \in DOMAIN queue[q] /\ queue[q][1] = Head(queue[q])
  BY <1>2
<1>8. Shifted(q, old)
  BY <1>3, <1>4, <1>5, <1>6, <1>7 DEF Shifted
<1> QED
  BY <1>8, Zenon

\* Every event has counters.
LEMMA EventCounters ==
    ASSUME TypeInv
    PROVE  /\ made \in Nat /\ DOMAIN recorded = 1 .. made /\ DOMAIN reached = 1 .. made
           /\ \A e \in 1 .. made : recorded[e] \in Nat /\ reached[e] \in Nat
<1>1. made \in Nat /\ recorded \in Seq(Nat) /\ Len(recorded) = made /\ reached \in Seq(Nat) /\ Len(reached) = made
  BY DEF TypeInv
<1> QED
  BY <1>1

\* A wait whose event has reached its record: the stage it waits for was executed.
LEMMA WaitedFor ==
    ASSUME TypeInv, StageInv, LeaseInv, DeviceInv, NEW g \in Graphs, NEW j \in 1 .. stage[g], live(g),
           index(g)[j] = j, reached[fence[g][j]] >= recorded[fence[g][j]]
    PROVE  <<g, j>> \in executed
<1>1. SUFFICES ASSUME <<g, j>> \notin executed
               PROVE  FALSE
  OBVIOUS
<1>a. PICK q \in Queues : \E p \in DOMAIN queue[q] : TaskAt(q, p, g, j)
  BY <1>1 DEF DeviceInv, OrderInv
<1>2. PICK p \in DOMAIN queue[q] : TaskAt(q, p, g, j)
  BY <1>a
<1>3. stage[g] \in Nat /\ Count(g) \in Nat /\ j \in 1 .. Count(g)
  BY StageBound, GraphFacts
<1>4. \/ index(g)[j] > stage[g]
      \/ \E o \in DOMAIN queue[q] : EventAt(q, o, "record", g, fence[g][index(g)[j]])
  BY <1>2 DEF DeviceInv, BehindInv, TaskAt
<1>5. PICK o \in DOMAIN queue[q] : EventAt(q, o, "record", g, fence[g][j])
  BY <1>3, <1>4
<1>6. recorded[fence[g][j]] = reached[fence[g][j]] + 1
  BY <1>5 DEF DeviceInv, RecordInv, EventAt
<1>7. fence[g][j] \in 1 .. made
  BY <1>3, LeaseFacts
<1>8. reached[fence[g][j]] \in Nat
  BY <1>7, EventCounters
<1> QED
  BY <1>6, <1>8

\* Execute: in the order of each queue, a wait not before its record.
LEMMA ExecuteStep ==
    ASSUME TypeInv, ControlInv, PoolInv, DeviceInv, NEW q \in Queues, Execute(q)
    PROVE  TypeInv' /\ ControlInv' /\ PoolInv' /\ DeviceInv'
<1>0. PICK c : c = Head(queue[q])
  OBVIOUS
<1>1. /\ queue[q] # <<>> /\ queue' = [queue EXCEPT ![q] = Tail(@)]
      /\ \/ /\ c.kind = "task"
            /\ executed' = executed \cup {<<c.graph, c.stage>>} /\ reached' = reached
         \/ /\ c.kind = "wait" /\ reached[c.event] >= c.upto
            /\ reached' = reached /\ executed' = executed
         \/ /\ c.kind = "record"
            /\ reached' = [reached EXCEPT ![c.event] = @ + 1] /\ executed' = executed
      /\ UNCHANGED <<pool, sender, phase, bound, m_next, holder, stage, fence, eventVars, recorded>>
      /\ UNCHANGED <<posted, pending, deferred, worker, runner, stopped>>
  BY <1>0 DEF Execute, workerVars
<1>2. PICK old : Shifted(q, old)
  <2>1. queue[q] # <<>> /\ queue' = [queue EXCEPT ![q] = Tail(@)]
    BY <1>1
  <2> QED
    BY <2>1, ExecuteShift
<1>3. /\ queue' \in [Queues -> Seq(Commands)] /\ 1 \in DOMAIN queue[q] /\ queue[q][1] = c
      /\ \A r \in Queues : old[r] \in {0, 1} /\ DOMAIN queue[r] \in SUBSET (Nat \ {0})
      /\ \A r \in Queues : \A p \in DOMAIN queue'[r] :
            /\ p \in Nat /\ p + old[r] \in DOMAIN queue[r] /\ queue'[r][p] = queue[r][p + old[r]]
            /\ ~(r = q /\ p + old[r] = 1)
      /\ \A r \in Queues : \A o \in DOMAIN queue[r] : ~(r = q /\ o = 1) =>
            /\ o - old[r] \in DOMAIN queue'[r] /\ queue'[r][o - old[r]] = queue[r][o]
  BY <1>0, <1>2 DEF Shifted
<1>4. c \in Commands /\ c.graph \in Graphs /\ live(c.graph)
  BY <1>3, CommandFacts DEF DeviceInv
<1>5. \A h \in Graphs : /\ index(h)' = index(h) /\ (live(h)' <=> live(h)) /\ Count(h)' = Count(h)
                        /\ distinct(h)' = distinct(h) /\ held(h)' = held(h)
                        /\ \A i : qOf(h, i)' = qOf(h, i)
  BY <1>1 DEF index, live, Count, distinct, held, qOf, Stages
<1>6. /\ TypeInv' /\ reached' \in Seq(Nat) /\ Len(reached') = made
      /\ \A e \in 1 .. made : reached'[e] = IF c.kind = "record" /\ e = c.event THEN reached[e] + 1 ELSE reached[e]
  <2>1. /\ reached' \in Seq(Nat) /\ Len(reached') = made
        /\ \A e \in 1 .. made : reached'[e] = IF c.kind = "record" /\ e = c.event THEN reached[e] + 1 ELSE reached[e]
    <3>0. reached \in Seq(Nat) /\ Len(reached) = made /\ made \in Nat
      BY DEF TypeInv
    <3>1. CASE c.kind = "record"
      <4>1. c.event \in 1 .. made /\ reached' = [reached EXCEPT ![c.event] = @ + 1]
        BY <1>1, <1>3, <3>1, CommandEvents DEF ControlInv, PoolInv, DeviceInv
      <4>2. PICK e \in 1 .. made : e = c.event
        BY <4>1
      <4>3. reached' = [reached EXCEPT ![e] = @ + 1]
        BY <4>1, <4>2
      <4> QED
        BY <3>0, <3>1, <4>2, <4>3
    <3>2. CASE c.kind # "record"
      BY <1>1, <3>0, <3>2
    <3> QED
      BY <3>1, <3>2
  <2>2. executed' \subseteq Graphs \X Nat
    <3>1. c.kind = "task" => c.stage \in Nat
      BY <1>4, CommandKinds
    <3>2. executed \subseteq Graphs \X Nat
      BY DEF TypeInv
    <3> QED
      BY <1>1, <1>4, <3>1, <3>2
  <2>3. TypeInv'
    BY <1>1, <1>3, <2>1, <2>2 DEF TypeInv, eventVars
  <2> QED
    BY <2>1, <2>3
<1>7. ControlInv'
  <2>1. StageInv'
    BY <1>1, <1>5 DEF ControlInv, StageInv
  <2>2. LockInv'
    BY <1>1, LockUnchanged DEF ControlInv, TypeInv
  <2>3. WorkInv' /\ StopInv'
    BY <1>1 DEF ControlInv, WorkInv, StopInv, Listed
  <2> QED
    BY <2>1, <2>2, <2>3 DEF ControlInv
<1>8. PoolInv'
  <2>1. LeaseInv'
    BY <1>1, <1>5 DEF PoolInv, LeaseInv, eventVars
  <2>2. EventInv' /\ QueueInv'
    BY <1>1 DEF PoolInv, EventInv, QueueInv, eventVars
  <2> QED
    BY <2>1, <2>2 DEF PoolInv
<1>9. ASSUME NEW r \in Queues, NEW p \in DOMAIN queue'[r]
      PROVE  queue'[r][p].graph \in Graphs /\ queue'[r][p] \in Commands
  BY <1>3, CommandFacts DEF DeviceInv
<1>10. CommandInv'
  <2> SUFFICES ASSUME NEW r \in Queues, NEW p \in DOMAIN queue'[r], NEW d, d = queue'[r][p]
               PROVE
        /\ phase[d.graph] \in {"submit", "unlock", "publish", "posted"}
        /\ d.kind = "task" => d.stage \in 1 .. stage[d.graph] /\ qOf(d.graph, d.stage) = r
        /\ d.kind = "record" =>
              \E k \in 1 .. stage[d.graph] :
                 /\ index(d.graph)[k] = k /\ d.event = fence[d.graph][k] /\ qOf(d.graph, k) = r
        /\ d.kind = "wait" =>
              \E k \in 1 .. stage[d.graph] : index(d.graph)[k] = k /\ d.event = fence[d.graph][k]
    <3> SUFFICES ASSUME NEW r \in Queues, NEW p \in DOMAIN queue'[r], NEW d, d = queue'[r][p]
                 PROVE
        /\ phase'[d.graph] \in {"submit", "unlock", "publish", "posted"}
        /\ d.kind = "task" => d.stage \in 1 .. stage'[d.graph] /\ qOf(d.graph, d.stage)' = r
        /\ d.kind = "record" =>
              \E k \in 1 .. stage'[d.graph] :
                 /\ index(d.graph)'[k] = k /\ d.event = fence'[d.graph][k] /\ qOf(d.graph, k)' = r
        /\ d.kind = "wait" =>
              \E k \in 1 .. stage'[d.graph] : index(d.graph)'[k] = k /\ d.event = fence'[d.graph][k]
      BY DEF CommandInv
    <3>2. d.graph \in Graphs
      BY <1>9
    <3>3. /\ index(d.graph)' = index(d.graph) /\ \A i : qOf(d.graph, i)' = qOf(d.graph, i)
          /\ phase' = phase /\ stage' = stage /\ fence' = fence
      BY <1>1, <1>5, <3>2
    <3> QED
      BY <3>3
  <2>1. p + old[r] \in DOMAIN queue[r] /\ d = queue[r][p + old[r]]
    BY <1>3
  <2> QED
    BY <2>1 DEF DeviceInv, CommandInv
<1>11. \A r \in Queues : \A p \in DOMAIN queue[r] :
          queue[r][p].kind \in {"wait", "record"} => queue[r][p].event \in 1 .. made
  BY CommandEvents DEF ControlInv, PoolInv, DeviceInv
<1>12. RecordInv'
  <2>0. /\ \A u, r \in Queues : \A p \in DOMAIN queue[u], o \in DOMAIN queue[r] :
              queue[u][p].kind = "record" /\ queue[r][o].kind = "record" /\ queue[u][p].event = queue[r][o].event
                  => u = r /\ p = o
        /\ \A r \in Queues : \A p \in DOMAIN queue[r] :
              /\ queue[r][p].kind = "record" => recorded[queue[r][p].event] = reached[queue[r][p].event] + 1
              /\ queue[r][p].kind = "wait" => recorded[queue[r][p].event] = queue[r][p].upto
        /\ \A e \in 1 .. made : reached[e] # recorded[e] =>
              \E r \in Queues : \E p \in DOMAIN queue[r] : queue[r][p].kind = "record" /\ queue[r][p].event = e
        /\ \A e \in 1 .. made : reached[e] <= recorded[e]
    BY DEF DeviceInv, RecordInv
  <2>1. ASSUME NEW u \in Queues, NEW r \in Queues, NEW p \in DOMAIN queue'[u], NEW o \in DOMAIN queue'[r],
               queue'[u][p].kind = "record", queue'[r][o].kind = "record",
               queue'[u][p].event = queue'[r][o].event
        PROVE  u = r /\ p = o
    <3>0. /\ p + old[u] \in DOMAIN queue[u] /\ queue'[u][p] = queue[u][p + old[u]]
          /\ o + old[r] \in DOMAIN queue[r] /\ queue'[r][o] = queue[r][o + old[r]]
      BY <1>3
    <3>1. u = r /\ p + old[u] = o + old[r]
      BY <2>0, <2>1, <3>0
    <3>2. p \in Nat /\ o \in Nat /\ old[u] \in {0, 1}
      BY <1>3
    <3> QED
      BY <3>1, <3>2
  <2>2. ASSUME NEW r \in Queues, NEW p \in DOMAIN queue'[r]
        PROVE  /\ queue'[r][p].kind = "record" =>
                     recorded[queue'[r][p].event] = reached'[queue'[r][p].event] + 1
               /\ queue'[r][p].kind = "wait" => recorded[queue'[r][p].event] = queue'[r][p].upto
    <3>1. PICK d : d = queue'[r][p]
      OBVIOUS
    <3>2. p + old[r] \in DOMAIN queue[r] /\ d = queue[r][p + old[r]] /\ ~(r = q /\ p + old[r] = 1)
      BY <1>3, <3>1
    <3>3. d.kind = "wait" => recorded[d.event] = d.upto
      BY <2>0, <3>2
    <3>4. ASSUME d.kind = "record"
          PROVE  recorded[d.event] = reached'[d.event] + 1
      <4>1. ~(c.kind = "record" /\ d.event = c.event)
        BY <1>3, <2>0, <3>2, <3>4
      <4>2. d.event \in 1 .. made
        BY <1>11, <3>2, <3>4
      <4>3. reached'[d.event] = reached[d.event]
        BY <1>6, <4>1, <4>2
      <4> QED
        BY <2>0, <3>2, <3>4, <4>3
    <3> QED
      BY <3>1, <3>3, <3>4
  <2>3. ASSUME NEW e \in 1 .. made, reached'[e] # recorded[e]
        PROVE  \E r \in Queues : \E p \in DOMAIN queue'[r] : queue'[r][p].kind = "record" /\ queue'[r][p].event = e
    <3>1. ~(c.kind = "record" /\ e = c.event)
      BY <1>3, <1>6, <2>0, <2>3
    <3>2. reached[e] # recorded[e]
      BY <1>6, <2>3, <3>1
    <3>3. PICK r \in Queues : \E p \in DOMAIN queue[r] : queue[r][p].kind = "record" /\ queue[r][p].event = e
      BY <2>0, <3>2
    <3>4. PICK p \in DOMAIN queue[r] : queue[r][p].kind = "record" /\ queue[r][p].event = e
      BY <3>3
    <3>5. ~(r = q /\ p = 1)
      BY <1>3, <3>1, <3>4
    <3>6. PICK x \in DOMAIN queue'[r] : queue'[r][x] = queue[r][p]
      BY <1>3, <3>5
    <3> QED
      BY <3>4, <3>6
  <2>4. ASSUME NEW e \in 1 .. made
        PROVE  reached'[e] <= recorded[e]
    <3>1. recorded[e] \in Nat /\ reached[e] \in Nat /\ reached[e] <= recorded[e]
      BY <2>0, EventCounters
    <3>2. CASE c.kind = "record" /\ e = c.event
      <4>1. recorded[e] = reached[e] + 1
        BY <1>3, <2>0, <3>2
      <4> QED
        BY <1>6, <3>1, <3>2, <4>1
    <3>3. CASE ~(c.kind = "record" /\ e = c.event)
      BY <1>6, <3>1, <3>3
    <3> QED
      BY <3>2, <3>3
  <2> QED
    BY <1>1, <2>1, <2>2, <2>3, <2>4 DEF RecordInv, eventVars
<1>13. BehindInv'
  <2> SUFFICES ASSUME NEW r \in Queues, NEW p \in DOMAIN queue'[r], NEW d, d = queue'[r][p]
               PROVE
        /\ d.kind = "wait" => \E o \in DOMAIN queue'[r], i \in 1 .. Count(d.graph) : p < o /\ TaskAt(r, o, d.graph, i)'
        /\ d.kind = "task" =>
              \/ index(d.graph)[d.stage] > stage[d.graph]
              \/ \E o \in DOMAIN queue'[r] :
                    p < o /\ EventAt(r, o, "record", d.graph, fence[d.graph][index(d.graph)[d.stage]])'
    BY <1>1, <1>5, <1>9 DEF BehindInv
  <2>1. p + old[r] \in DOMAIN queue[r] /\ d = queue[r][p + old[r]] /\ p \in Nat /\ old[r] \in {0, 1}
    BY <1>3
  <2>2. \A o \in DOMAIN queue[r] : p + old[r] < o =>
           o - old[r] \in DOMAIN queue'[r] /\ queue'[r][o - old[r]] = queue[r][o] /\ p < o - old[r]
    <3> SUFFICES ASSUME NEW o \in DOMAIN queue[r], p + old[r] < o
                 PROVE  o - old[r] \in DOMAIN queue'[r] /\ queue'[r][o - old[r]] = queue[r][o] /\ p < o - old[r]
      OBVIOUS
    <3>1. o \in Nat /\ p + old[r] \in Nat \ {0}
      BY <1>3, <2>1
    <3>2. o # 1 /\ p < o - old[r]
      BY <2>1, <3>1
    <3> QED
      BY <1>3, <3>2
  <2>3. ASSUME d.kind = "wait"
        PROVE  \E o \in DOMAIN queue'[r], i \in 1 .. Count(d.graph) : p < o /\ TaskAt(r, o, d.graph, i)'
    <3>1. PICK o \in DOMAIN queue[r], i \in 1 .. Count(d.graph) : p + old[r] < o /\ TaskAt(r, o, d.graph, i)
      BY <2>1, <2>3 DEF DeviceInv, BehindInv
    <3> QED
      BY <2>2, <3>1 DEF TaskAt
  <2>4. ASSUME d.kind = "task"
        PROVE  \/ index(d.graph)[d.stage] > stage[d.graph]
               \/ \E o \in DOMAIN queue'[r] :
                    p < o /\ EventAt(r, o, "record", d.graph, fence[d.graph][index(d.graph)[d.stage]])'
    <3>0. PICK e : e = fence[d.graph][index(d.graph)[d.stage]]
      OBVIOUS
    <3>1. \/ index(d.graph)[d.stage] > stage[d.graph]
          \/ \E o \in DOMAIN queue[r] : p + old[r] < o /\ EventAt(r, o, "record", d.graph, e)
      BY <2>1, <2>4, <3>0 DEF DeviceInv, BehindInv
    <3>2. ASSUME NEW o \in DOMAIN queue[r], p + old[r] < o, EventAt(r, o, "record", d.graph, e)
          PROVE  \E x \in DOMAIN queue'[r] : p < x /\ EventAt(r, x, "record", d.graph, e)'
      BY <2>2, <3>2 DEF EventAt
    <3>3. e = fence'[d.graph][index(d.graph)'[d.stage]]
      BY <1>1, <1>5, <1>9, <3>0
    <3> QED
      BY <3>1, <3>2, <3>3, <3>0
  <2> QED
    BY <2>3, <2>4
<1>14. \* A command that is not the executed one survives, behind those it was behind.
       ASSUME NEW r \in Queues, NEW o \in DOMAIN queue[r], ~(r = q /\ o = 1)
       PROVE  \E x \in DOMAIN queue'[r] :
                 /\ x = o - old[r]
                 /\ \A g, i : TaskAt(r, o, g, i) => TaskAt(r, x, g, i)'
                 /\ \A g, e : EventAt(r, o, "wait", g, e) => EventAt(r, x, "wait", g, e)'
  BY <1>3, <1>14 DEF TaskAt, EventAt
<1>15. OrderInv'
  <2>0. executed \subseteq executed'
    BY <1>1
  <2>1. ASSUME NEW g \in Graphs, NEW i \in 1 .. stage[g]
        PROVE  <<g, i>> \in executed' \/ \E r \in Queues : \E p \in DOMAIN queue'[r] : TaskAt(r, p, g, i)'
    <3>1. CASE <<g, i>> \in executed
      BY <2>0, <3>1
    <3>2. CASE \E r \in Queues : \E p \in DOMAIN queue[r] : TaskAt(r, p, g, i)
      <4>1. PICK r \in Queues : \E p \in DOMAIN queue[r] : TaskAt(r, p, g, i)
        BY <3>2
      <4>2. PICK p \in DOMAIN queue[r] : TaskAt(r, p, g, i)
        BY <4>1
      <4>3. CASE r = q /\ p = 1
        <5>1. c.kind = "task" /\ c.graph = g /\ c.stage = i
          BY <1>3, <4>2, <4>3 DEF TaskAt
        <5> QED
          BY <1>1, <5>1
      <4>4. CASE ~(r = q /\ p = 1)
        BY <1>14, <4>2, <4>4
      <4> QED
        BY <4>3, <4>4
    <3> QED
      BY <3>1, <3>2 DEF DeviceInv, OrderInv
  <2>2. ASSUME NEW r \in Queues, NEW p \in DOMAIN queue'[r], NEW d, d = queue'[r][p], d.kind = "task",
               NEW j \in sender[d.graph].pred[d.stage]
        PROVE  \/ <<d.graph, j>> \in executed'
               \/ \E o \in DOMAIN queue'[r] : o < p /\ TaskAt(r, o, d.graph, j)'
               \/ /\ index(d.graph)[j] = j
                  /\ \E o \in DOMAIN queue'[r] : o < p /\ EventAt(r, o, "wait", d.graph, fence[d.graph][j])'
    <3>0. PICK e : e = fence[d.graph][j]
      OBVIOUS
    <3>1. /\ p + old[r] \in DOMAIN queue[r] /\ d = queue[r][p + old[r]] /\ p \in Nat /\ old[r] \in {0, 1}
          /\ DOMAIN queue[r] \in SUBSET Nat
      BY <1>3, <2>2
    <3>2. \/ <<d.graph, j>> \in executed
          \/ \E o \in DOMAIN queue[r] : o < p + old[r] /\ TaskAt(r, o, d.graph, j)
          \/ /\ index(d.graph)[j] = j
             /\ \E o \in DOMAIN queue[r] : o < p + old[r] /\ EventAt(r, o, "wait", d.graph, e)
      BY <2>2, <3>0, <3>1 DEF DeviceInv, OrderInv
    <3>3. CASE <<d.graph, j>> \in executed
      BY <2>0, <3>3
    <3>4. CASE \E o \in DOMAIN queue[r] : o < p + old[r] /\ TaskAt(r, o, d.graph, j)
      <4>1. PICK o \in DOMAIN queue[r] : o < p + old[r] /\ TaskAt(r, o, d.graph, j)
        BY <3>4
      <4>2. CASE r = q /\ o = 1
        <5>1. c.kind = "task" /\ c.graph = d.graph /\ c.stage = j
          BY <1>3, <4>1, <4>2 DEF TaskAt
        <5> QED
          BY <1>1, <5>1
      <4>3. CASE ~(r = q /\ o = 1)
        <5>1. PICK x \in DOMAIN queue'[r] : x = o - old[r] /\ TaskAt(r, x, d.graph, j)'
          BY <1>14, <4>1, <4>3
        <5>2. x < p
          BY <3>1, <4>1, <5>1
        <5> QED
          BY <5>1, <5>2
      <4> QED
        BY <4>2, <4>3
    <3>5. CASE /\ index(d.graph)[j] = j
               /\ \E o \in DOMAIN queue[r] : o < p + old[r] /\ EventAt(r, o, "wait", d.graph, e)
      <4>1. PICK o \in DOMAIN queue[r] : o < p + old[r] /\ EventAt(r, o, "wait", d.graph, e)
        BY <3>5
      <4>2. CASE r = q /\ o = 1
        <5>1. c.kind = "wait" /\ c.graph = d.graph /\ c.event = e /\ c.upto = recorded[e]
          BY <1>3, <4>1, <4>2 DEF EventAt, DeviceInv, RecordInv
        <5>2. reached[e] >= recorded[e]
          BY <1>1, <5>1
        <5>3. d.graph \in Graphs /\ live(d.graph) /\ d.stage \in 1 .. stage[d.graph]
          BY <2>2, <3>1, CommandFacts, SMTT(30) DEF DeviceInv, CommandInv
        <5>4. j \in 1 .. stage[d.graph]
          <6>1. stage[d.graph] \in 0 .. Count(d.graph) /\ Count(d.graph) \in Nat
            BY <5>3, StageBound, GraphFacts DEF ControlInv
          <6>2. d.stage \in 1 .. Count(d.graph)
            BY <5>3, <6>1
          <6>3. j \in 1 .. Count(d.graph) /\ j < d.stage
            BY <5>3, <6>2, GraphFacts
          <6> QED
            BY <5>3, <6>1, <6>2, <6>3
        <5>5. <<d.graph, j>> \in executed
          BY <3>0, <3>5, <5>2, <5>3, <5>4, WaitedFor DEF ControlInv, PoolInv
        <5> QED
          BY <2>0, <5>5
      <4>3. CASE ~(r = q /\ o = 1)
        <5>1. PICK x \in DOMAIN queue'[r] : x = o - old[r] /\ EventAt(r, x, "wait", d.graph, e)'
          BY <1>14, <4>1, <4>3
        <5>2. x < p
          BY <3>1, <4>1, <5>1
        <5>3. e = fence'[d.graph][j]
          BY <1>1, <3>0
        <5> QED
          BY <3>0, <3>5, <5>1, <5>2, <5>3
      <4> QED
        BY <4>2, <4>3
    <3> QED
      BY <3>2, <3>3, <3>4, <3>5
  <2>3. ASSUME NEW t \in executed'
        PROVE  /\ t[2] \in 1 .. stage[t[1]]
               /\ \A j \in sender[t[1]].pred[t[2]] : <<t[1], j>> \in executed'
    <3>1. CASE t \in executed
      BY <2>0, <3>1 DEF DeviceInv, OrderInv
    <3>2. CASE t \notin executed
      <4>1. c.kind = "task" /\ t = <<c.graph, c.stage>>
        BY <1>1, <3>2
      <4>2. c.stage \in 1 .. stage[c.graph]
        BY <1>3, <4>1 DEF DeviceInv, CommandInv
      <4>3. ASSUME NEW j \in sender[c.graph].pred[c.stage]
            PROVE  <<c.graph, j>> \in executed
        <5>1. \A o \in DOMAIN queue[q] : ~(o < 1)
          BY <1>3
        <5> QED
          BY <1>3, <4>1, <5>1 DEF DeviceInv, OrderInv
      <4> QED
        BY <2>0, <4>1, <4>2, <4>3
    <3> QED
      BY <3>1, <3>2
  <2>4. ASSUME NEW r \in Queues, NEW p \in DOMAIN queue'[r], NEW d, d = queue'[r][p], d.kind = "task",
               NEW j \in sender'[d.graph].pred[d.stage]
        PROVE  \/ <<d.graph, j>> \in executed'
               \/ \E o \in DOMAIN queue'[r] : o < p /\ TaskAt(r, o, d.graph, j)'
               \/ /\ index(d.graph)'[j] = j
                  /\ \E o \in DOMAIN queue'[r] : o < p /\ EventAt(r, o, "wait", d.graph, fence[d.graph][j])'
    <3>1. d.graph \in Graphs
      BY <1>9, <2>4
    <3>2. index(d.graph)' = index(d.graph)
      BY <1>5, <3>1
    <3>3. j \in sender[d.graph].pred[d.stage]
      BY <1>1
    <3> QED
      BY <2>2, <2>4, <3>2, <3>3
  <2> QED
    BY <1>1, <2>1, <2>3, <2>4, ZenonT(60) DEF OrderInv
<1>16. SerialInv'
  <2>0. phase' = phase
    BY <1>1
  <2> SUFFICES ASSUME NEW r \in Queues, Apart(r)
               PROVE
        /\ \A i, j, k \in DOMAIN queue'[r] :
              i < j /\ j < k /\ queue'[r][i].graph = queue'[r][k].graph
                  => queue'[r][j].graph = queue'[r][i].graph
        /\ \A i, j \in DOMAIN queue'[r] :
              i < j /\ phase[queue'[r][i].graph] = "submit" => queue'[r][j].graph = queue'[r][i].graph
    BY <2>0, Zenon DEF SerialInv, Apart
  <2>1. /\ \A i, j, k \in DOMAIN queue[r] :
              i < j /\ j < k /\ queue[r][i].graph = queue[r][k].graph
                  => queue[r][j].graph = queue[r][i].graph
        /\ \A i, j \in DOMAIN queue[r] :
              i < j /\ phase[queue[r][i].graph] = "submit" => queue[r][j].graph = queue[r][i].graph
    BY DEF DeviceInv, SerialInv
  <2>2. \A i \in DOMAIN queue'[r] :
           i \in Nat /\ i + old[r] \in DOMAIN queue[r] /\ queue'[r][i] = queue[r][i + old[r]] /\ old[r] \in {0, 1}
    BY <1>3
  <2>3. \A i, j \in DOMAIN queue'[r] : i < j => i + old[r] < j + old[r]
    BY <2>2
  <2>4. ASSUME NEW i \in DOMAIN queue'[r], NEW j \in DOMAIN queue'[r], NEW k \in DOMAIN queue'[r],
               i < j, j < k, queue'[r][i].graph = queue'[r][k].graph
        PROVE  queue'[r][j].graph = queue'[r][i].graph
    BY <2>1, <2>2, <2>3, <2>4
  <2>5. ASSUME NEW i \in DOMAIN queue'[r], NEW j \in DOMAIN queue'[r],
               i < j, phase[queue'[r][i].graph] = "submit"
        PROVE  queue'[r][j].graph = queue'[r][i].graph
    BY <2>1, <2>2, <2>3, <2>5
  <2> QED
    BY <2>4, <2>5
<1> QED
  BY <1>6, <1>7, <1>8, <1>10, <1>12, <1>13, <1>15, <1>16 DEF DeviceInv

-----------------------------------------------------------------------------
(* Submitting.                                                             *)

waitCommand(g, j) ==
    [kind |-> "wait", graph |-> g, event |-> fence[g][index(g)[j]], upto |-> recorded[fence[g][index(g)[j]]]]

\* Behind the L commands of queue q there are m waits, the task of stage i, and its record if the
\* fence is the stage's own.
Appended(g, q, i, L, m) ==
    /\ queue' \in [Queues -> Seq(Commands)] /\ \A r \in Queues : r # q => queue'[r] = queue[r]
    /\ L \in Nat /\ m \in Nat /\ DOMAIN queue[q] = 1 .. L
    /\ DOMAIN queue'[q] = 1 .. (L + m + IF index(g)[i] = i THEN 2 ELSE 1)
    /\ \A p \in 1 .. L : queue'[q][p] = queue[q][p]
    /\ \A p \in L + 1 .. L + m : \E j \in waitsFor(g, i) : queue'[q][p] = waitCommand(g, j)
    /\ \A j \in waitsFor(g, i) : \E p \in L + 1 .. L + m : queue'[q][p] = waitCommand(g, j)
    /\ queue'[q][L + m + 1] = [kind |-> "task", graph |-> g, stage |-> i]
    /\ index(g)[i] = i => queue'[q][L + m + 2] = [kind |-> "record", graph |-> g, event |-> fence[g][i]]

\* SubmitStage appends the commands of one stage to the stage's queue.
LEMMA SubmitAppends ==
    ASSUME TypeInv, StageInv, LeaseInv, NEW g \in Graphs, NEW i, i = stage[g] + 1, NEW q, q = qOf(g, i),
           SubmitStage(g)
    PROVE  \E L, m : Appended(g, q, i, L, m)
<1>1. phase[g] = "submit" /\ live(g) /\ i \in 1 .. Count(g) /\ Count(g) \in Nat
  <2>1. phase[g] = "submit"
    BY DEF SubmitStage
  <2>2. stage[g] < Count(g) /\ stage[g] \in Nat
    BY <2>1 DEF StageInv, TypeInv
  <2> QED
    BY <2>1, <2>2, GraphFacts DEF live
<1>2. q \in Queues /\ index(g)[i] \in DOMAIN fence[g]
  BY <1>1, LeaseFacts
<1> DEFINE S == {waitCommand(g, j) : j \in waitsFor(g, i)}
           W == SetToSeq(S)
           T == <<[kind |-> "task", graph |-> g, stage |-> i]>>
           own == index(g)[i] = i
           R == IF own THEN <<[kind |-> "record", graph |-> g, event |-> fence[g][i]]>> ELSE <<>>
<1>3. queue' = [queue EXCEPT ![q] = @ \o W \o T \o R]
  BY Zenon DEF SubmitStage, qOf, index, waitCommand
<1>4. waitsFor(g, i) \subseteq 1 .. Count(g) /\ IsFiniteSet(waitsFor(g, i))
  <2>1. waitsFor(g, i) \subseteq 1 .. Count(g)
    BY <1>1, GraphFacts DEF waitsFor
  <2>2. IsFiniteSet(1 .. Count(g))
    BY <1>1, FS_Interval
  <2> QED
    BY <2>1, <2>2, FS_Subset
<1>5. IsFiniteSet(S)
  <2> DEFINE f == [j \in waitsFor(g, i) |-> waitCommand(g, j)]
  <2>1. f \in Surjection(waitsFor(g, i), S)
    BY Zenon DEF Surjection
  <2> HIDE DEF f, S
  <2> QED
    BY <1>4, <2>1, FS_Surjection
<1>6. S \subseteq Commands
  <2> SUFFICES ASSUME NEW j \in waitsFor(g, i)
               PROVE  waitCommand(g, j) \in Commands
    OBVIOUS
  <2>1. fence[g][index(g)[j]] \in 1 .. made
    BY <1>1, <1>4, LeaseFacts
  <2>2. recorded[fence[g][index(g)[j]]] \in Nat /\ made \in Nat
    BY <2>1, EventCounters
  <2> QED
    BY <2>1, <2>2 DEF waitCommand, Commands
<1>7. /\ W \in Seq(Commands) /\ W \in Seq(S)
      /\ \A x \in S : \E k \in 1 .. Len(W) : W[k] = x
  <2>1. W \in Seq(S) /\ \A x \in S : \E k \in 1 .. Len(W) : W[k] = x
    BY <1>5, SetToSeqFacts
  <2> HIDE DEF W, S
  <2> QED
    BY <1>6, <2>1
<1>8. T \in Seq(Commands) /\ Len(T) = 1 /\ T[1] = [kind |-> "task", graph |-> g, stage |-> i]
  <2>1. [kind |-> "task", graph |-> g, stage |-> i] \in Commands
    BY <1>1 DEF Commands
  <2> QED
    BY <2>1
<1>9. /\ R \in Seq(Commands) /\ Len(R) = IF own THEN 1 ELSE 0
      /\ own => R[1] = [kind |-> "record", graph |-> g, event |-> fence[g][i]]
  <2>1. CASE own
    <3>1. fence[g][i] \in Nat
      BY <1>1, <1>2, <2>1, LeaseFacts DEF TypeInv
    <3>2. [kind |-> "record", graph |-> g, event |-> fence[g][i]] \in Commands
      BY <3>1 DEF Commands
    <3> QED
      BY <2>1, <3>2
  <2>2. CASE ~own
    BY <2>2
  <2> QED
    BY <2>1, <2>2
<1>10. PICK L, m : L = Len(queue[q]) /\ m = Len(W)
  OBVIOUS
<1>11. queue \in [Queues -> Seq(Commands)] /\ queue[q] \in Seq(Commands) /\ L \in Nat /\ DOMAIN queue[q] = 1 .. L
       /\ m \in Nat
  BY <1>2, <1>7, <1>10 DEF TypeInv
<1> HIDE DEF W, T, R
<1>12. PICK A : A = queue[q] \o W
  OBVIOUS
<1>13. /\ A \in Seq(Commands) /\ Len(A) = L + m
       /\ \A p \in 1 .. L + m : A[p] = IF p <= L THEN queue[q][p] ELSE W[p - L]
  BY <1>7, <1>10, <1>11, <1>12, ConcatProperties
<1>14. PICK B : B = A \o T
  OBVIOUS
<1>15. /\ B \in Seq(Commands) /\ Len(B) = L + m + 1
       /\ \A p \in 1 .. L + m + 1 : B[p] = IF p <= L + m THEN A[p] ELSE T[p - (L + m)]
  <2>1. /\ A \o T \in Seq(Commands) /\ Len(A \o T) = Len(A) + Len(T)
        /\ \A p \in 1 .. Len(A) + Len(T) : (A \o T)[p] = IF p <= Len(A) THEN A[p] ELSE T[p - Len(A)]
    BY <1>8, <1>13, ConcatProperties
  <2> QED
    BY <1>8, <1>11, <1>13, <1>14, <2>1
<1>16. PICK C : C = B \o R
  OBVIOUS
<1>17. PICK n : n = Len(R)
  OBVIOUS
<1>18. /\ C \in Seq(Commands) /\ Len(C) = L + m + 1 + n /\ n \in Nat
       /\ \A p \in 1 .. L + m + 1 + n : C[p] = IF p <= L + m + 1 THEN B[p] ELSE R[p - (L + m + 1)]
  <2>1. /\ B \o R \in Seq(Commands) /\ Len(B \o R) = Len(B) + Len(R)
        /\ \A p \in 1 .. Len(B) + Len(R) : (B \o R)[p] = IF p <= Len(B) THEN B[p] ELSE R[p - Len(B)]
    BY <1>9, <1>15, ConcatProperties
  <2>2. n \in Nat
    BY <1>9, <1>17
  <2> QED
    BY <1>11, <1>15, <1>16, <1>17, <2>1, <2>2
<1>19. queue' \in [Queues -> Seq(Commands)] /\ queue'[q] = C /\ \A r \in Queues : r # q => queue'[r] = queue[r]
  BY <1>2, <1>3, <1>11, <1>12, <1>14, <1>16, <1>18
<1>20. DOMAIN C = 1 .. (L + m + IF own THEN 2 ELSE 1)
  <2>1. DOMAIN C = 1 .. (L + m + 1 + n)
    BY <1>18
  <2>2. L + m + 1 + n = L + m + IF own THEN 2 ELSE 1
    BY <1>9, <1>11, <1>17
  <2> QED
    BY <2>1, <2>2
<1>21. \A p \in 1 .. L : C[p] = queue[q][p]
  BY <1>11, <1>13, <1>15, <1>18
<1>22. \A p \in L + 1 .. L + m : C[p] = W[p - L] /\ p - L \in 1 .. m
  BY <1>11, <1>13, <1>15, <1>18
<1>23. \A k \in 1 .. m : k + L \in L + 1 .. L + m /\ (k + L) - L = k
  BY <1>11
<1>24. \A p \in L + 1 .. L + m : \E j \in waitsFor(g, i) : C[p] = waitCommand(g, j)
  <2>1. \A k \in 1 .. m : W[k] \in S
    BY <1>7, <1>10
  <2>2. \A x \in S : \E j \in waitsFor(g, i) : x = waitCommand(g, j)
    OBVIOUS
  <2> HIDE DEF S
  <2> QED
    BY <1>22, <2>1, <2>2
<1>25. \A j \in waitsFor(g, i) : \E p \in L + 1 .. L + m : C[p] = waitCommand(g, j)
  <2> SUFFICES ASSUME NEW j \in waitsFor(g, i)
               PROVE  \E p \in L + 1 .. L + m : C[p] = waitCommand(g, j)
    OBVIOUS
  <2>1. waitCommand(g, j) \in S
    OBVIOUS
  <2> HIDE DEF S
  <2>2. PICK k \in 1 .. m : W[k] = waitCommand(g, j)
    BY <1>7, <1>10, <2>1
  <2> QED
    BY <1>22, <1>23, <2>2
<1>26. C[L + m + 1] = [kind |-> "task", graph |-> g, stage |-> i]
  <2>1. C[L + m + 1] = B[L + m + 1]
    BY <1>11, <1>18
  <2>2. B[L + m + 1] = T[1]
    BY <1>11, <1>15
  <2> QED
    BY <1>8, <2>1, <2>2
<1>27. own => C[L + m + 2] = [kind |-> "record", graph |-> g, event |-> fence[g][i]]
  <2>1. own => C[L + m + 2] = R[1]
    BY <1>9, <1>11, <1>17, <1>18
  <2> QED
    BY <1>9, <2>1
<1>28. Appended(g, q, i, L, m)
  BY <1>11, <1>19, <1>20, <1>21, <1>24, <1>25, <1>26, <1>27 DEF Appended
<1> QED
  BY <1>28, Zenon

\* Two graphs that submit at the same time have no queue in common: by the mutexes, by the
\* exclusive lease, or because callers do not share theirs.
LEMMA SoleSubmitter ==
    ASSUME TypeInv, StageInv, LockInv, LeaseInv, QueueInv, NEW g \in Graphs, NEW h \in Graphs,
           phase[g] = "submit", phase[h] = "submit", NEW i \in 1 .. Count(g), NEW k \in 1 .. Count(h),
           qOf(g, i) = qOf(h, k), Apart(qOf(g, i))
    PROVE  g = h
<1>1. SUFFICES ASSUME g # h
               PROVE  FALSE
  OBVIOUS
<1>2. live(g) /\ live(h)
  BY DEF live
<1>3. PICK q : q = qOf(g, i) /\ q = qOf(h, k)
  OBVIOUS
<1>4. /\ q \in Queues
      /\ explicit(sender[g]) <=> q >= MaxQueues
      /\ explicit(sender[h]) <=> q >= MaxQueues
      /\ ~explicit(sender[g]) => (\E lane \in DOMAIN bound[g] : q = bound[g][lane]) /\ q \in 0 .. MaxQueues - 1
      /\ ~explicit(sender[h]) => (\E lane \in DOMAIN bound[h] : q = bound[h][lane])
  BY <1>2, <1>3, LeaseFacts
<1>5. CASE explicit(sender[g])
  <2>1. explicit(sender[h]) /\ ~(q < MaxQueues)
    <3>1. q >= MaxQueues /\ q \in Queues /\ MaxQueues \in Nat /\ Borrowed \in Nat
      BY <1>4, <1>5, DeviceConstants
    <3> QED
      BY <1>4, <3>1 DEF Queues
  <2>2. CallersQueuesApart
    BY <1>3, <2>1 DEF Apart
  <2>3. sender[g] \in SendersOf[g] /\ sender[h] \in SendersOf[h]
    BY DEF StageInv
  <2>4. Range(sender[g].own) \cap Range(sender[h].own) = {}
    BY <1>1, <2>2, <2>3 DEF CallersQueuesApart
  <2>5. ASSUME NEW f \in Graphs, explicit(sender[f]), NEW l \in 1 .. Count(f), qOf(f, l) = q
        PROVE  q \in Range(sender[f].own)
    <3>1. WellFormed(sender[f])
      BY ExpressionsWellFormed DEF TypeInv
    <3>2. sender[f].own \in [1 .. Count(f) -> MaxQueues .. MaxQueues + Borrowed - 1]
      BY <2>5, <3>1 DEF WellFormed, explicit, Count
    <3>3. q = sender[f].own[l]
      BY <2>5 DEF qOf, queueOf
    <3> QED
      BY <3>2, <3>3 DEF Range
  <2>6. q \in Range(sender[g].own) /\ q \in Range(sender[h].own)
    BY <1>3, <1>5, <2>1, <2>5
  <2> QED
    BY <2>4, <2>6
<1>6. CASE ~explicit(sender[g]) /\ pool = "shared"
  <2>1. ~explicit(sender[h])
    BY <1>4, <1>6
  <2>2. distinct(g) \subseteq held(g) /\ distinct(h) \subseteq held(h)
    BY <1>6, <2>1 DEF LockInv
  <2>3. q \in distinct(g) /\ q \in distinct(h)
    BY <1>3, GraphFacts DEF distinct, qOf
  <2>4. holder[q] = g /\ holder[q] = h
    BY <2>2, <2>3 DEF held
  <2> QED
    BY <1>1, <2>4
<1>7. CASE ~explicit(sender[g]) /\ pool = "leased"
  <2>1. ~explicit(sender[h])
    BY <1>4, <1>7
  <2> QED
    BY <1>1, <1>4, <1>7, <2>1 DEF QueueInv
<1> QED
  BY <1>5, <1>6, <1>7 DEF TypeInv

\* SubmitStage: one stage more, with its waits in front and its record behind.
LEMMA SubmitStep ==
    ASSUME TypeInv, ControlInv, PoolInv, DeviceInv, NEW g \in Graphs, SubmitStage(g)
    PROVE  TypeInv' /\ ControlInv' /\ PoolInv' /\ DeviceInv'
<1>1. PICK i, q : i = stage[g] + 1 /\ q = qOf(g, i)
  OBVIOUS
<1>2. PICK next : next = IF i < Count(g) THEN "submit" ELSE IF held(g) # {} THEN "unlock" ELSE "publish"
  OBVIOUS
<1>3. /\ phase[g] = "submit" /\ phase' = [phase EXCEPT ![g] = next] /\ stage' = [stage EXCEPT ![g] = i]
      /\ recorded' = IF index(g)[i] = i THEN [recorded EXCEPT ![fence[g][i]] = @ + 1] ELSE recorded
      /\ UNCHANGED <<pool, sender, bound, m_next, holder, fence, free, made, reached, executed>>
      /\ UNCHANGED <<posted, pending, deferred, worker, runner, stopped>>
  BY <1>1, <1>2 DEF SubmitStage, index, Count, eventVars, workerVars
<1>4. /\ live(g) /\ i \in 1 .. Count(g) /\ Count(g) \in Nat /\ stage[g] \in Nat
  <2>1. stage[g] < Count(g) /\ stage[g] \in Nat
    BY <1>3 DEF ControlInv, StageInv, TypeInv
  <2> QED
    BY <1>1, <1>3, <2>1, GraphFacts DEF live
<1>5. q \in Queues /\ index(g)[i] \in DOMAIN fence[g]
  BY <1>1, <1>4, LeaseFacts DEF PoolInv
<1>6. PICK L, m : Appended(g, q, i, L, m)
  BY <1>1, SubmitAppends DEF ControlInv, PoolInv
<1>7. /\ queue' \in [Queues -> Seq(Commands)] /\ \A r \in Queues : r # q => queue'[r] = queue[r]
      /\ L \in Nat /\ m \in Nat /\ DOMAIN queue[q] = 1 .. L
      /\ DOMAIN queue'[q] = 1 .. (L + m + IF index(g)[i] = i THEN 2 ELSE 1)
      /\ \A p \in 1 .. L : queue'[q][p] = queue[q][p]
  BY <1>6 DEF Appended
<1>8. /\ next \in {"submit", "unlock", "publish"} /\ (next = "submit" => i < Count(g))
      /\ (next \in {"unlock", "publish"} => i = Count(g)) /\ (next = "unlock" => held(g) # {})
      /\ (next = "publish" => held(g) = {})
  <2>1. CASE i < Count(g)
    <3>1. next = "submit"
      BY <1>2, <2>1
    <3> QED
      BY <2>1, <3>1
  <2>2. CASE ~(i < Count(g)) /\ held(g) # {}
    <3>1. next = "unlock" /\ i = Count(g)
      BY <1>2, <1>4, <2>2
    <3> QED
      BY <2>2, <3>1
  <2>3. CASE ~(i < Count(g)) /\ held(g) = {}
    <3>1. next = "publish" /\ i = Count(g)
      BY <1>2, <1>4, <2>3
    <3> QED
      BY <2>3, <3>1
  <2> QED
    BY <2>1, <2>2, <2>3
<1>9. /\ phase' \in [Graphs -> Phases] /\ phase'[g] = next /\ \A h \in Graphs : h # g => phase'[h] = phase[h]
      /\ stage' \in [Graphs -> Nat] /\ stage'[g] = i /\ \A h \in Graphs : h # g => stage'[h] = stage[h]
      /\ \A h \in Graphs : stage[h] <= stage'[h]
  BY <1>1, <1>3, <1>4, <1>8, SMTT(30) DEF TypeInv, Phases
<1>10. \A h \in Graphs : /\ index(h)' = index(h) /\ (live(h)' <=> live(h)) /\ Count(h)' = Count(h)
                         /\ distinct(h)' = distinct(h) /\ held(h)' = held(h)
                         /\ \A k : qOf(h, k)' = qOf(h, k)
  BY <1>3, <1>8, <1>9 DEF index, live, Count, distinct, held, qOf, Stages
<1>11. /\ recorded' \in Seq(Nat) /\ Len(recorded') = made
       /\ \A e \in 1 .. made : recorded'[e] = IF index(g)[i] = i /\ e = fence[g][i] THEN recorded[e] + 1 ELSE recorded[e]
  <2>0. recorded \in Seq(Nat) /\ Len(recorded) = made /\ made \in Nat
    BY DEF TypeInv
  <2>1. CASE index(g)[i] = i
    <3>1. PICK e \in 1 .. made : e = fence[g][i]
      BY <1>5, <2>1, LeaseFacts DEF PoolInv
    <3>2. recorded' = [recorded EXCEPT ![e] = @ + 1]
      BY <1>3, <2>1, <3>1
    <3> QED
      BY <2>0, <2>1, <3>1, <3>2
  <2>2. CASE index(g)[i] # i
    BY <1>3, <2>0, <2>2
  <2> QED
    BY <2>1, <2>2
<1>12. TypeInv'
  BY <1>3, <1>7, <1>9, <1>11 DEF TypeInv
<1>13. StageInv'
  BY <1>3, <1>8, <1>9, <1>10 DEF ControlInv, StageInv
<1>14. LockInv'
  <2>1. ASSUME NEW r \in Queues, holder[r] # None
        PROVE  phase'[holder[r]] \in {"locking", "submit", "unlock"}
    <3>1. CASE holder[r] = g
      <4>1. held(g) # {}
        BY <3>1 DEF held
      <4> QED
        BY <1>8, <1>9, <3>1, <4>1
    <3>2. CASE holder[r] # g
      BY <1>9, <2>1, <3>2 DEF ControlInv, LockInv, TypeInv
    <3> QED
      BY <3>1, <3>2
  <2>2. ASSUME NEW h \in Graphs
        PROVE  /\ phase'[h] = "locking" =>
                     distinct(h) \ held(h) # {} /\ pool = "shared" /\ ~explicit(sender[h])
               /\ phase'[h] = "submit" /\ pool = "shared" /\ ~explicit(sender[h])
                     => distinct(h) \subseteq held(h)
               /\ phase'[h] = "unlock" => held(h) # {}
    <3>1. CASE h = g
      BY <1>3, <1>8, <1>9, <3>1 DEF ControlInv, LockInv
    <3>2. CASE h # g
      BY <1>9, <3>2 DEF ControlInv, LockInv
    <3> QED
      BY <3>1, <3>2
  <2> QED
    BY <1>3, <1>10, <2>1, <2>2 DEF LockInv
<1>15. WorkInv' /\ StopInv'
  <2>1. Listed' = Listed
    BY <1>3 DEF Listed
  <2>2. WorkInv'
    BY <1>3, <1>8, <1>9, <2>1 DEF ControlInv, WorkInv
  <2>3. StopInv'
    BY <1>3, <1>8, <1>9 DEF ControlInv, StopInv
  <2> QED
    BY <2>2, <2>3
<1>16. PoolInv'
  <2>1. LeaseInv'
    BY <1>3, <1>10 DEF PoolInv, LeaseInv
  <2>2. EventInv' /\ QueueInv'
    BY <1>3 DEF PoolInv, EventInv, QueueInv
  <2> QED
    BY <2>1, <2>2 DEF PoolInv
<1>17. \* A stage this one waits for has its own fence.
       ASSUME NEW j \in waitsFor(g, i)
       PROVE  /\ j \in 1 .. stage[g] /\ index(g)[j] = j /\ j \in DOMAIN fence[g] /\ fence[g][j] \in 1 .. made
              /\ waitCommand(g, j) = [kind |-> "wait", graph |-> g, event |-> fence[g][j], upto |-> recorded[fence[g][j]]]
  <2>1. j \in sender[g].pred[i] /\ qOf(g, j) # qOf(g, i)
    BY DEF waitsFor, qOf
  <2>2. j \in 1 .. Count(g) /\ j < i /\ index(g)[j] = j
    BY <1>4, <2>1, GraphFacts
  <2>3. j \in DOMAIN fence[g] /\ fence[g][j] \in 1 .. made
    BY <1>4, <2>2, LeaseFacts DEF PoolInv
  <2>4. j \in 1 .. stage[g]
    BY <1>1, <1>4, <2>2
  <2> QED
    BY <2>2, <2>3, <2>4 DEF waitCommand
<1>18. \* A command of the queues is an old one, at its old place, or belongs to the new stage.
       ASSUME NEW r \in Queues, NEW p \in DOMAIN queue'[r], NEW d, d = queue'[r][p]
       PROVE  \/ p \in DOMAIN queue[r] /\ d = queue[r][p]
              \/ /\ r = q /\ p \in L + 1 .. L + m
                 /\ \E j \in waitsFor(g, i) :
                       d = [kind |-> "wait", graph |-> g, event |-> fence[g][j], upto |-> recorded[fence[g][j]]]
              \/ r = q /\ p = L + m + 1 /\ d = [kind |-> "task", graph |-> g, stage |-> i]
              \/ /\ r = q /\ p = L + m + 2 /\ index(g)[i] = i
                 /\ d = [kind |-> "record", graph |-> g, event |-> fence[g][i]]
  <2>1. CASE r # q
    BY <1>7, <1>18, <2>1
  <2>2. CASE r = q
    <3>1. p \in 1 .. (L + m + IF index(g)[i] = i THEN 2 ELSE 1) /\ d = queue'[q][p]
      BY <1>7, <1>18, <2>2
    <3>2. CASE p \in 1 .. L
      BY <1>7, <2>2, <3>1, <3>2
    <3>3. CASE p \in L + 1 .. L + m
      <4>1. PICK j \in waitsFor(g, i) : d = waitCommand(g, j)
        BY <1>6, <3>1, <3>3 DEF Appended
      <4> QED
        BY <1>17, <2>2, <3>3, <4>1
    <3>4. CASE p = L + m + 1
      BY <1>6, <2>2, <3>1, <3>4 DEF Appended
    <3>5. CASE p = L + m + 2 /\ index(g)[i] = i
      BY <1>6, <2>2, <3>1, <3>5 DEF Appended
    <3>6. \/ p \in 1 .. L
          \/ p \in L + 1 .. L + m
          \/ p = L + m + 1
          \/ p = L + m + 2 /\ index(g)[i] = i
      <4>1. CASE index(g)[i] = i
        <5>1. p \in 1 .. L + m + 2
          BY <3>1, <4>1
        <5> QED
          BY <1>7, <4>1, <5>1
      <4>2. CASE index(g)[i] # i
        <5>1. p \in 1 .. L + m + 1
          BY <3>1, <4>2
        <5> QED
          BY <1>7, <5>1
      <4> QED
        BY <4>1, <4>2
    <3> QED
      BY <3>2, <3>3, <3>4, <3>5, <3>6
  <2> QED
    BY <2>1, <2>2
<1>19. \* Every old command is still there.
       \A r \in Queues : \A p \in DOMAIN queue[r] : p \in DOMAIN queue'[r] /\ queue'[r][p] = queue[r][p]
  <2>1. 1 .. L \subseteq DOMAIN queue'[q]
    BY <1>7
  <2> QED
    BY <1>7, <2>1
<1>20. \A r \in Queues : \A p \in DOMAIN queue'[r] : queue'[r][p] \in Commands /\ queue'[r][p].graph \in Graphs
  <2> SUFFICES ASSUME NEW r \in Queues, NEW p \in DOMAIN queue'[r]
               PROVE  queue'[r][p] \in Commands
    BY CommandKinds
  <2> QED
    BY <1>7
<1>21. \* The new commands are at the end.
       /\ L + m + 1 \in DOMAIN queue'[q] /\ queue'[q][L + m + 1] = [kind |-> "task", graph |-> g, stage |-> i]
       /\ index(g)[i] = i => /\ L + m + 2 \in DOMAIN queue'[q]
                              /\ queue'[q][L + m + 2] = [kind |-> "record", graph |-> g, event |-> fence[g][i]]
       /\ \A j \in waitsFor(g, i) : \E p \in DOMAIN queue'[q] :
             /\ p \in L + 1 .. L + m
             /\ queue'[q][p] = [kind |-> "wait", graph |-> g, event |-> fence[g][j], upto |-> recorded[fence[g][j]]]
  <2>1. L + m + 1 \in DOMAIN queue'[q] /\ (index(g)[i] = i => L + m + 2 \in DOMAIN queue'[q])
    <3>1. CASE index(g)[i] = i
      BY <1>7, <3>1
    <3>2. CASE index(g)[i] # i
      BY <1>7, <3>2
    <3> QED
      BY <3>1, <3>2
  <2>2. \A p \in L + 1 .. L + m : p \in DOMAIN queue'[q]
    <3>1. CASE index(g)[i] = i
      BY <1>7, <3>1
    <3>2. CASE index(g)[i] # i
      BY <1>7, <3>2
    <3> QED
      BY <3>1, <3>2
  <2>3. ASSUME NEW j \in waitsFor(g, i)
        PROVE  \E p \in DOMAIN queue'[q] :
             /\ p \in L + 1 .. L + m
             /\ queue'[q][p] = [kind |-> "wait", graph |-> g, event |-> fence[g][j], upto |-> recorded[fence[g][j]]]
    <3>1. PICK p \in L + 1 .. L + m : queue'[q][p] = waitCommand(g, j)
      BY <1>6 DEF Appended
    <3> QED
      BY <1>17, <2>2, <3>1
  <2> QED
    BY <1>6, <2>1, <2>3 DEF Appended
<1>22. CommandInv'
  <2> SUFFICES ASSUME NEW r \in Queues, NEW p \in DOMAIN queue'[r], NEW d, d = queue'[r][p]
               PROVE
        /\ phase'[d.graph] \in {"submit", "unlock", "publish", "posted"}
        /\ d.kind = "task" => d.stage \in 1 .. stage'[d.graph] /\ qOf(d.graph, d.stage) = r
        /\ d.kind = "record" =>
              \E k \in 1 .. stage'[d.graph] :
                 /\ index(d.graph)[k] = k /\ d.event = fence[d.graph][k] /\ qOf(d.graph, k) = r
        /\ d.kind = "wait" =>
              \E k \in 1 .. stage'[d.graph] : index(d.graph)[k] = k /\ d.event = fence[d.graph][k]
    <3> SUFFICES ASSUME NEW r \in Queues, NEW p \in DOMAIN queue'[r], NEW d, d = queue'[r][p]
                 PROVE
        /\ phase'[d.graph] \in {"submit", "unlock", "publish", "posted"}
        /\ d.kind = "task" => d.stage \in 1 .. stage'[d.graph] /\ qOf(d.graph, d.stage)' = r
        /\ d.kind = "record" =>
              \E k \in 1 .. stage'[d.graph] :
                 /\ index(d.graph)'[k] = k /\ d.event = fence'[d.graph][k] /\ qOf(d.graph, k)' = r
        /\ d.kind = "wait" =>
              \E k \in 1 .. stage'[d.graph] : index(d.graph)'[k] = k /\ d.event = fence'[d.graph][k]
      BY DEF CommandInv
    <3>2. d.graph \in Graphs
      BY <1>20
    <3>3. index(d.graph)' = index(d.graph) /\ (\A k : qOf(d.graph, k)' = qOf(d.graph, k)) /\ fence' = fence
      BY <1>3, <1>10, <3>2
    <3> QED
      BY <3>3
  <2>1. CASE p \in DOMAIN queue[r] /\ d = queue[r][p]
    <3>1. /\ d.graph \in Graphs /\ phase[d.graph] \in {"submit", "unlock", "publish", "posted"}
          /\ d.kind = "task" => d.stage \in 1 .. stage[d.graph] /\ qOf(d.graph, d.stage) = r
          /\ d.kind = "record" =>
                \E k \in 1 .. stage[d.graph] :
                   /\ index(d.graph)[k] = k /\ d.event = fence[d.graph][k] /\ qOf(d.graph, k) = r
          /\ d.kind = "wait" =>
                \E k \in 1 .. stage[d.graph] : index(d.graph)[k] = k /\ d.event = fence[d.graph][k]
      BY <2>1, CommandFacts DEF DeviceInv, CommandInv
    <3>2. 1 .. stage[d.graph] \subseteq 1 .. stage'[d.graph]
      <4>1. stage[d.graph] \in Nat /\ stage'[d.graph] \in Nat /\ stage[d.graph] <= stage'[d.graph]
        BY <1>9, <3>1 DEF TypeInv
      <4> QED
        BY <4>1
    <3>3. phase'[d.graph] \in {"submit", "unlock", "publish", "posted"}
      BY <1>8, <1>9, <3>1
    <3> QED
      BY <3>1, <3>2, <3>3
  <2>2. CASE r = q /\ \E j \in waitsFor(g, i) :
                          d = [kind |-> "wait", graph |-> g, event |-> fence[g][j], upto |-> recorded[fence[g][j]]]
    <3>1. PICK j \in waitsFor(g, i) :
             d = [kind |-> "wait", graph |-> g, event |-> fence[g][j], upto |-> recorded[fence[g][j]]]
      BY <2>2
    <3>2. j \in 1 .. stage'[g] /\ index(g)[j] = j
      BY <1>1, <1>4, <1>9, <1>17
    <3>3. d.kind = "wait" /\ d.graph = g /\ d.event = fence[g][j]
      BY <3>1
    <3> QED
      BY <1>8, <1>9, <3>2, <3>3
  <2>3. CASE r = q /\ d = [kind |-> "task", graph |-> g, stage |-> i]
    <3>1. d.kind = "task" /\ d.graph = g /\ d.stage = i
      BY <2>3
    <3> QED
      <4>1. d.graph \in Graphs /\ phase'[d.graph] \in {"submit", "unlock", "publish", "posted"}
        BY <1>1, <1>8, <1>9, <3>1
      <4>2. d.stage \in 1 .. stage'[d.graph]
        BY <1>4, <1>9, <3>1
      <4>3. qOf(d.graph, d.stage) = r
        BY <1>1, <2>3, <3>1
      <4> QED
        BY <3>1, <4>1, <4>2, <4>3
  <2>4. CASE r = q /\ index(g)[i] = i /\ d = [kind |-> "record", graph |-> g, event |-> fence[g][i]]
    <3>1. d.kind = "record" /\ d.graph = g /\ d.event = fence[g][i] /\ i \in 1 .. stage'[g]
      BY <1>4, <1>9, <2>4
    <3> QED
      BY <1>1, <1>8, <1>9, <2>4, <3>1
  <2> QED
    BY <1>18, <2>1, <2>2, <2>3, <2>4
<1>23. \* No command is for the event of the new stage's own fence.
       ASSUME index(g)[i] = i, NEW r \in Queues, NEW p \in DOMAIN queue[r],
              queue[r][p].kind \in {"wait", "record"}
       PROVE  queue[r][p].event # fence[g][i]
  <2>1. PICK d : d = queue[r][p]
    OBVIOUS
  <2>2. PICK k \in DOMAIN fence[d.graph] : k \in 1 .. stage[d.graph] /\ d.event = fence[d.graph][k]
    BY <1>23, <2>1, CommandEvents DEF ControlInv, PoolInv, DeviceInv
  <2>3. d.graph \in Graphs
    BY <2>1, CommandFacts DEF DeviceInv
  <2>4. i \in DOMAIN fence[g]
    BY <1>5, <1>23
  <2>5. d.graph = g => k # i
    BY <1>1, <1>4, <2>2
  <2> QED
    BY <2>1, <2>2, <2>3, <2>4, <2>5 DEF PoolInv, EventInv
<1>24. RecordInv'
  <2>0. /\ \A u, r \in Queues : \A p \in DOMAIN queue[u], o \in DOMAIN queue[r] :
              queue[u][p].kind = "record" /\ queue[r][o].kind = "record" /\ queue[u][p].event = queue[r][o].event
                  => u = r /\ p = o
        /\ \A r \in Queues : \A p \in DOMAIN queue[r] :
              /\ queue[r][p].kind = "record" => recorded[queue[r][p].event] = reached[queue[r][p].event] + 1
              /\ queue[r][p].kind = "wait" => recorded[queue[r][p].event] = queue[r][p].upto
        /\ \A e \in 1 .. made : reached[e] # recorded[e] =>
              \E r \in Queues : \E p \in DOMAIN queue[r] : queue[r][p].kind = "record" /\ queue[r][p].event = e
        /\ \A e \in 1 .. made : reached[e] <= recorded[e]
    BY DEF DeviceInv, RecordInv
  <2>1. index(g)[i] = i => fence[g][i] \in 1 .. made /\ reached[fence[g][i]] = recorded[fence[g][i]]
    <3> SUFFICES ASSUME index(g)[i] = i
                 PROVE  fence[g][i] \in 1 .. made /\ reached[fence[g][i]] = recorded[fence[g][i]]
      OBVIOUS
    <3>1. fence[g][i] \in 1 .. made
      BY <1>5, LeaseFacts DEF PoolInv
    <3> QED
      BY <1>23, <2>0, <3>1
  <2>2. \* Records, old and new.
        ASSUME NEW r \in Queues, NEW p \in DOMAIN queue'[r], queue'[r][p].kind = "record"
        PROVE  \/ /\ p \in DOMAIN queue[r] /\ queue'[r][p] = queue[r][p]
                  /\ index(g)[i] = i => queue[r][p].event # fence[g][i]
               \/ r = q /\ p = L + m + 2 /\ index(g)[i] = i /\ queue'[r][p].event = fence[g][i]
    <3>1. PICK d : d = queue'[r][p]
      OBVIOUS
    <3>2. \/ p \in DOMAIN queue[r] /\ d = queue[r][p]
          \/ /\ r = q /\ p = L + m + 2 /\ index(g)[i] = i
             /\ d = [kind |-> "record", graph |-> g, event |-> fence[g][i]]
      BY <1>18, <2>2, <3>1
    <3>3. CASE p \in DOMAIN queue[r] /\ d = queue[r][p]
      BY <1>23, <2>2, <3>1, <3>3
    <3>4. CASE /\ r = q /\ p = L + m + 2 /\ index(g)[i] = i
               /\ d = [kind |-> "record", graph |-> g, event |-> fence[g][i]]
      BY <3>1, <3>4
    <3> QED
      BY <3>2, <3>3, <3>4
  <2>3. ASSUME NEW u \in Queues, NEW r \in Queues, NEW p \in DOMAIN queue'[u], NEW o \in DOMAIN queue'[r],
               queue'[u][p].kind = "record", queue'[r][o].kind = "record",
               queue'[u][p].event = queue'[r][o].event
        PROVE  u = r /\ p = o
    <3>1. CASE /\ p \in DOMAIN queue[u] /\ queue'[u][p] = queue[u][p]
               /\ o \in DOMAIN queue[r] /\ queue'[r][o] = queue[r][o]
      BY <2>0, <2>3, <3>1
    <3>2. CASE ~(/\ p \in DOMAIN queue[u] /\ queue'[u][p] = queue[u][p]
                 /\ o \in DOMAIN queue[r] /\ queue'[r][o] = queue[r][o])
      <4>1. /\ \/ /\ p \in DOMAIN queue[u] /\ queue'[u][p] = queue[u][p]
                  /\ index(g)[i] = i => queue[u][p].event # fence[g][i]
               \/ u = q /\ p = L + m + 2 /\ index(g)[i] = i /\ queue'[u][p].event = fence[g][i]
            /\ \/ /\ o \in DOMAIN queue[r] /\ queue'[r][o] = queue[r][o]
                  /\ index(g)[i] = i => queue[r][o].event # fence[g][i]
               \/ r = q /\ o = L + m + 2 /\ index(g)[i] = i /\ queue'[r][o].event = fence[g][i]
        BY <2>2, <2>3
      <4> QED
        BY <2>3, <3>2, <4>1, Zenon
    <3> QED
      BY <3>1, <3>2
  <2>4. ASSUME NEW r \in Queues, NEW p \in DOMAIN queue'[r], NEW d, d = queue'[r][p]
        PROVE  /\ d.kind = "record" => recorded'[d.event] = reached[d.event] + 1
               /\ d.kind = "wait" => recorded'[d.event] = d.upto
    <3>1. CASE p \in DOMAIN queue[r] /\ d = queue[r][p]
      <4>1. d.kind \in {"wait", "record"} => recorded'[d.event] = recorded[d.event]
        <5> SUFFICES ASSUME d.kind \in {"wait", "record"}
                     PROVE  recorded'[d.event] = recorded[d.event]
          OBVIOUS
        <5>1. d.event \in 1 .. made
          BY <3>1, CommandEvents DEF ControlInv, PoolInv, DeviceInv
        <5>2. index(g)[i] = i => d.event # fence[g][i]
          BY <1>23, <3>1
        <5> QED
          BY <1>11, <5>1, <5>2
      <4>2. /\ d.kind = "record" => recorded[d.event] = reached[d.event] + 1
            /\ d.kind = "wait" => recorded[d.event] = d.upto
        BY <2>0, <3>1
      <4> QED
        BY <4>1, <4>2
    <3>2. CASE \E j \in waitsFor(g, i) :
                  d = [kind |-> "wait", graph |-> g, event |-> fence[g][j], upto |-> recorded[fence[g][j]]]
      <4>1. PICK j \in waitsFor(g, i) :
               d = [kind |-> "wait", graph |-> g, event |-> fence[g][j], upto |-> recorded[fence[g][j]]]
        BY <3>2
      <4>2. d.kind = "wait" /\ d.event = fence[g][j] /\ d.upto = recorded[fence[g][j]]
        BY <4>1
      <4>3. j \in DOMAIN fence[g] /\ fence[g][j] \in 1 .. made /\ j # i
        BY <1>1, <1>4, <1>17
      <4>4. index(g)[i] = i => fence[g][j] # fence[g][i]
        BY <1>5, <4>3 DEF PoolInv, EventInv
      <4>5. recorded'[fence[g][j]] = recorded[fence[g][j]]
        BY <1>11, <4>3, <4>4
      <4> QED
        BY <4>2, <4>5
    <3>3. CASE d = [kind |-> "task", graph |-> g, stage |-> i]
      BY <3>3
    <3>4. CASE index(g)[i] = i /\ d = [kind |-> "record", graph |-> g, event |-> fence[g][i]]
      <4>1. d.kind = "record" /\ d.event = fence[g][i]
        BY <3>4
      <4>2. recorded'[fence[g][i]] = reached[fence[g][i]] + 1
        BY <1>11, <2>1, <3>4
      <4> QED
        BY <4>1, <4>2
    <3> QED
      BY <1>18, <2>4, <3>1, <3>2, <3>3, <3>4
  <2>5. ASSUME NEW e \in 1 .. made, reached[e] # recorded'[e]
        PROVE  \E r \in Queues : \E p \in DOMAIN queue'[r] : queue'[r][p].kind = "record" /\ queue'[r][p].event = e
    <3>1. CASE index(g)[i] = i /\ e = fence[g][i]
      BY <1>5, <1>21, <3>1
    <3>2. CASE ~(index(g)[i] = i /\ e = fence[g][i])
      <4>1. reached[e] # recorded[e]
        BY <1>11, <2>5, <3>2
      <4>2. PICK r \in Queues : \E p \in DOMAIN queue[r] : queue[r][p].kind = "record" /\ queue[r][p].event = e
        BY <2>0, <4>1
      <4>3. PICK p \in DOMAIN queue[r] : queue[r][p].kind = "record" /\ queue[r][p].event = e
        BY <4>2
      <4>4. p \in DOMAIN queue'[r] /\ queue'[r][p] = queue[r][p]
        BY <1>19
      <4> QED
        BY <4>3, <4>4
    <3> QED
      BY <3>1, <3>2
  <2>6. ASSUME NEW e \in 1 .. made
        PROVE  reached[e] <= recorded'[e]
    <3>1. recorded[e] \in Nat /\ reached[e] \in Nat /\ reached[e] <= recorded[e]
      BY <2>0, EventCounters
    <3>2. recorded'[e] = recorded[e] \/ recorded'[e] = recorded[e] + 1
      BY <1>11
    <3> QED
      BY <3>1, <3>2
  <2> QED
    BY <1>3, <2>3, <2>4, <2>5, <2>6 DEF RecordInv
<1>25. /\ \A r \in Queues : \A p \in DOMAIN queue[r] : \A h, k : TaskAt(r, p, h, k) => TaskAt(r, p, h, k)'
       /\ \A r \in Queues : \A p \in DOMAIN queue[r] : \A kind, h, e :
             EventAt(r, p, kind, h, e) => EventAt(r, p, kind, h, e)'
       /\ TaskAt(q, L + m + 1, g, i)'
       /\ index(g)[i] = i => EventAt(q, L + m + 2, "record", g, fence[g][i])'
  <2>1. ASSUME NEW r \in Queues, NEW p \in DOMAIN queue[r]
        PROVE  /\ \A h, k : TaskAt(r, p, h, k) => TaskAt(r, p, h, k)'
               /\ \A kind, h, e : EventAt(r, p, kind, h, e) => EventAt(r, p, kind, h, e)'
    BY <1>19 DEF TaskAt, EventAt
  <2>2. TaskAt(q, L + m + 1, g, i)'
    BY <1>21 DEF TaskAt
  <2>3. index(g)[i] = i => EventAt(q, L + m + 2, "record", g, fence[g][i])'
    BY <1>3, <1>21 DEF EventAt
  <2> QED
    BY <2>1, <2>2, <2>3
<1>26. BehindInv'
  <2> SUFFICES ASSUME NEW r \in Queues, NEW p \in DOMAIN queue'[r], NEW d, d = queue'[r][p]
               PROVE
        /\ d.kind = "wait" => \E o \in DOMAIN queue'[r], k \in 1 .. Count(d.graph) : p < o /\ TaskAt(r, o, d.graph, k)'
        /\ d.kind = "task" =>
              \/ index(d.graph)[d.stage] > stage'[d.graph]
              \/ \E o \in DOMAIN queue'[r] :
                    p < o /\ EventAt(r, o, "record", d.graph, fence[d.graph][index(d.graph)[d.stage]])'
    BY <1>3, <1>10, <1>20 DEF BehindInv
  <2>0. d.kind = "task" => fence'[d.graph][index(d.graph)'[d.stage]] = fence[d.graph][index(d.graph)[d.stage]]
    BY <1>3, <1>10, <1>20
  <2>1. CASE p \in DOMAIN queue[r] /\ d = queue[r][p] /\ d.kind = "wait"
    <3>1. PICK o \in DOMAIN queue[r], k \in 1 .. Count(d.graph) : p < o /\ TaskAt(r, o, d.graph, k)
      BY <2>1 DEF DeviceInv, BehindInv
    <3> QED
      BY <1>19, <1>25, <2>1, <3>1
  <2>2. CASE p \in DOMAIN queue[r] /\ d = queue[r][p] /\ d.kind = "task"
    <3>0. PICK e : e = fence[d.graph][index(d.graph)[d.stage]]
      OBVIOUS
    <3>1. \/ index(d.graph)[d.stage] > stage[d.graph]
          \/ \E o \in DOMAIN queue[r] : p < o /\ EventAt(r, o, "record", d.graph, e)
      BY <2>2, <3>0 DEF DeviceInv, BehindInv
    <3>2. /\ d.graph \in Graphs /\ d.stage \in 1 .. stage[d.graph] /\ qOf(d.graph, d.stage) = r
          /\ stage[d.graph] \in 0 .. Count(d.graph) /\ Count(d.graph) \in Nat
      BY <2>2, CommandFacts, StageBound, GraphFacts DEF DeviceInv, CommandInv, ControlInv
    <3>3. CASE \E o \in DOMAIN queue[r] : p < o /\ EventAt(r, o, "record", d.graph, e)
      <4>1. PICK o \in DOMAIN queue[r] : p < o /\ EventAt(r, o, "record", d.graph, e)
        BY <3>3
      <4>2. o \in DOMAIN queue'[r] /\ EventAt(r, o, "record", d.graph, e)'
        BY <1>19, <1>25, <4>1
      <4> QED
        BY <2>0, <2>2, <3>0, <4>1, <4>2
    <3>4. CASE index(d.graph)[d.stage] > stage[d.graph]
      <4>1. CASE d.graph # g
        BY <1>9, <2>2, <3>2, <3>4, <4>1
      <4>2. CASE d.graph = g
        <5> DEFINE x == index(g)[d.stage]
        <5>1. d.stage \in 1 .. Count(g)
          BY <3>2, <4>2
        <5>2. x \in 1 .. Count(g) /\ index(g)[x] = x /\ qOf(g, x) = r
          BY <3>2, <4>2, <5>1, GraphFacts
        <5>3. x > stage[g]
          BY <3>4, <4>2
        <5> HIDE DEF x
        <5>4. CASE x = i
          <6>1. r = q /\ index(g)[i] = i /\ e = fence[g][i]
            BY <1>1, <3>0, <4>2, <5>2, <5>4 DEF x
          <6>2. p < L + m + 2 /\ L + m + 2 \in DOMAIN queue'[q]
            BY <1>7, <1>21, <2>2, <6>1
          <6>3. EventAt(r, L + m + 2, "record", d.graph, e)'
            BY <1>3, <1>25, <4>2, <6>1
          <6> QED
            BY <2>0, <2>2, <3>0, <6>1, <6>2, <6>3
        <5>5. CASE x # i
          <6>1. x > stage'[g]
            BY <1>1, <1>4, <1>9, <5>2, <5>3, <5>5
          <6> QED
            BY <2>2, <4>2, <6>1 DEF x
        <5> QED
          BY <5>4, <5>5
      <4> QED
        BY <4>1, <4>2
    <3> QED
      BY <3>1, <3>3, <3>4
  <2>3. CASE r = q /\ p \in L + 1 .. L + m /\ \E j \in waitsFor(g, i) :
                d = [kind |-> "wait", graph |-> g, event |-> fence[g][j], upto |-> recorded[fence[g][j]]]
    <3>1. d.kind = "wait" /\ d.graph = g
      BY <2>3
    <3>2. p < L + m + 1
      BY <1>7, <2>3
    <3> QED
      BY <1>4, <1>21, <1>25, <2>3, <3>1, <3>2
  <2>4. CASE r = q /\ p = L + m + 1 /\ d = [kind |-> "task", graph |-> g, stage |-> i]
    <3>1. d.kind = "task" /\ d.graph = g /\ d.stage = i
      BY <2>4
    <3>2. CASE index(g)[i] = i
      <4>1. p < L + m + 2 /\ L + m + 2 \in DOMAIN queue'[q]
        BY <1>7, <1>21, <2>4, <3>2
      <4>2. EventAt(r, L + m + 2, "record", d.graph, fence[d.graph][index(d.graph)[d.stage]])'
        BY <1>3, <1>25, <2>0, <2>4, <3>1, <3>2
      <4> QED
        BY <2>4, <3>1, <4>1, <4>2
    <3>3. CASE index(g)[i] # i
      <4>1. index(g)[i] \in 1 .. Count(g) /\ i <= index(g)[i]
        BY <1>4, GraphFacts
      <4>2. index(g)[i] > stage'[g]
        BY <1>4, <1>9, <3>3, <4>1
      <4> QED
        BY <3>1, <4>2
    <3> QED
      BY <3>2, <3>3
  <2>5. CASE d = [kind |-> "record", graph |-> g, event |-> fence[g][i]]
    BY <2>5
  <2>6. p \in DOMAIN queue[r] /\ d = queue[r][p] => d.kind \in {"task", "wait", "record"}
    BY CommandFacts, CommandKinds DEF DeviceInv
  <2>7. CASE p \in DOMAIN queue[r] /\ d = queue[r][p] /\ d.kind = "record"
    BY <2>7
  <2> QED
    BY <1>18, <2>1, <2>2, <2>3, <2>4, <2>5, <2>6, <2>7
<1>27. OrderInv'
  <2>1. ASSUME NEW h \in Graphs, NEW k \in 1 .. stage'[h]
        PROVE  <<h, k>> \in executed \/ \E r \in Queues : \E p \in DOMAIN queue'[r] : TaskAt(r, p, h, k)'
    <3>1. CASE h = g /\ k = i
      BY <1>5, <1>21, <1>25, <3>1
    <3>2. CASE k \in 1 .. stage[h]
      <4>1. CASE <<h, k>> \in executed
        BY <4>1
      <4>2. CASE \E r \in Queues : \E p \in DOMAIN queue[r] : TaskAt(r, p, h, k)
        <5>1. PICK r \in Queues : \E p \in DOMAIN queue[r] : TaskAt(r, p, h, k)
          BY <4>2
        <5>2. PICK p \in DOMAIN queue[r] : TaskAt(r, p, h, k)
          BY <5>1
        <5>3. p \in DOMAIN queue'[r] /\ TaskAt(r, p, h, k)'
          BY <1>19, <1>25, <5>2
        <5> QED
          BY <5>3
      <4> QED
        BY <3>2, <4>1, <4>2 DEF DeviceInv, OrderInv
    <3>3. (h = g /\ k = i) \/ k \in 1 .. stage[h]
      BY <1>1, <1>4, <1>9
    <3> QED
      BY <3>1, <3>2, <3>3
  <2>2. ASSUME NEW r \in Queues, NEW p \in DOMAIN queue'[r], NEW d, d = queue'[r][p], d.kind = "task",
               NEW j \in sender[d.graph].pred[d.stage], NEW e, e = fence[d.graph][j]
        PROVE  \/ <<d.graph, j>> \in executed
               \/ \E o \in DOMAIN queue'[r] : o < p /\ TaskAt(r, o, d.graph, j)'
               \/ /\ index(d.graph)[j] = j
                  /\ \E o \in DOMAIN queue'[r] : o < p /\ EventAt(r, o, "wait", d.graph, e)'
    <3>1. CASE p \in DOMAIN queue[r] /\ d = queue[r][p]
      <4>1. \/ <<d.graph, j>> \in executed
            \/ \E o \in DOMAIN queue[r] : o < p /\ TaskAt(r, o, d.graph, j)
            \/ /\ index(d.graph)[j] = j
               /\ \E o \in DOMAIN queue[r] : o < p /\ EventAt(r, o, "wait", d.graph, e)
        BY <2>2, <3>1 DEF DeviceInv, OrderInv
      <4>2. \A o \in DOMAIN queue[r] : /\ o \in DOMAIN queue'[r]
                                       /\ TaskAt(r, o, d.graph, j) => TaskAt(r, o, d.graph, j)'
                                       /\ EventAt(r, o, "wait", d.graph, e) => EventAt(r, o, "wait", d.graph, e)'
        BY <1>19, <1>25
      <4> QED
        BY <4>1, <4>2
    <3>2. CASE r = q /\ p = L + m + 1 /\ d = [kind |-> "task", graph |-> g, stage |-> i]
      <4>1. d.graph = g /\ d.stage = i /\ j \in sender[g].pred[i] /\ e = fence[g][j]
        BY <2>2, <3>2
      <4>2. j \in 1 .. Count(g) /\ j < i /\ j \in 1 .. stage[g]
        BY <1>1, <1>4, <4>1, GraphFacts
      <4>3. CASE qOf(g, j) = q
        <5>1. CASE <<g, j>> \in executed
          BY <4>1, <5>1
        <5>2. CASE \E u \in Queues : \E o \in DOMAIN queue[u] : TaskAt(u, o, g, j)
          <6>1. PICK u \in Queues : \E o \in DOMAIN queue[u] : TaskAt(u, o, g, j)
            BY <5>2
          <6>2. PICK o \in DOMAIN queue[u] : TaskAt(u, o, g, j)
            BY <6>1
          <6>3. qOf(g, j) = u
            BY <6>2 DEF TaskAt, DeviceInv, CommandInv
          <6>4. u = q /\ o \in DOMAIN queue'[q] /\ TaskAt(q, o, g, j)' /\ o < L + m + 1
            BY <1>7, <1>19, <1>25, <4>3, <6>2, <6>3
          <6> QED
            BY <3>2, <4>1, <6>4
        <5> QED
          BY <4>2, <5>1, <5>2 DEF DeviceInv, OrderInv
      <4>4. CASE qOf(g, j) # q
        <5>1. j \in waitsFor(g, i)
          BY <1>1, <4>1, <4>4 DEF waitsFor, qOf
        <5>2. PICK o \in DOMAIN queue'[q] :
                 /\ o \in L + 1 .. L + m
                 /\ queue'[q][o] = [kind |-> "wait", graph |-> g, event |-> fence[g][j], upto |-> recorded[fence[g][j]]]
          BY <1>21, <5>1
        <5>3. o < L + m + 1
          BY <1>7, <5>2
        <5>4. queue'[q][o].kind = "wait" /\ queue'[q][o].graph = g /\ queue'[q][o].event = e
          BY <4>1, <5>2
        <5>5. EventAt(q, o, "wait", g, e)'
          BY <5>4 DEF EventAt
        <5> QED
          BY <1>17, <3>2, <4>1, <5>1, <5>3, <5>5
      <4> QED
        BY <4>3, <4>4
    <3>3. \/ p \in DOMAIN queue[r] /\ d = queue[r][p]
          \/ r = q /\ p = L + m + 1 /\ d = [kind |-> "task", graph |-> g, stage |-> i]
      BY <1>18, <2>2
    <3> QED
      BY <3>1, <3>2, <3>3, Zenon
  <2>3. ASSUME NEW r \in Queues, NEW p \in DOMAIN queue'[r], NEW d, d = queue'[r][p], d.kind = "task",
               NEW j \in sender'[d.graph].pred[d.stage]
        PROVE  \/ <<d.graph, j>> \in executed'
               \/ \E o \in DOMAIN queue'[r] : o < p /\ TaskAt(r, o, d.graph, j)'
               \/ /\ index(d.graph)'[j] = j
                  /\ \E o \in DOMAIN queue'[r] : o < p /\ EventAt(r, o, "wait", d.graph, fence[d.graph][j])'
    <3>0. PICK e : e = fence[d.graph][j]
      OBVIOUS
    <3>1. index(d.graph)' = index(d.graph) /\ sender' = sender /\ executed' = executed /\ e = fence'[d.graph][j]
      BY <1>3, <1>10, <1>20, <2>3, <3>0
    <3>2. \/ <<d.graph, j>> \in executed
          \/ \E o \in DOMAIN queue'[r] : o < p /\ TaskAt(r, o, d.graph, j)'
          \/ /\ index(d.graph)[j] = j
             /\ \E o \in DOMAIN queue'[r] : o < p /\ EventAt(r, o, "wait", d.graph, e)'
      <4>1. j \in sender[d.graph].pred[d.stage]
        BY <2>3, <3>1
      <4> QED
        BY <2>2, <2>3, <3>0, <4>1
    <3> QED
      BY <3>0, <3>1, <3>2
  <2>4. ASSUME NEW t \in executed
        PROVE  /\ t[2] \in 1 .. stage'[t[1]]
               /\ \A j \in sender'[t[1]].pred[t[2]] : <<t[1], j>> \in executed
    <3>1. /\ t[1] \in Graphs /\ t[2] \in 1 .. stage[t[1]]
          /\ \A j \in sender[t[1]].pred[t[2]] : <<t[1], j>> \in executed
      BY DEF TypeInv, DeviceInv, OrderInv
    <3>2. stage[t[1]] \in Nat /\ stage'[t[1]] \in Nat /\ stage[t[1]] <= stage'[t[1]]
      BY <1>9, <3>1 DEF TypeInv
    <3> QED
      BY <1>3, <3>1, <3>2
  <2> QED
    BY <1>3, <2>1, <2>3, <2>4 DEF OrderInv
<1>28. SerialInv'
  <2>0. SUFFICES ASSUME NEW r \in Queues, Apart(r)
                 PROVE
        /\ \A x, y, z \in DOMAIN queue'[r] :
              x < y /\ y < z /\ queue'[r][x].graph = queue'[r][z].graph
                  => queue'[r][y].graph = queue'[r][x].graph
        /\ \A x, y \in DOMAIN queue'[r] :
              x < y /\ phase'[queue'[r][x].graph] = "submit" => queue'[r][y].graph = queue'[r][x].graph
    BY Zenon DEF SerialInv, Apart
  <2>1. /\ \A x, y, z \in DOMAIN queue[r] :
              x < y /\ y < z /\ queue[r][x].graph = queue[r][z].graph
                  => queue[r][y].graph = queue[r][x].graph
        /\ \A x, y \in DOMAIN queue[r] :
              x < y /\ phase[queue[r][x].graph] = "submit" => queue[r][y].graph = queue[r][x].graph
    BY <2>0 DEF DeviceInv, SerialInv
  <2>2. \A h \in Graphs : phase'[h] = "submit" => phase[h] = "submit"
    BY <1>3, <1>9
  <2>3. CASE r # q
    <3>1. queue'[r] = queue[r] /\ \A x \in DOMAIN queue[r] : queue[r][x].graph \in Graphs
      BY <1>7, <2>3, CommandFacts DEF DeviceInv
    <3> QED
      BY <2>1, <2>2, <3>1
  <2>4. CASE r = q
    <3>1. \* What is new belongs to this graph.
          \A x \in DOMAIN queue'[q] :
              \/ x \in 1 .. L /\ queue'[q][x] = queue[q][x]
              \/ x \in Nat /\ x > L /\ queue'[q][x].graph = g
      <4> SUFFICES ASSUME NEW x \in DOMAIN queue'[q], NEW d, d = queue'[q][x]
                   PROVE  \/ x \in 1 .. L /\ d = queue[q][x]
                          \/ x \in Nat /\ x > L /\ d.graph = g
        OBVIOUS
      <4>1. CASE x \in DOMAIN queue[q] /\ d = queue[q][x]
        BY <1>7, <4>1
      <4>2. CASE x \in L + 1 .. L + m /\ \E j \in waitsFor(g, i) :
                    d = [kind |-> "wait", graph |-> g, event |-> fence[g][j], upto |-> recorded[fence[g][j]]]
        BY <1>7, <4>2
      <4>3. CASE x = L + m + 1 /\ d = [kind |-> "task", graph |-> g, stage |-> i]
        BY <1>7, <4>3
      <4>4. CASE x = L + m + 2 /\ d = [kind |-> "record", graph |-> g, event |-> fence[g][i]]
        BY <1>7, <4>4
      <4> QED
        BY <1>5, <1>18, <4>1, <4>2, <4>3, <4>4
    <3>2. \* Nobody else who still submits has a command here.
          ASSUME NEW x \in 1 .. L, phase[queue[q][x].graph] = "submit"
          PROVE  queue[q][x].graph = g
      <4>1. PICK d : d = queue[q][x]
        OBVIOUS
      <4>2. x \in DOMAIN queue[q] /\ d \in Commands /\ d.graph \in Graphs /\ d.kind \in {"task", "wait", "record"}
        BY <1>5, <1>7, <4>1, CommandFacts, CommandKinds DEF DeviceInv
      <4>3. PICK k \in 1 .. Count(d.graph) : qOf(d.graph, k) = q
        <5>0. stage[d.graph] \in 0 .. Count(d.graph) /\ Count(d.graph) \in Nat
          BY <4>2, StageBound, GraphFacts DEF ControlInv
        <5>1. CASE d.kind = "task"
          <6>1. d.stage \in 1 .. stage[d.graph] /\ qOf(d.graph, d.stage) = q
            BY <1>5, <4>1, <4>2, <5>1 DEF DeviceInv, CommandInv
          <6> QED
            BY <5>0, <6>1
        <5>2. CASE d.kind = "record"
          <6>1. PICK k \in 1 .. stage[d.graph] : qOf(d.graph, k) = q
            BY <1>5, <4>1, <4>2, <5>2 DEF DeviceInv, CommandInv
          <6> QED
            BY <5>0, <6>1
        <5>3. CASE d.kind = "wait"
          <6>1. PICK o \in DOMAIN queue[q], k \in 1 .. Count(d.graph) : TaskAt(q, o, d.graph, k)
            BY <1>5, <4>1, <4>2, <5>3 DEF DeviceInv, BehindInv
          <6>2. qOf(d.graph, k) = q
            BY <1>5, <6>1 DEF DeviceInv, CommandInv, TaskAt
          <6> QED
            BY <6>2
        <5> QED
          BY <4>2, <5>1, <5>2, <5>3
      <4>4. phase[d.graph] = "submit" /\ Apart(qOf(g, i)) /\ qOf(g, i) = qOf(d.graph, k)
        BY <1>1, <2>0, <2>4, <3>2, <4>1, <4>3
      <4>5. g = d.graph
        BY <1>3, <1>4, <4>2, <4>3, <4>4, SoleSubmitter DEF ControlInv, PoolInv
      <4> QED
        BY <4>1, <4>5
    <3>3. \* Behind a command of this graph there are only commands of it.
          ASSUME NEW x \in 1 .. L, queue[q][x].graph = g, NEW y \in DOMAIN queue'[q], x < y
          PROVE  queue'[q][y].graph = g
      <4>1. CASE y \in 1 .. L /\ queue'[q][y] = queue[q][y]
        <5>1. \A u, v \in 1 .. L :
                 u < v /\ phase[queue[q][u].graph] = "submit" => queue[q][v].graph = queue[q][u].graph
          BY <1>7, <2>1, <2>4, Zenon
        <5>2. phase[queue[q][x].graph] = "submit"
          BY <1>3, <3>3
        <5> QED
          BY <3>3, <4>1, <5>1, <5>2
      <4> QED
        BY <3>1, <3>3, <4>1
    <3>4. ASSUME NEW x \in DOMAIN queue'[q], NEW y \in DOMAIN queue'[q], NEW z \in DOMAIN queue'[q],
                 x < y, y < z, queue'[q][x].graph = queue'[q][z].graph
          PROVE  queue'[q][y].graph = queue'[q][x].graph
      <4>1. CASE z \in 1 .. L /\ queue'[q][z] = queue[q][z]
        <5>1. /\ x \in 1 .. L /\ queue'[q][x] = queue[q][x]
              /\ y \in 1 .. L /\ queue'[q][y] = queue[q][y]
          BY <1>7, <3>1, <3>4, <4>1
        <5>2. \A u, v, w \in 1 .. L :
                 u < v /\ v < w /\ queue[q][u].graph = queue[q][w].graph => queue[q][v].graph = queue[q][u].graph
          BY <1>7, <2>1, <2>4, ZenonT(60)
        <5> QED
          BY <3>4, <4>1, <5>1, <5>2
      <4>2. CASE z > L /\ queue'[q][z].graph = g
        <5>1. CASE x \in 1 .. L /\ queue'[q][x] = queue[q][x]
          BY <3>3, <3>4, <4>2, <5>1
        <5>2. CASE x \in Nat /\ x > L /\ queue'[q][x].graph = g
          <6>1. y \in Nat
            BY <1>7, <3>1
          <6>2. ~(y \in 1 .. L)
            BY <1>7, <3>4, <5>2, <6>1
          <6> QED
            BY <3>1, <5>2, <6>2
        <5> QED
          BY <3>1, <5>1, <5>2
      <4> QED
        BY <3>1, <4>1, <4>2
    <3>5. ASSUME NEW x \in DOMAIN queue'[q], NEW y \in DOMAIN queue'[q], x < y,
                 phase'[queue'[q][x].graph] = "submit"
          PROVE  queue'[q][y].graph = queue'[q][x].graph
      <4>1. phase[queue'[q][x].graph] = "submit"
        BY <1>5, <1>20, <2>2, <3>5
      <4>2. CASE x \in 1 .. L /\ queue'[q][x] = queue[q][x]
        BY <3>2, <3>3, <3>5, <4>1, <4>2
      <4>3. CASE x \in Nat /\ x > L /\ queue'[q][x].graph = g
        <5>1. y \in Nat
          BY <1>7, <3>1
        <5>2. ~(y \in 1 .. L)
          BY <1>7, <3>5, <4>3, <5>1
        <5> QED
          BY <3>1, <4>3, <5>2
      <4> QED
        BY <3>1, <4>2, <4>3
    <3> QED
      BY <2>4, <3>4, <3>5
  <2> QED
    BY <2>3, <2>4
<1> QED
  BY <1>12, <1>13, <1>14, <1>15, <1>16, <1>22, <1>24, <1>26, <1>27, <1>28 DEF ControlInv, DeviceInv

-----------------------------------------------------------------------------
(* The inductive invariant and what follows from it.                       *)

IInv == TypeInv /\ ControlInv /\ PoolInv /\ DeviceInv

\* Initially no graph is connected and no queue has a command.
LEMMA InitInv ==
    ASSUME Init
    PROVE  IInv
<1> USE DEF Init
<1>0. /\ QueueCount \in Nat \ {0} /\ None \notin Graphs /\ MaxQueues \in Nat /\ Borrowed \in Nat
  BY DeviceConstants
<1>1. TypeInv
  <2>1. single \in Expressions
    BY DEF Expressions
  <2>2. m_next \in 0 .. QueueCount - 1
    BY <1>0
  <2>3. phase \in [Graphs -> Phases]
    BY DEF Phases
  <2>4. /\ made \in Nat /\ free \in Seq(1 .. made)
        /\ recorded \in Seq(Nat) /\ Len(recorded) = made /\ reached \in Seq(Nat) /\ Len(reached) = made
        /\ posted \in Seq(Graphs) /\ pending \in Seq(Graphs) /\ deferred \in Seq(Graphs)
    OBVIOUS
  <2>5. queue \in [Queues -> Seq(Commands)] /\ executed \subseteq Graphs \X Nat
    <3>1. <<>> \in Seq(Commands)
      OBVIOUS
    <3> QED
      BY <3>1
  <2>6. sender \in [Graphs -> Expressions] /\ holder \in [Queues -> Graphs \cup {None}] /\ stage \in [Graphs -> Nat]
    BY <2>1
  <2> QED
    BY <2>2, <2>3, <2>4, <2>5, <2>6 DEF TypeInv
<1>2. \A g \in Graphs : phase[g] = "new" /\ ~live(g) /\ stage[g] = 0 /\ fence[g] = <<>> /\ bound[g] = <<>>
  BY DEF live
<1>3. \A q \in Queues : holder[q] = None /\ DOMAIN queue[q] = {}
  OBVIOUS
<1>4. ControlInv
  <2>1. Listed = {}
    BY DEF Listed, Range
  <2>2. StageInv /\ LockInv
    BY <1>2, <1>3 DEF StageInv, LockInv
  <2>3. WorkInv /\ StopInv
    BY <1>2, <2>1 DEF WorkInv, StopInv
  <2> QED
    BY <2>2, <2>3 DEF ControlInv
<1>5. PoolInv
  BY <1>2 DEF PoolInv, LeaseInv, EventInv, QueueInv
<1>6. DeviceInv
  <2>1. CommandInv /\ BehindInv /\ SerialInv
    BY <1>3 DEF CommandInv, BehindInv, SerialInv
  <2>2. RecordInv /\ OrderInv
    BY <1>2, <1>3 DEF RecordInv, OrderInv
  <2> QED
    BY <2>1, <2>2 DEF DeviceInv
<1> QED
  BY <1>1, <1>4, <1>5, <1>6 DEF IInv

\* Every step of every thread and of the device preserves it.
LEMMA NextInv ==
    ASSUME IInv, [Next]_vars
    PROVE  IInv'
<1>0. TypeInv /\ ControlInv /\ PoolInv /\ DeviceInv
  BY DEF IInv
<1>1. SUFFICES TypeInv' /\ ControlInv' /\ PoolInv' /\ DeviceInv'
  BY DEF IInv
<1>2. ASSUME NEW g \in Graphs, Connect(g)
      PROVE  TypeInv' /\ ControlInv' /\ PoolInv' /\ DeviceInv'
  BY <1>0, <1>2, ConnectStep
<1>3. ASSUME NEW g \in Graphs, Discard(g)
      PROVE  TypeInv' /\ ControlInv' /\ PoolInv' /\ DeviceInv'
  BY <1>0, <1>3, DiscardStep
<1>4. ASSUME NEW g \in Graphs, Start(g)
      PROVE  TypeInv' /\ ControlInv' /\ PoolInv' /\ DeviceInv'
  BY <1>0, <1>4, StartStep
<1>5. ASSUME NEW g \in Graphs, LockQueue(g)
      PROVE  TypeInv' /\ ControlInv' /\ PoolInv' /\ DeviceInv'
  BY <1>0, <1>5, LockStep
<1>6. ASSUME NEW g \in Graphs, SubmitStage(g)
      PROVE  TypeInv' /\ ControlInv' /\ PoolInv' /\ DeviceInv'
  BY <1>0, <1>6, SubmitStep
<1>7. ASSUME NEW g \in Graphs, UnlockQueue(g)
      PROVE  TypeInv' /\ ControlInv' /\ PoolInv' /\ DeviceInv'
  BY <1>0, <1>7, UnlockStep
<1>8. ASSUME NEW g \in Graphs, Publish(g)
      PROVE  TypeInv' /\ ControlInv' /\ PoolInv' /\ DeviceInv'
  BY <1>0, <1>8, PublishStep
<1>9. ASSUME NEW t \in Graphs \cup {"destructor"}, Notify(t)
      PROVE  TypeInv' /\ ControlInv' /\ PoolInv' /\ DeviceInv'
  BY <1>0, <1>9, NotifyStep
<1>10. ASSUME NEW q \in Queues, Execute(q)
       PROVE  TypeInv' /\ ControlInv' /\ PoolInv' /\ DeviceInv'
  BY <1>0, <1>10, ExecuteStep
<1>11. CASE Take
  BY <1>0, <1>11, TakeStep
<1>12. CASE Deliver
  BY <1>0, <1>12, DeliverStep
<1>13. CASE Defer
  BY <1>0, <1>13, DeferStep
<1>14. CASE Rescan
  BY <1>0, <1>14, RescanStep
<1>15. CASE Stop
  BY <1>0, <1>15, StopStep
<1>16. CASE UNCHANGED vars
  <2>1. TypeInv'
    BY <1>0, <1>16 DEF TypeInv, vars
  <2>2. ControlInv'
    BY <1>0, <1>16 DEF ControlInv, StageInv, LockInv, WorkInv, StopInv, Listed, Count, distinct, held, Stages, vars
  <2>3. PoolInv' /\ DeviceInv'
    <3>1. /\ UNCHANGED <<pool, sender, bound, stage, fence, eventVars, deviceVars>> /\ phase' = phase
      BY <1>16 DEF vars, eventVars, deviceVars
    <3>2. \A g \in Graphs : live(g)' <=> live(g)
      BY <3>1 DEF live
    <3>3. DOMAIN phase' = Graphs
      BY <1>0, <3>1 DEF TypeInv
    <3> QED
      BY <1>0, <3>1, <3>2, <3>3, QuietStep
  <2> QED
    BY <2>1, <2>2, <2>3
<1> QED
  BY <1>2, <1>3, <1>4, <1>5, <1>6, <1>7, <1>8, <1>9, <1>10, <1>11, <1>12, <1>13, <1>14, <1>15, <1>16, Zenon
  DEF Next, Submission

\* The invariant holds in every reachable state.
THEOREM Invariance == Spec => []IInv
<1>1. Init => IInv
  BY InitInv
<1>2. IInv /\ [Next]_vars => IInv'
  BY NextInv
<1> QED
  BY <1>1, <1>2, PTL DEF Spec

\* Every variable has its type in every reachable state.
THEOREM TypeCorrect == Spec => []TypeOK
<1>1. ASSUME IInv
      PROVE  TypeOK
  <2>0. TypeInv /\ ControlInv /\ PoolInv /\ DeviceInv
    BY <1>1 DEF IInv
  <2>1. ASSUME NEW g \in Graphs
        PROVE  /\ stage[g] \in 0 .. Len(sender[g].pred)
               /\ live(g) => Range(bound[g]) \subseteq
                     IF pool = "shared" THEN 0 .. QueueCount - 1 ELSE 0 .. MaxQueues - 1
               /\ Range(fence[g]) \subseteq 1 .. made
    <3>1. stage[g] \in 0 .. Len(sender[g].pred)
      BY <2>0, StageBound DEF ControlInv, Count
    <3>2. PICK Q : Q = IF pool = "shared" THEN 0 .. QueueCount - 1 ELSE 0 .. MaxQueues - 1
      OBVIOUS
    <3>3. ASSUME live(g), NEW x \in DOMAIN bound[g]
          PROVE  bound[g][x] \in Q
      <4>1. CASE explicit(sender[g])
        <5>1. bound[g] = <<>>
          BY <2>0, <3>3, <4>1 DEF PoolInv, LeaseInv
        <5> QED
          BY <3>3, <5>1
      <4>2. CASE ~explicit(sender[g])
        <5>1. bound[g] \in [0 .. sender[g].count - 1 -> Q]
          BY <2>0, <3>2, <3>3, <4>2 DEF PoolInv, LeaseInv
        <5> QED
          BY <3>3, <5>1
      <4> QED
        BY <4>1, <4>2
    <3>4. \A x \in DOMAIN fence[g] : fence[g][x] \in 1 .. made
      BY <2>0, LeaseFacts DEF PoolInv
    <3> QED
      BY <3>1, <3>2, <3>3, <3>4 DEF Range
  <2>2. \A e \in 1 .. made : reached[e] <= recorded[e]
    BY <2>0 DEF DeviceInv, RecordInv
  <2>3. Range(free) \subseteq 1 .. made
    BY <2>0, SMTT(30) DEF TypeInv, Range
  <2>4. Range(posted \o pending \o deferred) \subseteq Graphs
    <3>1. posted \o pending \o deferred \in Seq(Graphs)
      BY <2>0 DEF TypeInv
    <3> QED
      BY <3>1 DEF Range
  <2> QED
    BY <2>0, <2>1, <2>2, <2>3, <2>4 DEF TypeInv, TypeOK, Phases
<1> QED
  BY <1>1, Invariance, PTL

\* The invariant keeps the order an expression means: the executed stages hold the
\* predecessors of each of them.
LEMMA ExecutedInOrder ==
    ASSUME IInv
    PROVE  StageOrder
<1>0. TypeInv /\ ControlInv /\ DeviceInv
  BY DEF IInv
<1>1. SUFFICES ASSUME NEW g \in Graphs, NEW p \in sender[g].before, <<g, p[2]>> \in executed
               PROVE  <<g, p[1]>> \in executed
  BY DEF StageOrder
<1> DEFINE S == {i \in 1 .. Count(g) : <<g, i>> \in executed}
<1>2. /\ WellFormed(sender[g]) /\ Count(g) \in Nat /\ stage[g] \in 0 .. Count(g)
      /\ \A i \in 1 .. Count(g) : \A j \in sender[g].pred[i] : j \in 1 .. Count(g)
  BY <1>0, ExpressionsWellFormed, GraphFacts, StageBound DEF TypeInv, ControlInv
<1>3. \A i \in S : sender[g].pred[i] \subseteq S
  <2> SUFFICES ASSUME NEW i \in S, NEW j \in sender[g].pred[i]
               PROVE  j \in S
    OBVIOUS
  <2>1. PICK t \in executed : t = <<g, i>>
    OBVIOUS
  <2>2. \A k \in sender[t[1]].pred[t[2]] : <<t[1], k>> \in executed
    BY <1>0 DEF DeviceInv, OrderInv
  <2>3. <<g, j>> \in executed
    BY <2>1, <2>2
  <2> QED
    BY <1>2, <2>3
<1>4. p[2] \in S
  <2>1. PICK t \in executed : t = <<g, p[2]>>
    BY <1>1
  <2>2. t[2] \in 1 .. stage[t[1]]
    BY <1>0 DEF DeviceInv, OrderInv
  <2>3. p[2] \in 1 .. stage[g]
    BY <2>1, <2>2
  <2> QED
    BY <1>1, <1>2, <2>3
<1>5. S \in SUBSET (DOMAIN sender[g].pred)
  <2>1. DOMAIN sender[g].pred = 1 .. Count(g)
    BY <1>0, GraphFacts DEF Stages
  <2> QED
    BY <2>1
<1>6. ordersBefore(sender[g].pred, sender[g].before)
  BY <1>2 DEF WellFormed
<1> HIDE DEF S
<1>7. p[1] \in S
  BY <1>1, <1>3, <1>4, <1>5, <1>6 DEF ordersBefore
<1> QED
  BY <1>7 DEF S

\* submitStage's waits, the shared fences and the FIFO queues keep, for every expression,
\* every binding and every interleaving of the graphs, the order the expression means.
THEOREM StagesInOrder == Spec => []StageOrder
<1>1. IInv => StageOrder
  BY ExecutedInOrder
<1> QED
  BY <1>1, Invariance, PTL

\* On a queue of the pool the commands of two graphs never alternate, whatever the callers do
\* with their own queues.
PoolSerializes ==
    \A q \in 0 .. MaxQueues - 1 : \A i, j, k \in DOMAIN queue[q] :
        i < j /\ j < k /\ queue[q][i].graph = queue[q][k].graph
            => queue[q][j].graph = queue[q][i].graph

\* The mutexes of Binding::start and the leases of a QueuePool serialize the graphs on every
\* queue of the pool.
THEOREM PoolSubmissionsSerialize == Spec => []PoolSerializes
<1>1. ASSUME IInv
      PROVE  PoolSerializes
  <2>1. \A q \in 0 .. MaxQueues - 1 : q \in Queues /\ Apart(q)
    BY DeviceConstants DEF Queues, Apart
  <2> QED
    BY <1>1, <2>1 DEF IInv, DeviceInv, SerialInv, PoolSerializes
<1> QED
  BY <1>1, Invariance, PTL

\* With callers that keep their queues apart, which is what a borrowed queue is for, the same
\* holds on every queue: the device executes what the expressions mean.
THEOREM DeviceOrdered ==
    ASSUME CallersQueuesApart
    PROVE  Spec => []DeviceOrder
<1>1. ASSUME IInv
      PROVE  DeviceOrder
  <2>1. StageOrder
    BY <1>1, ExecutedInOrder
  <2>2. SubmissionsSerialize
    BY <1>1 DEF IInv, DeviceInv, SerialInv, Apart, SubmissionsSerialize
  <2> QED
    BY <2>1, <2>2 DEF DeviceOrder
<1> QED
  BY <1>1, Invariance, PTL

\* A delivered graph is quiescent, an event is recycled only when nobody waits for it or
\* records it, and the completion thread leaves no started graph behind.
THEOREM GraphsDeliveredQuiescent == Spec => []DeliveredQuiescent
<1>1. ASSUME IInv
      PROVE  DeliveredQuiescent
  <2>0. TypeInv /\ ControlInv /\ PoolInv /\ DeviceInv
    BY <1>1 DEF IInv
  <2>1. QuiescentOnDelivery
    <3> SUFFICES ASSUME NEW g \in Graphs, phase[g] = "done"
                 PROVE  /\ \A i \in Stages(g) : <<g, i>> \in executed
                        /\ \A q \in Queues : \A c \in Range(queue[q]) : c.graph # g
      BY DEF QuiescentOnDelivery
    <3>1. \A q \in Queues : \A p \in DOMAIN queue[q] : queue[q][p].graph # g
      BY <2>0 DEF DeviceInv, CommandInv
    <3>2. stage[g] = Count(g) /\ Stages(g) = 1 .. Count(g)
      BY <2>0, GraphFacts DEF ControlInv, StageInv
    <3>3. \A i \in Stages(g) : <<g, i>> \in executed
      BY <2>0, <3>1, <3>2 DEF DeviceInv, OrderInv, TaskAt
    <3> QED
      BY <3>1, <3>3 DEF Range
  <2>2. EventsExclusive
    <3>1. ASSUME NEW q \in Queues, NEW c \in Range(queue[q]), c.kind # "task"
          PROVE  c.event \in Range(fence[c.graph])
      <4>1. PICK p \in DOMAIN queue[q] : c = queue[q][p]
        BY <3>1 DEF Range
      <4>2. c \in Commands /\ c.graph \in Graphs /\ live(c.graph)
        BY <2>0, <4>1, CommandFacts DEF DeviceInv
      <4>3. PICK k \in 1 .. stage[c.graph] : index(c.graph)[k] = k /\ c.event = fence[c.graph][k]
        BY <2>0, <3>1, <4>1, <4>2, CommandKinds DEF DeviceInv, CommandInv
      <4>4. k \in 1 .. Count(c.graph)
        BY <2>0, <4>2, StageBound, GraphFacts DEF ControlInv
      <4>5. k \in DOMAIN fence[c.graph]
        BY <2>0, <4>2, <4>3, <4>4, LeaseFacts DEF PoolInv
      <4> QED
        BY <4>3, <4>5 DEF Range
    <3>2. \A g, h \in Graphs : g # h => Range(fence[g]) \cap Range(fence[h]) = {}
      BY <2>0 DEF PoolInv, EventInv, Range
    <3>3. ASSUME NEW g \in Graphs
          PROVE  IsInjective(fence[g]) /\ Range(fence[g]) \cap Range(free) = {}
      <4>1. IsInjective(fence[g])
        BY <2>0 DEF PoolInv, EventInv, IsInjective
      <4>2. DOMAIN free = 1 .. Len(free)
        BY <2>0 DEF TypeInv
      <4>3. \A i \in DOMAIN fence[g], k \in DOMAIN free : fence[g][i] # free[k]
        BY <2>0, <4>2 DEF PoolInv, EventInv
      <4> QED
        BY <4>1, <4>3 DEF Range
    <3> QED
      BY <3>1, <3>2, <3>3 DEF EventsExclusive
  <2>3. StopDrains
    <3> SUFFICES ASSUME worker = "gone", NEW g \in Graphs
                 PROVE  phase[g] \in {"new", "bound", "done", "gone"}
      BY DEF StopDrains
    <3>1. stopped /\ posted = <<>> /\ pending = <<>> /\ deferred = <<>> /\ runner = None
      BY <2>0 DEF ControlInv, StopInv
    <3>2. phase[g] \notin {"locking", "submit", "unlock", "publish"}
      BY <2>0, <3>1, DeviceConstants DEF ControlInv, StopInv
    <3>3. phase[g] # "posted"
      <4>1. Listed = {}
        BY <3>1 DEF Listed, Range
      <4> QED
        BY <2>0, <4>1 DEF ControlInv, WorkInv
    <3>4. phase[g] \in Phases
      BY <2>0 DEF TypeInv
    <3> QED
      BY <3>2, <3>3, <3>4 DEF Phases
  <2> QED
    BY <2>1, <2>2, <2>3 DEF DeliveredQuiescent
<1> QED
  BY <1>1, Invariance, PTL

-----------------------------------------------------------------------------
(* SendersWellFormed holds of what the expressions are built with.         *)

\* A set of stages that holds the predecessors of its stages and the tails of a range holds
\* the range.
LEMMA TailsReachAll ==
    ASSUME NEW n \in Nat, NEW R \in SUBSET (1 .. n), NEW pred, NEW S,
           \A i \in R : \A j \in pred[i] : j < i,
           \A i \in R : i \in S => pred[i] \subseteq S,
           \A t \in R : (\A i \in R : t \notin pred[i]) => t \in S
    PROVE  R \subseteq S
<1> DEFINE M == {i \in R : i \notin S}
<1>1. SUFFICES ASSUME M # {}
               PROVE  FALSE
  OBVIOUS
<1>2. M \in SUBSET (0 .. n)
  <2>1. \A x \in R : x \in 0 .. n
    OBVIOUS
  <2> QED
    BY <2>1
<1>3. PICK t \in M : \A y \in M : y <= t
  <2> HIDE DEF M
  <2> QED
    BY <1>1, <1>2, LargestOf
<1>4. PICK i \in R : t \in pred[i]
  OBVIOUS
<1>5. t < i /\ i \in 1 .. n /\ t \in 1 .. n
  BY <1>4
<1>6. i \in S
  BY <1>3, <1>5
<1> QED
  BY <1>4, <1>6

\* The first stage of a range in such a set has no predecessor in the range.
LEMMA FirstIsRoot ==
    ASSUME NEW R \in SUBSET Nat, NEW pred, NEW S, NEW k \in R, k \in S,
           \A i \in R : \A j \in pred[i] : j < i,
           \A i \in R : i \in S => pred[i] \subseteq S
    PROVE  \E r \in R : r \in S /\ pred[r] \cap R = {}
<1> DEFINE M == R \cap S
<1>1. M \in SUBSET Nat /\ M # {}
  OBVIOUS
<1>2. PICK r \in M : \A y \in M : r <= y
  <2> HIDE DEF M
  <2> QED
    BY <1>1, SmallestOf
<1>3. ASSUME NEW j \in pred[r], j \in R
      PROVE  FALSE
  <2>1. j < r /\ j \in M /\ j \in Nat /\ r \in Nat
    BY <1>3
  <2> QED
    BY <1>2, <2>1
<1> QED
  BY <1>3

\* A stage of its own, on a lane or on a queue of the caller.
LEMMA StagesWellFormed ==
    ASSUME NEW q \in MaxQueues .. MaxQueues + Borrowed - 1
    PROVE  WellFormed(single) /\ WellFormed(submit(q))
<1>1. WellFormed(single)
  BY ExpressionsWellFormed DEF Expressions
<1>2. PICK s : s = submit(q)
  OBVIOUS
<1>3. /\ s.pred = single.pred /\ s.lanes = single.lanes /\ s.count = single.count /\ s.before = single.before
      /\ s.own = <<q>> /\ Len(single.pred) = 1
  BY <1>2 DEF submit, single
<1>4. s.own \in [1 .. 1 -> MaxQueues .. MaxQueues + Borrowed - 1]
  BY <1>3
<1>5. WellFormed(s)
  BY <1>1, <1>3, <1>4 DEF WellFormed
<1> QED
  BY <1>1, <1>2, <1>5

Dependencies(pred, n) ==
    pred \in [1 .. n -> SUBSET (1 .. n)] /\ \A i \in 1 .. n : \A j \in pred[i] : j < i

Orders(pred, n, before) == before \in SUBSET ((1 .. n) \X (1 .. n)) /\ ordersBefore(pred, before)

Composed(ordered, left, right, n, m, both) ==
    /\ both \in Seq(SUBSET (1 .. n + m)) /\ Len(both) = n + m
    /\ \A i \in 1 .. n : both[i] = left[i]
    /\ \A i \in 1 .. m : /\ \A j \in right[i] : n + j \in both[n + i]
                         /\ \A k \in both[n + i] :
                               (\E j \in right[i] : k = n + j) \/ k \in 1 .. n
                         /\ ordered /\ right[i] = {} =>
                               \A t \in 1 .. n : (\A h \in 1 .. n : t \notin left[h]) => t \in both[n + i]

KeepsOrder(ordered, n, m, first, second, S) ==
    /\ \A e \in first : e[2] \in S => e[1] \in S
    /\ \A e \in second : n + e[2] \in S => n + e[1] \in S
    /\ ordered => \A i \in 1 .. n, k \in 1 .. m : n + k \in S => i \in S

\* composeDependencies: the left stages keep their predecessors, the right ones keep theirs,
\* shifted, and the roots of the right side of a sequence get the left side's tails.
LEMMA ComposedDependencies ==
    ASSUME NEW ordered \in BOOLEAN, NEW left, NEW right, NEW n \in Nat, NEW m \in Nat,
           Dependencies(left, n), Dependencies(right, m),
           NEW both, both = composeDependencies(ordered, left, right)
    PROVE  Composed(ordered, left, right, n, m, both)
<1>0. left \in [1 .. n -> SUBSET (1 .. n)] /\ right \in [1 .. m -> SUBSET (1 .. m)]
  BY DEF Dependencies
<1> DEFINE tails == {j \in 1 .. n : \A i \in 1 .. n : j \notin left[i]}
           added(i) == {n + j : j \in right[i]} \cup (IF ordered /\ right[i] = {} THEN tails ELSE {})
           moved == [i \in 1 .. m |-> added(i)]
<1>1. left \in Seq(SUBSET (1 .. n)) /\ Len(left) = n /\ DOMAIN right = 1 .. m
  BY <1>0
<1>2. both = left \o moved
  BY <1>1 DEF composeDependencies
<1>3. \A i \in 1 .. m : added(i) \in SUBSET (1 .. n + m)
  <2> SUFFICES ASSUME NEW i \in 1 .. m, NEW k \in added(i)
               PROVE  k \in 1 .. n + m
    OBVIOUS
  <2>1. CASE \E j \in right[i] : k = n + j
    BY <1>0, <2>1
  <2>2. CASE k \in 1 .. n
    BY <2>2
  <2> QED
    BY <2>1, <2>2
<1>4. left \in Seq(SUBSET (1 .. n + m))
  <2>1. \A i \in 1 .. n : left[i] \in SUBSET (1 .. n + m)
    <3> SUFFICES ASSUME NEW i \in 1 .. n, NEW k \in left[i]
                 PROVE  k \in 1 .. n + m
      OBVIOUS
    <3>1. k \in 1 .. n
      BY <1>0
    <3> QED
      BY <3>1
  <2> QED
    BY <1>1, <2>1
<1>5. moved \in Seq(SUBSET (1 .. n + m)) /\ Len(moved) = m /\ \A i \in 1 .. m : moved[i] = added(i)
  <2> HIDE DEF added
  <2> QED
    BY <1>3
<1>6. /\ both \in Seq(SUBSET (1 .. n + m)) /\ Len(both) = n + m
      /\ \A i \in 1 .. n : both[i] = left[i]
      /\ \A i \in 1 .. m : both[n + i] = added(i)
  <2> HIDE DEF moved, added
  <2>0. PICK P : P = SUBSET (1 .. n + m)
    OBVIOUS
  <2>a. left \in Seq(P) /\ moved \in Seq(P) /\ Len(left) = n /\ Len(moved) = m
    BY <1>1, <1>4, <1>5, <2>0
  <2>b. /\ left \o moved \in Seq(P) /\ Len(left \o moved) = n + m
        /\ \A i \in 1 .. n + m : (left \o moved)[i] = IF i <= n THEN left[i] ELSE moved[i - n]
    BY <2>a, ConcatProperties
  <2>1. both \in Seq(SUBSET (1 .. n + m)) /\ Len(both) = n + m
    BY <1>2, <2>0, <2>b
  <2>2. \A i \in 1 .. n + m : both[i] = IF i <= n THEN left[i] ELSE moved[i - n]
    BY <1>2, <2>b
  <2>3. \A i \in 1 .. n : both[i] = left[i]
    BY <2>2
  <2>4. ASSUME NEW i \in 1 .. m
        PROVE  both[n + i] = added(i)
    <3>1. n + i \in 1 .. n + m /\ ~(n + i <= n) /\ (n + i) - n = i
      OBVIOUS
    <3> QED
      BY <1>5, <2>2, <3>1
  <2> QED
    BY <2>1, <2>3, <2>4
<1>7. ASSUME NEW i \in 1 .. m
      PROVE  /\ \A j \in right[i] : n + j \in added(i)
             /\ \A k \in added(i) : (\E j \in right[i] : k = n + j) \/ k \in 1 .. n
             /\ ordered /\ right[i] = {} =>
                   \A t \in 1 .. n : (\A h \in 1 .. n : t \notin left[h]) => t \in added(i)
  OBVIOUS
<1> HIDE DEF added
<1> QED
  BY <1>6, <1>7 DEF Composed

\* The dependencies of a composition imply the order it means: that of both sides and, for a
\* sequence, the whole left side before the whole right side.
LEMMA ComposedOrder ==
    ASSUME NEW ordered \in BOOLEAN, NEW left, NEW right, NEW n \in Nat, NEW m \in Nat,
           Dependencies(left, n), Dependencies(right, m),
           NEW both, both = composeDependencies(ordered, left, right),
           NEW first, Orders(left, n, first), NEW second, Orders(right, m, second),
           NEW S \in SUBSET (1 .. n + m), \A i \in S : both[i] \subseteq S
    PROVE  KeepsOrder(ordered, n, m, first, second, S)
<1>0. /\ left \in [1 .. n -> SUBSET (1 .. n)] /\ \A i \in 1 .. n : \A j \in left[i] : j < i
      /\ right \in [1 .. m -> SUBSET (1 .. m)] /\ \A i \in 1 .. m : \A j \in right[i] : j < i
      /\ first \in SUBSET ((1 .. n) \X (1 .. n)) /\ ordersBefore(left, first)
      /\ second \in SUBSET ((1 .. m) \X (1 .. m)) /\ ordersBefore(right, second)
  BY DEF Dependencies, Orders
<1> DEFINE F == {i \in 1 .. n : i \in S}
           T == {i \in 1 .. m : n + i \in S}
<1>1. /\ \A i \in 1 .. n : both[i] = left[i]
      /\ \A i \in 1 .. m : \A j \in right[i] : n + j \in both[n + i]
      /\ \A i \in 1 .. m : ordered /\ right[i] = {} =>
            \A t \in 1 .. n : (\A h \in 1 .. n : t \notin left[h]) => t \in both[n + i]
  <2>1. Composed(ordered, left, right, n, m, both)
    BY ComposedDependencies
  <2> QED
    BY <2>1 DEF Composed
<1>2. F \in SUBSET (DOMAIN left) /\ \A i \in F : left[i] \subseteq F
  BY <1>0, <1>1
<1>3. T \in SUBSET (DOMAIN right) /\ \A i \in T : right[i] \subseteq T
  <2> SUFFICES ASSUME NEW i \in T, NEW j \in right[i]
               PROVE  j \in T
    BY <1>0
  <2>1. j \in 1 .. m /\ n + j \in both[n + i] /\ n + i \in S
    BY <1>0, <1>1
  <2> QED
    BY <2>1
<1>4. ASSUME NEW e \in first, e[2] \in S
      PROVE  e[1] \in S
  <2>1. e[2] \in F
    BY <1>0, <1>4
  <2>2. e[1] \in F
    <3> HIDE DEF F
    <3> QED
      BY <1>0, <1>2, <2>1 DEF ordersBefore
  <2> QED
    BY <2>2
<1>5. ASSUME NEW e \in second, n + e[2] \in S
      PROVE  n + e[1] \in S
  <2>1. e[2] \in T
    BY <1>0, <1>5
  <2>2. e[1] \in T
    <3> HIDE DEF T
    <3> QED
      BY <1>0, <1>3, <2>1 DEF ordersBefore
  <2> QED
    BY <2>2
<1>6. ASSUME ordered, NEW k \in 1 .. m, n + k \in S
      PROVE  1 .. n \subseteq S
  <2>1. PICK r \in 1 .. m : r \in T /\ right[r] \cap (1 .. m) = {}
    <3>1. k \in T /\ 1 .. m \in SUBSET Nat /\ \A i \in 1 .. m : i \in T => right[i] \subseteq T
      BY <1>3, <1>6
    <3>2. PICK R : R = 1 .. m
      OBVIOUS
    <3> HIDE DEF T
    <3>3. \E r \in R : r \in T /\ right[r] \cap R = {}
      <4>1. R \in SUBSET Nat /\ k \in R /\ k \in T
        BY <3>1, <3>2
      <4>2. /\ \A i \in R : \A j \in right[i] : j < i
            /\ \A i \in R : i \in T => right[i] \subseteq T
        BY <1>0, <3>1, <3>2
      <4> QED
        BY <4>1, <4>2, FirstIsRoot
    <3> QED
      BY <3>2, <3>3
  <2>2. right[r] = {} /\ both[n + r] \subseteq S
    BY <1>0, <2>1
  <2>3. \A t \in 1 .. n : (\A h \in 1 .. n : t \notin left[h]) => t \in S
    BY <1>1, <1>6, <2>2
  <2>4. \A i \in 1 .. n : i \in S => left[i] \subseteq S
    BY <1>1
  <2>5. PICK R : R = 1 .. n
    OBVIOUS
  <2>6. /\ R \in SUBSET (1 .. n) /\ \A i \in R : \A j \in left[i] : j < i
        /\ \A i \in R : i \in S => left[i] \subseteq S
        /\ \A t \in R : (\A i \in R : t \notin left[i]) => t \in S
    BY <1>0, <2>3, <2>4, <2>5
  <2>7. R \subseteq S
    BY <2>6, TailsReachAll
  <2> QED
    BY <2>5, <2>7
<1> HIDE DEF F, T
<1> QED
  BY <1>4, <1>5, <1>6 DEF KeepsOrder

\* What WellFormed says of the parts of an expression.
LEMMA ExpressionParts ==
    ASSUME NEW s, WellFormed(s)
    PROVE  \E n \in Nat, c \in Nat :
              /\ n = Len(s.pred) /\ n > 0 /\ s.pred \in [1 .. n -> SUBSET (1 .. n)]
              /\ \A i \in 1 .. n : \A j \in s.pred[i] : j < i
              /\ c = s.count /\ c > 0 /\ s.lanes \in [1 .. n -> 0 .. c - 1]
              /\ s.before \in SUBSET ((1 .. n) \X (1 .. n)) /\ ordersBefore(s.pred, s.before)
              /\ s.own = <<>> \/ s.own \in [1 .. n -> MaxQueues .. MaxQueues + Borrowed - 1]
<1>1. PICK n, c : n = Len(s.pred) /\ c = s.count
  OBVIOUS
<1>2. /\ n > 0 /\ s.pred \in Seq(SUBSET (1 .. n)) /\ \A i \in 1 .. n : \A j \in s.pred[i] : j < i
      /\ c \in Nat \ {0} /\ s.lanes \in [1 .. n -> 0 .. c - 1]
      /\ s.own = <<>> \/ s.own \in [1 .. n -> MaxQueues .. MaxQueues + Borrowed - 1]
      /\ s.before \subseteq (1 .. n) \X (1 .. n) /\ ordersBefore(s.pred, s.before)
  BY <1>1, Zenon DEF WellFormed
<1>3. n \in Nat /\ s.pred \in [1 .. n -> SUBSET (1 .. n)] /\ c \in Nat /\ c > 0
  <2>1. PICK P : P = SUBSET (1 .. n)
    OBVIOUS
  <2>2. n \in Nat /\ s.pred \in [1 .. n -> P]
    BY <1>1, <1>2, <2>1
  <2> QED
    BY <1>2, <2>1, <2>2
<1> QED
  BY <1>1, <1>2, <1>3

\* sequence and whenAll of expressions over the same kind of queues are expressions.
THEOREM ComposedWellFormed ==
    ASSUME NEW ordered \in BOOLEAN, NEW left, NEW right, WellFormed(left), WellFormed(right),
           explicit(left) <=> explicit(right)
    PROVE  WellFormed(compose(ordered, left, right))
<1>1. PICK s : s = compose(ordered, left, right)
  OBVIOUS
<1>2. PICK n \in Nat, lc \in Nat :
         /\ n = Len(left.pred) /\ n > 0 /\ left.pred \in [1 .. n -> SUBSET (1 .. n)]
         /\ \A i \in 1 .. n : \A j \in left.pred[i] : j < i
         /\ lc = left.count /\ lc > 0 /\ left.lanes \in [1 .. n -> 0 .. lc - 1]
         /\ left.before \in SUBSET ((1 .. n) \X (1 .. n)) /\ ordersBefore(left.pred, left.before)
         /\ left.own = <<>> \/ left.own \in [1 .. n -> MaxQueues .. MaxQueues + Borrowed - 1]
  BY ExpressionParts
<1>3. PICK m \in Nat, rc \in Nat :
         /\ m = Len(right.pred) /\ m > 0 /\ right.pred \in [1 .. m -> SUBSET (1 .. m)]
         /\ \A i \in 1 .. m : \A j \in right.pred[i] : j < i
         /\ rc = right.count /\ rc > 0 /\ right.lanes \in [1 .. m -> 0 .. rc - 1]
         /\ right.before \in SUBSET ((1 .. m) \X (1 .. m)) /\ ordersBefore(right.pred, right.before)
         /\ right.own = <<>> \/ right.own \in [1 .. m -> MaxQueues .. MaxQueues + Borrowed - 1]
  BY ExpressionParts
<1>4. PICK lane, both, shifted : /\ lane = [i \in 1 .. m |-> right.lanes[i] + (IF ordered THEN 0 ELSE lc)]
                                 /\ both = composeDependencies(ordered, left.pred, right.pred)
                                 /\ shifted = {<<n + e[1], n + e[2]>> : e \in right.before}
  OBVIOUS
<1>5. /\ s.pred = both /\ s.lanes = left.lanes \o lane
      /\ s.count = (IF ~ordered THEN lc + rc ELSE IF lc < rc THEN rc ELSE lc)
      /\ s.own = left.own \o right.own
      /\ s.before = left.before \cup shifted \cup (IF ordered THEN (1 .. n) \X (n + 1 .. n + m) ELSE {})
  BY <1>1, <1>2, <1>3, <1>4 DEF compose, composeQueues
<1>6. /\ both \in Seq(SUBSET (1 .. n + m)) /\ Len(both) = n + m
      /\ \A i \in 1 .. n : both[i] = left.pred[i]
      /\ \A i \in 1 .. m : \A k \in both[n + i] : (\E j \in right.pred[i] : k = n + j) \/ k \in 1 .. n
  <2>1. PICK lp, rp : lp = left.pred /\ rp = right.pred
    OBVIOUS
  <2>2. Dependencies(lp, n) /\ Dependencies(rp, m)
    BY <1>2, <1>3, <2>1 DEF Dependencies
  <2>3. both = composeDependencies(ordered, lp, rp)
    BY <1>4, <2>1, Zenon
  <2>4. Composed(ordered, lp, rp, n, m, both)
    BY <2>2, <2>3, ComposedDependencies
  <2> QED
    BY <2>1, <2>4, Zenon DEF Composed
<1>7. ASSUME NEW i \in 1 .. n + m, NEW j \in both[i]
      PROVE  j < i
  <2>1. CASE i \in 1 .. n
    BY <1>2, <1>6, <2>1
  <2>2. CASE i \notin 1 .. n
    <3>1. PICK k \in 1 .. m : i = n + k
      <4>1. i - n \in 1 .. m /\ i = n + (i - n)
        BY <2>2
      <4> QED
        BY <4>1
    <3>2. CASE \E h \in right.pred[k] : j = n + h
      <4>1. PICK h \in right.pred[k] : j = n + h
        BY <3>2
      <4>2. h < k /\ h \in 1 .. m
        BY <1>3, <4>1
      <4> QED
        BY <1>2, <1>3, <3>1, <4>1, <4>2
    <3>3. CASE j \in 1 .. n
      BY <1>2, <1>3, <3>1, <3>3
    <3> QED
      BY <1>6, <1>7, <3>1, <3>2, <3>3
  <2> QED
    BY <2>1, <2>2
<1>8. s.count \in Nat \ {0} /\ s.lanes \in [1 .. n + m -> 0 .. s.count - 1]
  <2>1. PICK c \in Nat, base \in Nat : c = s.count /\ base = IF ordered THEN 0 ELSE lc
    BY <1>2, <1>3, <1>5
  <2>a. c > 0 /\ lc <= c /\ rc + base <= c
    BY <1>2, <1>3, <1>5, <2>1
  <2>2. PICK P : P = 0 .. c - 1
    OBVIOUS
  <2>3. left.lanes \in Seq(P) /\ Len(left.lanes) = n
    <3>1. \A i \in 1 .. n : left.lanes[i] \in P
      <4>1. \A i \in 1 .. n : left.lanes[i] \in 0 .. lc - 1
        BY <1>2
      <4>2. \A l \in 0 .. lc - 1 : l \in 0 .. c - 1
        BY <2>a
      <4> QED
        BY <2>2, <4>1, <4>2
    <3>2. left.lanes \in [1 .. n -> P]
      BY <1>2, <3>1
    <3> QED
      BY <3>2
  <2>4. lane \in Seq(P) /\ Len(lane) = m
    <3>1. \A i \in 1 .. m : right.lanes[i] + base \in P
      <4>1. \A i \in 1 .. m : right.lanes[i] \in 0 .. rc - 1
        BY <1>3
      <4>2. \A l \in 0 .. rc - 1 : l + base \in 0 .. c - 1
        BY <2>a
      <4> QED
        BY <2>2, <4>1, <4>2
    <3>2. lane = [i \in 1 .. m |-> right.lanes[i] + base]
      BY <1>4, <2>1
    <3>3. lane \in [1 .. m -> P]
      BY <3>1, <3>2
    <3> QED
      BY <3>3
  <2>5. left.lanes \o lane \in Seq(P) /\ Len(left.lanes \o lane) = n + m
    BY <2>3, <2>4, ConcatProperties
  <2>6. PICK f : f = left.lanes \o lane
    OBVIOUS
  <2>7. f \in Seq(P) /\ Len(f) = n + m
    BY <2>5, <2>6
  <2>8. f \in [1 .. n + m -> P]
    BY <2>7
  <2> QED
    BY <1>5, <2>1, <2>a, <2>2, <2>6, <2>8
<1>9. s.own = <<>> \/ s.own \in [1 .. n + m -> MaxQueues .. MaxQueues + Borrowed - 1]
  <2>1. PICK P : P = MaxQueues .. MaxQueues + Borrowed - 1
    OBVIOUS
  <2>2. CASE ~explicit(left)
    <3>1. left.own = <<>> /\ right.own = <<>>
      BY <2>2 DEF explicit
    <3>2. left.own \o right.own = <<>>
      BY <3>1
    <3> QED
      BY <1>5, <3>2
  <2>3. CASE explicit(left)
    <3>1. left.own \in [1 .. n -> P] /\ right.own \in [1 .. m -> P]
      BY <1>2, <1>3, <2>1, <2>3 DEF explicit
    <3>2. left.own \in Seq(P) /\ Len(left.own) = n /\ right.own \in Seq(P) /\ Len(right.own) = m
      BY <3>1
    <3>3. left.own \o right.own \in Seq(P) /\ Len(left.own \o right.own) = n + m
      BY <3>2, ConcatProperties
    <3>4. PICK f : f = left.own \o right.own
      OBVIOUS
    <3>5. f \in Seq(P) /\ Len(f) = n + m
      BY <3>3, <3>4
    <3>6. f \in [1 .. n + m -> P]
      BY <3>5
    <3> QED
      BY <1>5, <2>1, <3>4, <3>6
  <2> QED
    BY <2>2, <2>3
<1>10. s.before \subseteq (1 .. n + m) \X (1 .. n + m)
  <2>1. left.before \subseteq (1 .. n + m) \X (1 .. n + m)
    <3> SUFFICES ASSUME NEW e \in left.before
                 PROVE  e \in (1 .. n + m) \X (1 .. n + m)
      OBVIOUS
    <3>1. e \in (1 .. n) \X (1 .. n) /\ e = <<e[1], e[2]>> /\ e[1] \in 1 .. n /\ e[2] \in 1 .. n
      BY <1>2
    <3>2. \A x \in 1 .. n : x \in 1 .. n + m
      OBVIOUS
    <3> QED
      BY <3>1, <3>2
  <2>2. shifted \subseteq (1 .. n + m) \X (1 .. n + m)
    <3> SUFFICES ASSUME NEW e \in right.before
                 PROVE  <<n + e[1], n + e[2]>> \in (1 .. n + m) \X (1 .. n + m)
      BY <1>4
    <3>1. e[1] \in 1 .. m /\ e[2] \in 1 .. m
      BY <1>3
    <3>2. \A x \in 1 .. m : n + x \in 1 .. n + m
      OBVIOUS
    <3> QED
      BY <3>1, <3>2
  <2>3. (1 .. n) \X (n + 1 .. n + m) \subseteq (1 .. n + m) \X (1 .. n + m)
    <3>1. 1 .. n \subseteq 1 .. n + m /\ n + 1 .. n + m \subseteq 1 .. n + m
      OBVIOUS
    <3> QED
      BY <3>1
  <2> QED
    BY <1>5, <2>1, <2>2, <2>3
<1>11. ordersBefore(both, s.before)
  <2> SUFFICES ASSUME NEW S \in SUBSET (1 .. n + m), \A i \in S : both[i] \subseteq S,
                      NEW e \in s.before, e[2] \in S
               PROVE  e[1] \in S
    <3>1. DOMAIN both = 1 .. n + m
      BY <1>6
    <3> QED
      BY <3>1 DEF ordersBefore
  <2>1. /\ \A d \in left.before : d[2] \in S => d[1] \in S
        /\ \A d \in right.before : n + d[2] \in S => n + d[1] \in S
        /\ ordered => \A i \in 1 .. n, k \in 1 .. m : n + k \in S => i \in S
    <3>1. PICK lp, rp, first, second :
             lp = left.pred /\ rp = right.pred /\ first = left.before /\ second = right.before
      OBVIOUS
    <3>2. Dependencies(lp, n) /\ Dependencies(rp, m) /\ Orders(lp, n, first) /\ Orders(rp, m, second)
      BY <1>2, <1>3, <3>1 DEF Dependencies, Orders
    <3>3. both = composeDependencies(ordered, lp, rp)
      BY <1>4, <3>1, Zenon
    <3>4. KeepsOrder(ordered, n, m, first, second, S)
      BY <3>2, <3>3, ComposedOrder
    <3> QED
      BY <3>1, <3>4, Zenon DEF KeepsOrder
  <2>2. CASE e \in left.before
    BY <2>1, <2>2
  <2>3. CASE e \in shifted
    <3>1. PICK d \in right.before : e = <<n + d[1], n + d[2]>>
      BY <1>4, <2>3
    <3> QED
      BY <2>1, <3>1
  <2>4. CASE ordered /\ e \in (1 .. n) \X (n + 1 .. n + m)
    <3>1. e[1] \in 1 .. n /\ e[2] \in n + 1 .. n + m
      BY <2>4
    <3>2. \A x \in n + 1 .. n + m : \E k \in 1 .. m : x = n + k
      <4> TAKE x \in n + 1 .. n + m
      <4>1. x - n \in 1 .. m /\ x = n + (x - n)
        OBVIOUS
      <4> QED
        BY <4>1
    <3>3. PICK k \in 1 .. m : e[2] = n + k
      BY <3>1, <3>2
    <3> QED
      BY <2>1, <2>4, <3>1, <3>3
  <2> QED
    BY <1>5, <2>2, <2>3, <2>4
<1>12. n + m \in Nat /\ n + m > 0
  <2>1. n > 0 /\ m > 0
    BY <1>2, <1>3, Zenon
  <2> QED
    BY <2>1
<1>13. WellFormed(s)
  BY <1>5, <1>6, <1>7, <1>8, <1>9, <1>10, <1>11, <1>12 DEF WellFormed
<1> QED
  BY <1>1, <1>13

\* addGraphDependencies of a graph whose edges lead to later nodes: the stages stay behind
\* their predecessors, and these imply that every stage of a node is over before any stage of
\* a node behind it, although only roots wait and only for tails.
THEOREM GraphDependencies ==
    ASSUME NEW n \in Nat, NEW pred, Dependencies(pred, n), NEW before, Orders(pred, n, before),
           NEW Nodes, NEW range \in [Nodes -> SUBSET (1 .. n)], NEW edges \in SUBSET (Nodes \X Nodes),
           \A e \in edges : \A t \in range[e[1]], i \in range[e[2]] : t < i,
           NEW lowered, lowered = addGraphDependencies(pred, range, edges)
    PROVE  /\ Dependencies(lowered, n)
           /\ Orders(lowered, n, before \cup UNION {range[e[1]] \X range[e[2]] : e \in edges})
<1> DEFINE isRoot(i, b) == i \in range[b] /\ pred[i] \cap range[b] = {}
           isTail(t, a) == t \in range[a] /\ \A i \in range[a] : t \notin pred[i]
           added(i) == {t \in 1 .. n : \E e \in edges : isRoot(i, e[2]) /\ isTail(t, e[1])}
<1>1. /\ pred \in [1 .. n -> SUBSET (1 .. n)] /\ \A i \in 1 .. n : \A j \in pred[i] : j < i
      /\ before \in SUBSET ((1 .. n) \X (1 .. n)) /\ ordersBefore(pred, before)
  BY DEF Dependencies, Orders
<1>2. \A e \in edges : e[1] \in Nodes /\ e[2] \in Nodes /\ range[e[1]] \subseteq 1 .. n /\ range[e[2]] \subseteq 1 .. n
  OBVIOUS
<1>3. lowered = [i \in 1 .. n |-> pred[i] \cup added(i)]
  <2>1. DOMAIN pred = 1 .. n
    BY <1>1
  <2> QED
    BY <2>1 DEF addGraphDependencies
<1>4. ASSUME NEW i \in 1 .. n, NEW t \in added(i)
      PROVE  t \in 1 .. n /\ t < i
  <2>1. PICK e \in edges : isRoot(i, e[2]) /\ isTail(t, e[1])
    BY <1>4
  <2>2. i \in range[e[2]] /\ t \in range[e[1]] /\ t \in 1 .. n
    BY <1>4, <2>1
  <2> QED
    BY <2>2
<1>5. \A i \in 1 .. n : lowered[i] = pred[i] \cup added(i)
  <2> HIDE DEF added
  <2> QED
    BY <1>3
<1>6. Dependencies(lowered, n)
  <2> HIDE DEF added
  <2>1. \A i \in 1 .. n : pred[i] \cup added(i) \in SUBSET (1 .. n)
    BY <1>1, <1>4
  <2>2. lowered \in [1 .. n -> SUBSET (1 .. n)]
    BY <1>3, <2>1
  <2>3. \A i \in 1 .. n : \A j \in lowered[i] : j < i
    BY <1>1, <1>4, <1>5
  <2> QED
    BY <2>2, <2>3 DEF Dependencies
<1>7. ASSUME NEW S \in SUBSET (1 .. n), \A i \in S : lowered[i] \subseteq S
      PROVE  /\ \A e \in before : e[2] \in S => e[1] \in S
             /\ \A e \in edges : \A t \in range[e[1]], i \in range[e[2]] : i \in S => t \in S
  <2>1. \A i \in S : pred[i] \subseteq S /\ added(i) \subseteq S
    <3> HIDE DEF added
    <3> QED
      BY <1>5, <1>7
  <2>2. \A e \in before : e[2] \in S => e[1] \in S
    <3>1. S \in SUBSET (DOMAIN pred)
      BY <1>1
    <3> QED
      BY <1>1, <2>1, <3>1 DEF ordersBefore
  <2>3. ASSUME NEW e \in edges, NEW t \in range[e[1]], NEW k \in range[e[2]], k \in S
        PROVE  t \in S
    <3>1. PICK A, B : A = range[e[1]] /\ B = range[e[2]]
      OBVIOUS
    <3>2. A \in SUBSET (1 .. n) /\ B \in SUBSET (1 .. n) /\ B \in SUBSET Nat
      BY <1>2, <3>1
    <3>3. PICK r \in B : r \in S /\ pred[r] \cap B = {}
      <4>1. k \in B /\ k \in S
        BY <2>3, <3>1
      <4>2. /\ \A i \in B : \A j \in pred[i] : j < i
            /\ \A i \in B : i \in S => pred[i] \subseteq S
        BY <1>1, <2>1, <3>2
      <4> QED
        BY <3>2, <4>1, <4>2, FirstIsRoot
    <3>4. ASSUME NEW u \in A, \A i \in A : u \notin pred[i]
          PROVE  u \in S
      <4>1. isRoot(r, e[2]) /\ isTail(u, e[1])
        BY <3>1, <3>3, <3>4
      <4>2. u \in added(r)
        <5>1. u \in 1 .. n
          BY <3>2, <3>4
        <5> HIDE DEF isRoot, isTail
        <5> QED
          BY <4>1, <5>1
      <4> HIDE DEF added
      <4> QED
        BY <2>1, <3>3, <4>2
    <3>5. /\ \A i \in A : \A j \in pred[i] : j < i
          /\ \A i \in A : i \in S => pred[i] \subseteq S
          /\ \A u \in A : (\A i \in A : u \notin pred[i]) => u \in S
      BY <1>1, <2>1, <3>2, <3>4
    <3>6. A \subseteq S
      <4>1. A \in SUBSET (1 .. n)
        BY <3>2
      <4> QED
        BY <3>5, <4>1, TailsReachAll
    <3> QED
      BY <3>1, <3>6
  <2> QED
    BY <2>2, <2>3
<1> HIDE DEF added
<1>8. PICK crossing : crossing = UNION {range[e[1]] \X range[e[2]] : e \in edges}
  OBVIOUS
<1>9. \A d \in crossing : \E e \in edges : d \in range[e[1]] \X range[e[2]]
  BY <1>8
<1>10. crossing \subseteq (1 .. n) \X (1 .. n)
  <2> SUFFICES ASSUME NEW d \in crossing
               PROVE  d \in (1 .. n) \X (1 .. n)
    OBVIOUS
  <2>1. PICK e \in edges : d \in range[e[1]] \X range[e[2]]
    BY <1>9
  <2>2. range[e[1]] \subseteq 1 .. n /\ range[e[2]] \subseteq 1 .. n
    BY <1>2
  <2> QED
    BY <2>1, <2>2
<1>11. ordersBefore(lowered, before \cup crossing)
  <2>1. DOMAIN lowered = 1 .. n
    BY <1>3
  <2>2. SUFFICES ASSUME NEW S \in SUBSET (1 .. n), \A i \in S : lowered[i] \subseteq S,
                        NEW d \in before \cup crossing, d[2] \in S
                 PROVE  d[1] \in S
    BY <2>1 DEF ordersBefore
  <2>3. CASE d \in before
    BY <1>7, <2>2, <2>3
  <2>4. CASE d \in crossing
    <3>1. PICK e \in edges : d \in range[e[1]] \X range[e[2]]
      BY <1>9, <2>4
    <3>2. d[1] \in range[e[1]] /\ d[2] \in range[e[2]]
      BY <3>1
    <3>3. \A t \in range[e[1]], i \in range[e[2]] : i \in S => t \in S
      BY <1>7, <2>2
    <3> QED
      BY <2>2, <3>2, <3>3
  <2> QED
    BY <2>3, <2>4
<1> QED
  BY <1>1, <1>6, <1>8, <1>10, <1>11 DEF Orders
=============================================================================
