------------------------- MODULE MpiContext_proofs -------------------------
(***************************************************************************)
(* Proofs about MpiContext, for every set of operations, communicators and *)
(* requests.                                                               *)
(***************************************************************************)
EXTENDS MpiContext, FiniteSetTheorems, FunctionTheorems, SequenceTheorems, TLAPS

(* The application runs as long as submissions are accepted, and the owner *)
(* leaves its loop with nothing outstanding.                               *)
PhaseInv ==
    /\ accepting <=> main = "app"
    /\ stopping <=> main # "app"
    /\ owner \in {"release", "gone"} => stopping /\ outstanding = 0

(* The operation the owner thread is working on.                           *)
CurInv ==
    /\ owner \in {"start", "deliver"} => cur \in Ops /\ place[cur] = "flight" /\ remaining[cur] = 0
    /\ owner = "finish" => cur \in Ops /\ place[cur] = "completed"
    /\ owner = "collective" => cur \in Managed /\ place[cur] = "popped"

(* m_outstanding is exact.                                                 *)
CountInv == outstanding = Cardinality(Owned)

(* m_queue holds each submitted operation once.                            *)
QueueInv ==
    /\ \A i \in 1 .. Len(queue) : place[queue[i]] = "queued"
    /\ \A i, j \in 1 .. Len(queue) : queue[i] = queue[j] => i = j

(* progressRequests is between MPI_Testsome and the compaction.            *)
Retiring == owner = "retire" \/ (owner \in {"deliver", "finish"} /\ back = "retire")

Living(o) == {i \in DOMAIN requests : requests[i] # None /\ active[i].group = o}
Reported(o) == {n \in DOMAIN pending : active[pending[n]].group = o}

(* Both vectors are parallel, hold null requests only while the reported   *)
(* indices are being retired, and account for every request of a group.    *)
TableInv ==
    /\ Len(requests) = Len(active)
    /\ \A i \in 1 .. Len(requests) :
          requests[i] # None => requests[i] = <<active[i].group, active[i].index>>
    /\ ~Retiring => pending = <<>> /\ \A i \in 1 .. Len(requests) : requests[i] # None
    /\ \A n \in 1 .. Len(pending) : pending[n] \in 1 .. Len(active)

GroupInv ==
    \A o \in Ops : /\ remaining[o] = Cardinality(Living(o)) + Cardinality(Reported(o))
                   /\ remaining[o] # 0 => place[o] = "flight"

(* A lane holds the operations whose tickets have not been retired, in the *)
(* order of the tickets; the tickets below have been.                      *)
LaneInv ==
    /\ \A c \in Comms : \A i \in 1 .. Len(entries[c]) :
          LET e == entries[c][i] IN
          /\ CommOf[e.op] = c /\ place[e.op] = "lane" /\ ticket[e.op] = first[c] + i - 1
          /\ e.start = IF e.state = "committed" THEN e.op ELSE None
    /\ \A k \in Managed :
          /\ place[k] = "lane" => \E i \in 1 .. Len(entries[CommOf[k]]) : entries[CommOf[k]][i].op = k
          /\ place[k] \notin {"new", "lane"} => ticket[k] < first[CommOf[k]]
          /\ token[k] = "none" <=> place[k] = "new"
    /\ \A o \in Ops : place[o] \in {"lane", "dropped", "popped"} => o \in Managed

(* While submissions are accepted a token that can still be committed has  *)
(* its entry reserved.                                                     *)
TokenInv ==
    accepting => \A k \in Managed : token[k] \in {"sender", "running"} =>
        \E i \in 1 .. Len(entries[CommOf[k]]) :
            entries[CommOf[k]][i].op = k /\ entries[CommOf[k]][i].state = "reserved"

(* An application that joins its collectives leaves none behind.           *)
DrainedInv ==
    Drained =>
        /\ ~terminated
        /\ ~accepting =>
              /\ \A k \in Managed : token[k] # "running" /\ place[k] # "popped"
              /\ \A c \in Comms : \A i \in 1 .. Len(entries[c]) : entries[c][i].state # "committed"

(* a is initiated before b where their order matters.                      *)
Before(a, b) ==
    a \in Managed /\ b \in Managed /\ CommOf[a] = CommOf[b] => ticket[a] < ticket[b]

(* From the lane to MPI the collectives of a communicator pass through     *)
(* popReady, the queue and the start in the order of their tickets.        *)
OrderInv ==
    /\ \A i \in 1 .. Len(initiated) : place[initiated[i]] \in {"flight", "completed", "retired"}
    /\ \A i, j \in 1 .. Len(initiated) : i < j => Before(initiated[i], initiated[j])
    /\ \A i \in 1 .. Len(initiated), j \in 1 .. Len(queue) : Before(initiated[i], queue[j])
    /\ \A i, j \in 1 .. Len(queue) : i < j => Before(queue[i], queue[j])
    /\ owner = "start" =>
          /\ \A i \in 1 .. Len(initiated) : Before(initiated[i], cur)
          /\ \A j \in 1 .. Len(queue) : Before(cur, queue[j])
    /\ owner = "collective" =>
          /\ \A i \in 1 .. Len(initiated) : Before(initiated[i], cur)
          /\ \A j \in 1 .. Len(queue) : Before(queue[j], cur)

(* progress() leaves the operations, the lanes and the table alone, and    *)
(* neither enters nor leaves the work on one of them.                      *)
Busy == {"start", "deliver", "finish", "collective", "retire"}

Quiet ==
    /\ UNCHANGED <<queue, outstanding, accepting, stopping, first, entries, ticket, token, requests,
                   active, remaining, place, initiated, cur, back, pending, terminated>>
    /\ main' = main \/ (main # "app" /\ main' # "app")
    /\ owner' = owner \/ (owner \notin Busy /\ owner' \notin Busy)
    /\ owner' \in {"release", "gone"} => stopping /\ outstanding = 0

(* f lists the members of S, each once, and the positions where it lists   *)
(* those of P.                                                             *)
Enumerates(f, m, S) ==
    /\ f \in [1 .. m -> S]
    /\ \A k, l \in 1 .. m : f[k] = f[l] => k = l
    /\ \A i \in S : \E k \in 1 .. m : f[k] = i

Positions(f, m, P) == {k \in 1 .. m : f[k] \in P}

IInv == /\ TypeOK /\ PhaseInv /\ CurInv /\ CountInv /\ QueueInv /\ TableInv /\ GroupInv
        /\ LaneInv /\ TokenInv /\ DrainedInv /\ OrderInv

-----------------------------------------------------------------------------
(* Counting.                                                               *)

(* The positions up to n in increasing order: the rank of a member is      *)
(* between one and their number, and no two have the same.                 *)
LEMMA AscendingEnumerates ==
  ASSUME NEW n \in Nat, NEW S \in SUBSET (1 .. n)
  PROVE  Cardinality(S) \in Nat /\ Enumerates(ascending(S), Cardinality(S), S)
  <1> DEFINE upTo(i) == {j \in S : j <= i}
             rank == [i \in S |-> Cardinality(upTo(i))]
             N == Cardinality(S)
  <1>1. IsFiniteSet(S) /\ N \in Nat
    <2>1. IsFiniteSet(1 .. n)
      BY FS_Interval
    <2>2. IsFiniteSet(S)
      BY <2>1, FS_Subset
    <2> QED
      BY <2>2, FS_CardinalityType
  <1>2. ASSUME NEW i \in S
        PROVE  IsFiniteSet(upTo(i)) /\ Cardinality(upTo(i)) \in 1 .. N
    <2>1. upTo(i) \in SUBSET S /\ i \in upTo(i)
      OBVIOUS
    <2>2. IsFiniteSet(upTo(i)) /\ Cardinality(upTo(i)) <= N /\ Cardinality(upTo(i)) \in Nat
      BY <1>1, <2>1, FS_Subset, FS_CardinalityType
    <2>3. Cardinality(upTo(i)) # 0
      BY <2>1, <2>2, FS_EmptySet
    <2> QED
      BY <1>1, <2>2, <2>3
  <1>3. ASSUME NEW i \in S, NEW j \in S, i < j
        PROVE  Cardinality(upTo(i)) < Cardinality(upTo(j))
    <2>1. upTo(i) \cup {j} \in SUBSET upTo(j) /\ j \notin upTo(i)
      <3>1. S \subseteq Int
        OBVIOUS
      <3>2. (\A k \in S : k <= i => k <= j) /\ ~(j <= i) /\ j <= j
        BY <1>3, <3>1
      <3> QED
        BY <3>2
    <2>2. Cardinality(upTo(i) \cup {j}) = Cardinality(upTo(i)) + 1
      BY <1>2, <2>1, FS_AddElement
    <2>3. Cardinality(upTo(i) \cup {j}) <= Cardinality(upTo(j))
      BY <1>2, <2>1, FS_Subset
    <2> QED
      BY <1>2, <2>2, <2>3
  <1>4. rank \in [S -> 1 .. N] /\ \A i, j \in S : rank[i] = rank[j] => i = j
    <2>1. rank \in [S -> 1 .. N]
      BY <1>2
    <2>2. ASSUME NEW i \in S, NEW j \in S, rank[i] = rank[j]
          PROVE  i = j
      <3>1. Cardinality(upTo(i)) = Cardinality(upTo(j))
        BY <2>2
      <3>2. Cardinality(upTo(i)) \in Int /\ Cardinality(upTo(j)) \in Int
        BY <1>2
      <3>3. ~(i < j) /\ ~(j < i)
        BY <1>3, <3>1, <3>2
      <3> QED
        BY <3>3
    <2> QED
      BY <2>1, <2>2
  <1>5. rank \in Surjection(S, 1 .. N)
    <2>1. IsFiniteSet(1 .. N) /\ Cardinality(1 .. N) = N
      BY <1>1, FS_Interval
    <2>2. rank \in Injection(S, 1 .. N)
      BY <1>4, Fun_IsInj
    <2> QED
      BY <2>1, <2>2, FS_Injection
  <1>6. \A k \in 1 .. N : \E i \in S : rank[i] = k
    BY <1>5 DEF Surjection
  <1>7. \A k \in 1 .. N : ascending(S)[k] \in S /\ rank[ascending(S)[k]] = k
    BY <1>6 DEF ascending
  <1>8. ascending(S) \in [1 .. N -> S]
    BY <1>7 DEF ascending
  <1>9. \A i \in S : ascending(S)[rank[i]] = i
    BY <1>4, <1>7
  <1>10. \A i \in S : rank[i] \in 1 .. N
    BY <1>4
  <1> HIDE DEF rank, N
  <1>11. /\ \A k, l \in 1 .. N : ascending(S)[k] = ascending(S)[l] => k = l
         /\ \A i \in S : \E k \in 1 .. N : ascending(S)[k] = i
    BY <1>7, <1>9, <1>10
  <1> QED
    BY <1>1, <1>8, <1>11 DEF N, Enumerates

(* An enumeration has as many positions in a part of its range as the part *)
(* has members.                                                            *)
LEMMA EnumerationCounts ==
  ASSUME NEW m \in Nat, NEW S, NEW f, Enumerates(f, m, S), NEW P \in SUBSET S
  PROVE  IsFiniteSet(Positions(f, m, P)) /\ Cardinality(Positions(f, m, P)) = Cardinality(P)
  <1> DEFINE D == Positions(f, m, P)
             g == [k \in D |-> f[k]]
  <1>1. IsFiniteSet(D)
    <2>1. IsFiniteSet(1 .. m) /\ D \in SUBSET (1 .. m)
      BY FS_Interval DEF Positions
    <2> QED
      BY <2>1, FS_Subset
  <1>2. g \in Bijection(D, P)
    <2>1. g \in [D -> P] /\ \A k, l \in D : g[k] = g[l] => k = l
      BY DEF Enumerates, Positions
    <2>2. \A i \in P : \E k \in D : g[k] = i
      BY DEF Enumerates, Positions
    <2> QED
      BY <2>1, <2>2, Fun_IsBij
  <1> QED
    BY <1>1, <1>2, FS_Bijection, Fun_ExistsBij

(* Taking the head off a sequence of positions takes one off the count.    *)
LEMMA TailCounts ==
  ASSUME NEW p \in Seq(Nat), p # <<>>, NEW P
  PROVE  /\ Tail(p) \in Seq(Nat) /\ Head(p) \in Nat /\ Head(p) = p[1]
         /\ \A i \in 1 .. Len(Tail(p)) : Tail(p)[i] = p[i + 1] /\ i + 1 \in 1 .. Len(p)
         /\ Cardinality({i \in DOMAIN p : p[i] \in P})
               = Cardinality({i \in DOMAIN Tail(p) : Tail(p)[i] \in P})
                 + (IF Head(p) \in P THEN 1 ELSE 0)
  <1> DEFINE A == {i \in 1 .. Len(p) : p[i] \in P}
             B == {i \in 1 .. Len(p) - 1 : p[i + 1] \in P}
             C == {i \in 2 .. Len(p) : p[i] \in P}
             g == [i \in B |-> i + 1]
  <1>1. /\ Len(p) \in Nat \ {0} /\ Tail(p) \in Seq(Nat) /\ Head(p) = p[1] /\ Head(p) \in Nat
        /\ Len(Tail(p)) = Len(p) - 1 /\ \A i \in 1 .. Len(p) - 1 : Tail(p)[i] = p[i + 1]
    OBVIOUS
  <1>2. /\ {i \in DOMAIN p : p[i] \in P} = A
        /\ {i \in DOMAIN Tail(p) : Tail(p)[i] \in P} = B
    BY <1>1
  <1>3. IsFiniteSet(B) /\ IsFiniteSet(C) /\ IsFiniteSet(A)
    <2>1. B \in SUBSET (1 .. Len(p)) /\ C \in SUBSET (1 .. Len(p)) /\ A \in SUBSET (1 .. Len(p))
      BY <1>1
    <2>2. IsFiniteSet(1 .. Len(p))
      BY <1>1, FS_Interval
    <2> HIDE DEF A, B, C
    <2> QED
      BY <2>1, <2>2, FS_Subset
  <1>4. g \in Bijection(B, C)
    <2>1. g \in [B -> C] /\ \A i, j \in B : g[i] = g[j] => i = j
      BY <1>1
    <2>2. \A j \in C : \E i \in B : g[i] = j
      <3>1. \A j \in C : j - 1 \in B /\ g[j - 1] = j
        BY <1>1
      <3> QED
        BY <3>1
    <2> QED
      BY <2>1, <2>2, Fun_IsBij
  <1>5. Cardinality(C) = Cardinality(B) /\ Cardinality(B) \in Nat
    BY <1>3, <1>4, FS_Bijection, Fun_ExistsBij, FS_CardinalityType
  <1>6. ASSUME Head(p) \in P PROVE Cardinality(A) = Cardinality(B) + 1
    <2>1. A = C \cup {1} /\ 1 \notin C
      BY <1>1, <1>6
    <2> HIDE DEF A, B, C
    <2> QED
      BY <1>3, <1>5, <2>1, FS_AddElement
  <1>7. ASSUME Head(p) \notin P PROVE Cardinality(A) = Cardinality(B)
    <2>1. A = C
      BY <1>1, <1>7
    <2> QED
      BY <1>5, <2>1
  <1>8. Cardinality(A) = Cardinality(B) + (IF Head(p) \in P THEN 1 ELSE 0)
    <2> HIDE DEF A, B
    <2> QED
      BY <1>5, <1>6, <1>7
  <1>9. \A i \in 1 .. Len(Tail(p)) : Tail(p)[i] = p[i + 1] /\ i + 1 \in 1 .. Len(p)
    BY <1>1
  <1> HIDE DEF A, B
  <1> QED
    BY <1>1, <1>2, <1>8, <1>9

(* Intervals from one are equal when their bounds are.                     *)
LEMMA IntervalsEqual ==
  ASSUME NEW a \in Nat, NEW b \in Nat, 1 .. a = 1 .. b
  PROVE  a = b
  <1>1. \A i \in Int : i \in 1 .. a <=> i \in 1 .. b
    OBVIOUS
  <1>2. ~(a < b)
    <2>1. ASSUME a < b PROVE b \in 1 .. b /\ b \notin 1 .. a
      BY <2>1
    <2> QED
      BY <2>1
  <1>3. ~(b < a)
    <2>1. ASSUME b < a PROVE a \in 1 .. a /\ a \notin 1 .. b
      BY <2>1
    <2> QED
      BY <2>1
  <1> QED
    BY <1>2, <1>3

(* A function on an interval from one is a sequence.                       *)
LEMMA FunctionIsSeq ==
  ASSUME NEW S, NEW m \in Nat, NEW f \in [1 .. m -> S]
  PROVE  f \in Seq(S) /\ Len(f) = m /\ DOMAIN f = 1 .. m
  <1>1. f \in Seq(S) /\ DOMAIN f = 1 .. m
    BY SeqDef
  <1>2. Len(f) \in Nat /\ DOMAIN f = 1 .. Len(f)
    BY <1>1, LenProperties
  <1> QED
    BY <1>1, <1>2

-----------------------------------------------------------------------------
(* The operations that count are finitely many.                            *)
LEMMA OwnedFinite == IsFiniteSet(Owned)
  <1>1. Owned \in SUBSET Ops
    BY DEF Owned
  <1> QED
    BY <1>1, FS_Subset, MpiConstants DEF MpiConstants

(* A submitted or reserved operation keeps m_outstanding above zero.       *)
LEMMA OwnedCounts ==
  ASSUME CountInv, NEW o \in Ops, place[o] \in {"lane", "queued", "flight", "completed"}
  PROVE  outstanding \in Nat \ {0}
  <1>1. o \in Owned
    BY DEF Owned
  <1>2. Cardinality(Owned) \in Nat /\ Cardinality(Owned) # 0
    BY <1>1, OwnedFinite, FS_EmptySet, FS_CardinalityType
  <1> QED
    BY <1>2 DEF CountInv

(* What the first entry of a lane is.                                      *)
LEMMA HeadEntry ==
  ASSUME TypeOK, LaneInv, NEW c \in Comms, entries[c] # <<>>
  PROVE  /\ Head(entries[c]) = entries[c][1] /\ 1 \in 1 .. Len(entries[c])
         /\ Head(entries[c]) \in Entry /\ Head(entries[c]).op \in Managed
         /\ Head(entries[c]).op \in Ops /\ Head(entries[c]).start \in Ops \cup {None}
         /\ place[Head(entries[c]).op] = "lane" /\ CommOf[Head(entries[c]).op] = c
         /\ ticket[Head(entries[c]).op] = first[c]
         /\ Head(entries[c]).start = IF Head(entries[c]).state = "committed" THEN Head(entries[c]).op ELSE None
  <1>1. entries[c] \in Seq(Entry) /\ first[c] \in Nat
    BY DEF TypeOK
  <1>2. Head(entries[c]) = entries[c][1] /\ 1 \in 1 .. Len(entries[c]) /\ Head(entries[c]) \in Entry
    BY <1>1
  <1>3. Head(entries[c]).op \in Managed /\ Head(entries[c]).start \in Managed \cup {None}
    BY <1>2 DEF Entry
  <1> QED
    BY <1>1, <1>2, <1>3, MpiConstants DEF LaneInv, MpiConstants

(* Every action keeps the types.                                           *)
LEMMA TypeStep == IInv /\ [Next]_vars => TypeOK'
  <1> SUFFICES ASSUME IInv, [Next]_vars PROVE TypeOK'
    OBVIOUS
  <1>c. /\ \A k \in Managed : k \in Ops /\ CommOf[k] \in Comms
        /\ BatchSize \in Nat /\ BatchSize \in 0 .. BatchSize /\ NReq \in [Ops -> Nat]
    BY MpiConstants DEF MpiConstants
  <1>0. TypeOK /\ CurInv /\ CountInv /\ TableInv /\ LaneInv
    BY DEF IInv
  <1>1. ASSUME NEW o \in Ops, Submit(o) PROVE TypeOK'
    BY <1>0, <1>1 DEF TypeOK, Submit, submit, phaseVars, laneVars, tokenVars, reqVars, ownerVars
  <1>2. ASSUME NEW o \in Ops, Notify(o) PROVE TypeOK'
    BY <1>0, <1>2 DEF TypeOK, Notify, queueVars, phaseVars, laneVars, tokenVars, reqVars
  <1>3. ASSUME NEW k \in Managed, Reserve(k) PROVE TypeOK'
    <2>1. CommOf[k] \in Comms /\ k \in Ops
      BY <1>c
    <2>2. [op |-> k, start |-> None, state |-> "reserved"] \in Entry
      BY DEF Entry
    <2>3. entries' \in [Comms -> Seq(Entry)] /\ ticket' \in [Managed -> Nat]
      <3>1. /\ entries \in [Comms -> Seq(Entry)] /\ ticket \in [Managed -> Nat]
            /\ first[CommOf[k]] \in Nat /\ entries[CommOf[k]] \in Seq(Entry)
        BY <1>0, <2>1 DEF TypeOK
      <3>2. /\ first[CommOf[k]] + Len(entries[CommOf[k]]) \in Nat
            /\ Append(entries[CommOf[k]], [op |-> k, start |-> None, state |-> "reserved"]) \in Seq(Entry)
        BY <2>2, <3>1, LenProperties
      <3> QED
        BY <1>3, <3>1, <3>2 DEF Reserve
    <2>4. /\ token' \in [Managed -> {"none", "sender", "running", "released"}]
          /\ place' \in [Ops -> {"new", "lane", "dropped", "popped", "queued", "flight",
                                 "completed", "retired"}]
          /\ outstanding' \in Nat
      BY <1>0, <1>3, <2>1 DEF TypeOK, Reserve
    <2> QED
      BY <1>0, <1>3, <2>3, <2>4 DEF TypeOK, Reserve, phaseVars, reqVars, ownerVars
  <1>4. ASSUME NEW k \in Managed, StartPredecessor(k) PROVE TypeOK'
    BY <1>0, <1>4 DEF TypeOK, StartPredecessor, queueVars, phaseVars, laneVars, reqVars, ownerVars
  <1>5. ASSUME NEW k \in Managed, Commit(k) PROVE TypeOK'
    <2> DEFINE c == CommOf[k]
               i == find(c, ticket[k])
    <2>1. c \in Comms /\ k \in Ops
      BY <1>c
    <2>2. i # 0 => i \in 1 .. Len(entries[c])
      BY <1>0, <2>1, SMTT(30) DEF find, TypeOK
    <2>3. entries' \in [Comms -> Seq(Entry)] /\ terminated' \in BOOLEAN
      <3>1. CASE i # 0 /\ entries[c][i].state = "reserved"
        <4> DEFINE e == [entries[c][i] EXCEPT !.state = "committed", !.start = k]
        <4>1. entries[c] \in Seq(Entry) /\ entries[c][i] \in Entry
          BY <1>0, <2>1, <2>2, <3>1 DEF TypeOK
        <4>2. e \in Entry
          BY <4>1 DEF Entry
        <4>3. [entries[c] EXCEPT ![i] = e] \in Seq(Entry)
          BY <2>2, <3>1, <4>1, <4>2
        <4>4. entries' = [entries EXCEPT ![c][i].state = "committed", ![c][i].start = k]
          BY <1>5, <3>1 DEF Commit
        <4>5. entries' = [entries EXCEPT ![c] = [entries[c] EXCEPT ![i] = e]]
          <5> HIDE DEF c, i
          <5>1. entries \in [Comms -> Seq(Entry)] /\ i \in DOMAIN entries[c]
            BY <1>0, <2>2, <3>1, <4>1 DEF TypeOK
          <5> QED
            BY <2>1, <4>4, <5>1
        <4>6. entries' \in [Comms -> Seq(Entry)]
          <5> HIDE DEF c, i, e
          <5> QED
            BY <1>0, <2>1, <4>3, <4>5 DEF TypeOK
        <4> QED
          BY <1>0, <1>5, <4>6 DEF Commit, TypeOK
      <3>2. CASE ~(i # 0 /\ entries[c][i].state = "reserved")
        BY <1>0, <1>5, <3>2 DEF Commit, TypeOK
      <3> QED
        BY <3>1, <3>2
    <2>4. token' \in [Managed -> {"none", "sender", "running", "released"}] /\ client' \subseteq Ops
      BY <1>0, <1>5, <2>1 DEF Commit, TypeOK
    <2>5. UNCHANGED <<queue, outstanding, accepting, stopping, finished, first, ticket, requests, active,
                      remaining, arrived, place, initiated, owner, cur, back, batch, pending, main>>
      BY <1>5 DEF Commit, queueVars, phaseVars, reqVars, ownerVars
    <2> QED
      BY <1>0, <2>3, <2>4, <2>5 DEF TypeOK
  <1>6. ASSUME NEW k \in Managed, Abandon(k) PROVE TypeOK'
    <2> DEFINE c == CommOf[k]
               i == find(c, ticket[k])
    <2>1. c \in Comms /\ k \in Ops
      BY <1>c
    <2>2. i # 0 => i \in 1 .. Len(entries[c])
      BY <1>0, <2>1, SMTT(30) DEF find, TypeOK
    <2>3. entries' \in [Comms -> Seq(Entry)]
      <3>1. CASE i # 0
        <4>1. entries[c] \in Seq(Entry) /\ entries[c][i] \in Entry
          BY <1>0, <2>1, <2>2, <3>1 DEF TypeOK
        <4>2. skipped(entries[c][i]) \in Entry
          BY <4>1 DEF Entry, skipped
        <4>3. [entries[c] EXCEPT ![i] = skipped(entries[c][i])] \in Seq(Entry)
          BY <2>2, <3>1, <4>1, <4>2
        <4>4. entries' = [entries EXCEPT ![c] = [entries[c] EXCEPT ![i] = skipped(entries[c][i])]]
          BY <1>0, <1>6, <2>1, <2>2, <3>1, <4>1 DEF Abandon, TypeOK
        <4> QED
          BY <1>0, <2>1, <4>3, <4>4 DEF TypeOK
      <3>2. CASE i = 0
        BY <1>0, <1>6, <3>2 DEF Abandon, TypeOK
      <3> QED
        BY <3>1, <3>2
    <2>4. token' \in [Managed -> {"none", "sender", "running", "released"}] /\ client' \subseteq Ops
      BY <1>0, <1>6, <2>1 DEF Abandon, TypeOK
    <2>5. UNCHANGED <<queue, outstanding, accepting, stopping, finished, first, ticket, requests, active,
                      remaining, arrived, place, initiated, owner, cur, back, batch, pending, main, terminated>>
      BY <1>6 DEF Abandon, queueVars, phaseVars, reqVars, ownerVars
    <2> QED
      BY <1>0, <2>3, <2>4, <2>5 DEF TypeOK
  <1>7. CASE RequestShutdown
    <2>1. entries' \in [Comms -> Seq(Entry)]
      <3>1. ASSUME NEW c \in Comms
            PROVE  [i \in DOMAIN entries[c] |-> skipped(entries[c][i])] \in Seq(Entry)
        <4>1. entries[c] \in Seq(Entry)
          BY <1>0 DEF TypeOK
        <4>2. Len(entries[c]) \in Nat /\ DOMAIN entries[c] = 1 .. Len(entries[c])
          BY <4>1
        <4>3. ASSUME NEW i \in 1 .. Len(entries[c]) PROVE skipped(entries[c][i]) \in Entry
          <5>1. entries[c][i] \in Entry
            BY <4>1, ElementOfSeq
          <5> QED
            BY <5>1 DEF Entry, skipped
        <4>4. [i \in 1 .. Len(entries[c]) |-> skipped(entries[c][i])] \in [1 .. Len(entries[c]) -> Entry]
          BY <4>3
        <4> QED
          BY <4>2, <4>4, FunctionIsSeq
      <3> QED
        BY <1>7, <3>1 DEF RequestShutdown
    <2> QED
      BY <1>0, <1>7, <2>1 DEF RequestShutdown, TypeOK, queueVars, tokenVars, reqVars, ownerVars
  <1>8. CASE NotifyShutdown
    BY <1>0, <1>8 DEF NotifyShutdown, TypeOK, queueVars, phaseVars, laneVars, tokenVars, reqVars
  <1>9. CASE Join
    BY <1>0, <1>9 DEF Join, TypeOK, queueVars, phaseVars, laneVars, tokenVars, reqVars, ownerVars
  <1>10. CASE PopCommand
    <2>1. Head(queue) \in Ops /\ Tail(queue) \in Seq(Ops) /\ batch - 1 \in 0 .. BatchSize
      BY <1>0, <1>c, <1>10 DEF PopCommand, TypeOK
    <2> QED
      BY <1>0, <1>10, <2>1 DEF PopCommand, TypeOK, phaseVars, laneVars, tokenVars, reqVars
  <1>11. CASE QueueDrained
    BY <1>0, <1>c, <1>11 DEF QueueDrained, TypeOK, queueVars, phaseVars, laneVars, tokenVars, reqVars
  <1>12. CASE StartNative
    <2>0. cur \in Ops
      BY <1>0, <1>12 DEF StartNative, CurInv
    <2>1. PICK live \in SUBSET (1 .. NReq[cur]) :
            LET added == ascending(live)
            IN  /\ requests' = requests \o [i \in DOMAIN added |-> <<cur, added[i]>>]
                /\ active' = active \o [i \in DOMAIN added |-> [group |-> cur, index |-> added[i]]]
                /\ remaining' = [remaining EXCEPT ![cur] = Cardinality(live)]
                /\ owner' = IF live = {} THEN "deliver" ELSE "queue"
      BY <1>12 DEF StartNative
    <2> DEFINE added == ascending(live)
    <2>2. Cardinality(live) \in Nat /\ added \in [1 .. Cardinality(live) -> live] /\ live \subseteq Nat
      <3>1. NReq[cur] \in Nat /\ live \subseteq Nat
        BY <1>c, <2>0
      <3> QED
        BY <3>1, AscendingEnumerates DEF Enumerates
    <2> DEFINE more == [i \in DOMAIN added |-> <<cur, added[i]>>]
               moreActive == [i \in DOMAIN added |-> [group |-> cur, index |-> added[i]]]
               Req == (Ops \X Nat) \cup {None}
               Act == [group : Ops, index : Nat]
    <2>3. more \in Seq(Req) /\ moreActive \in Seq(Act)
      <3> HIDE DEF added
      <3>1. DOMAIN added = 1 .. Cardinality(live) /\ \A i \in 1 .. Cardinality(live) : added[i] \in Nat
        BY <2>2
      <3>2. more \in [1 .. Cardinality(live) -> Req] /\ moreActive \in [1 .. Cardinality(live) -> Act]
        BY <2>0, <3>1
      <3> HIDE DEF more, moreActive, Req, Act
      <3> QED
        BY <2>2, <3>2, FunctionIsSeq
    <2>4. requests' = requests \o more /\ active' = active \o moreActive
      BY <2>1
    <2>5. /\ requests' \in Seq((Ops \X Nat) \cup {None}) /\ active' \in Seq([group : Ops, index : Nat])
          /\ remaining' \in [Ops -> Int]
      <3>1. requests \in Seq(Req) /\ active \in Seq(Act) /\ remaining \in [Ops -> Int]
        BY <1>0 DEF TypeOK
      <3>2. remaining' \in [Ops -> Int]
        <4>1. remaining' = [remaining EXCEPT ![cur] = Cardinality(live)] /\ Cardinality(live) \in Int
          BY <2>1, <2>2
        <4> QED
          BY <3>1, <4>1
      <3>3. requests' \in Seq(Req) /\ active' \in Seq(Act)
        <4> HIDE DEF more, moreActive, Req, Act
        <4> QED
          BY <2>3, <2>4, <3>1, ConcatProperties
      <3> QED
        BY <3>2, <3>3
    <2>6. initiated' \in Seq(Ops)
      BY <1>0, <1>12, <2>0 DEF StartNative, TypeOK
    <2> QED
      BY <1>0, <1>12, <2>1, <2>5, <2>6 DEF StartNative, TypeOK, queueVars, phaseVars, laneVars, tokenVars
  <1>13. CASE Deliver
    BY <1>0, <1>13 DEF Deliver, TypeOK, CurInv, queueVars, phaseVars, laneVars, tokenVars, reqVars
  <1>14. CASE FinishOperation
    <2>1. cur \in Ops /\ outstanding - 1 \in Nat
      <3>1. cur \in Ops /\ place[cur] = "completed"
        BY <1>0, <1>14 DEF FinishOperation, CurInv
      <3>2. outstanding \in Nat \ {0}
        BY <1>0, <3>1, OwnedCounts
      <3> QED
        BY <3>1, <3>2
    <2> QED
      BY <1>0, <1>14, <2>1 DEF FinishOperation, TypeOK, phaseVars, laneVars, tokenVars, reqVars
  <1>15. CASE PopCollective
    <2>1. PICK c \in Comms :
            /\ laneReady(c)
            /\ entries' = [entries EXCEPT ![c] = Tail(@)]
            /\ first' = [first EXCEPT ![c] = @ + 1]
            /\ cur' = Head(entries[c]).start
            /\ place' = [place EXCEPT ![Head(entries[c]).op] =
                            IF Head(entries[c]).start = None THEN "dropped" ELSE "popped"]
            /\ owner' = IF Head(entries[c]).start = None THEN "lanes" ELSE "collective"
      BY <1>15 DEF PopCollective
    <2>2. entries[c] # <<>>
      BY <2>1 DEF laneReady
    <2>3. /\ Head(entries[c]).op \in Ops /\ place[Head(entries[c]).op] = "lane"
          /\ Head(entries[c]).start \in Ops \cup {None}
      BY <1>0, <2>2, HeadEntry
    <2>4. outstanding - 1 \in Nat
      <3>1. outstanding \in Nat \ {0}
        BY <1>0, <2>3, OwnedCounts
      <3> QED
        BY <3>1
    <2>5. entries[c] \in Seq(Entry) /\ Tail(entries[c]) \in Seq(Entry)
      BY <1>0, <2>2 DEF TypeOK
    <2>6. entries' \in [Comms -> Seq(Entry)] /\ first' \in [Comms -> Nat] /\ batch - 1 \in 0 .. BatchSize
      <3>1. first' \in [Comms -> Nat]
        BY <1>0, <2>1 DEF TypeOK
      <3>2. entries' \in [Comms -> Seq(Entry)]
        <4>1. entries \in [Comms -> Seq(Entry)]
          BY <1>0 DEF TypeOK
        <4> QED
          BY <2>1, <2>5, <4>1
      <3>3. batch - 1 \in 0 .. BatchSize
        BY <1>0, <1>c, <1>15 DEF TypeOK, PopCollective
      <3> QED
        BY <3>1, <3>2, <3>3
    <2> QED
      BY <1>0, <1>15, <2>1, <2>3, <2>4, <2>6 DEF PopCollective, TypeOK, phaseVars, tokenVars, reqVars
  <1>16. CASE StartCollective
    <2>1. cur \in Ops
      BY <1>0, <1>c, <1>16 DEF StartCollective, CurInv
    <2> QED
      BY <1>0, <1>16, <2>1, SMTT(30) DEF StartCollective, submit, TypeOK, phaseVars, laneVars, tokenVars, reqVars
  <1>17. CASE LanesDrained
    BY <1>0, <1>17 DEF LanesDrained, TypeOK, queueVars, phaseVars, laneVars, tokenVars, reqVars
  <1>18. CASE TestSome
    <2> DEFINE hit == {i \in DOMAIN requests : requests[i] \in arrived}
    <2>1. Len(requests) \in Nat /\ hit \in SUBSET (1 .. Len(requests))
      BY <1>0 DEF TypeOK
    <2>2. Cardinality(hit) \in Nat /\ ascending(hit) \in [1 .. Cardinality(hit) -> hit]
      BY <2>1, AscendingEnumerates DEF Enumerates
    <2>3. pending' \in Seq(Nat)
      <3>1. pending' = ascending(hit)
        BY <1>18 DEF TestSome
      <3>2. hit \subseteq Nat
        BY <2>1
      <3> HIDE DEF hit
      <3>3. ascending(hit) \in [1 .. Cardinality(hit) -> Nat]
        BY <2>2, <3>2
      <3> QED
        BY <2>2, <3>1, <3>3, FunctionIsSeq
    <2>4. requests' \in Seq((Ops \X Nat) \cup {None})
      <3> DEFINE Req == (Ops \X Nat) \cup {None}
                 after == [i \in 1 .. Len(requests) |-> IF i \in hit THEN None ELSE requests[i]]
      <3>1. requests \in Seq(Req) /\ DOMAIN requests = 1 .. Len(requests)
        BY <1>0 DEF TypeOK
      <3>2. requests' = after
        BY <1>18, <3>1 DEF TestSome
      <3>3. \A i \in 1 .. Len(requests) : requests[i] \in Req
        <4> HIDE DEF Req
        <4> QED
          BY <3>1, ElementOfSeq
      <3>4. after \in [1 .. Len(requests) -> Req]
        <4>1. None \in Req
          OBVIOUS
        <4> HIDE DEF hit, Req
        <4> QED
          BY <3>3, <4>1
      <3> HIDE DEF after, Req
      <3>5. requests' \in Seq(Req)
        BY <2>1, <3>2, <3>4, FunctionIsSeq
      <3> QED
        BY <3>5 DEF Req
    <2> QED
      BY <1>0, <1>18, <2>3, <2>4 DEF TestSome, TypeOK, queueVars, phaseVars, laneVars, tokenVars
  <1>19. CASE Retire
    <2>1. Head(pending) \in 1 .. Len(active) /\ Tail(pending) \in Seq(Nat)
      BY <1>0, <1>19 DEF Retire, TypeOK, TableInv
    <2>2. active[Head(pending)].group \in Ops
      <3>1. active \in Seq([group : Ops, index : Nat])
        BY <1>0 DEF TypeOK
      <3>2. active[Head(pending)] \in [group : Ops, index : Nat]
        BY <2>1, <3>1, ElementOfSeq
      <3> QED
        BY <3>2
    <2>3. remaining' \in [Ops -> Int] /\ cur' \in Ops \cup {None} /\ owner' \in {"deliver", "retire"}
      <3> DEFINE g == active[Head(pending)].group
      <3>1. /\ remaining' = [remaining EXCEPT ![g] = @ - 1]
            /\ cur' = IF remaining[g] = 1 THEN g ELSE None
            /\ owner' = IF remaining[g] = 1 THEN "deliver" ELSE "retire"
        BY <1>19 DEF Retire
      <3>2. remaining \in [Ops -> Int]
        BY <1>0 DEF TypeOK
      <3> HIDE DEF g
      <3>3. g \in Ops
        BY <2>2 DEF g
      <3> QED
        BY <3>1, <3>2, <3>3
    <2> QED
      BY <1>0, <1>19, <2>1, <2>3 DEF Retire, TypeOK, queueVars, phaseVars, laneVars, tokenVars
  <1>20. CASE Compact
    <2> DEFINE live == {i \in DOMAIN requests : requests[i] # None}
               kept == ascending(live)
    <2>1. Len(requests) \in Nat /\ live \in SUBSET (1 .. Len(requests)) /\ Len(active) = Len(requests)
      <3>1. Len(active) = Len(requests)
        BY <1>0 DEF TableInv
      <3> QED
        BY <1>0, <3>1 DEF TypeOK
    <2>2. Cardinality(live) \in Nat /\ kept \in [1 .. Cardinality(live) -> live]
      BY <2>1, AscendingEnumerates DEF Enumerates
    <2>3. requests' = [n \in DOMAIN kept |-> requests[kept[n]]] /\ active' = [n \in DOMAIN kept |-> active[kept[n]]]
      BY <1>20 DEF Compact
    <2>4. \A n \in 1 .. Cardinality(live) : kept[n] \in 1 .. Len(requests)
      <3> HIDE DEF live
      <3> QED
        BY <2>1, <2>2
    <2>5. \A n \in 1 .. Cardinality(live) : /\ requests[kept[n]] \in (Ops \X Nat) \cup {None}
                                           /\ active[kept[n]] \in [group : Ops, index : Nat]
      <3> DEFINE Req == (Ops \X Nat) \cup {None}
                 Act == [group : Ops, index : Nat]
      <3>1. requests \in Seq(Req) /\ active \in Seq(Act)
        BY <1>0 DEF TypeOK
      <3> HIDE DEF kept, live, Req, Act
      <3>2. \A n \in 1 .. Cardinality(live) : requests[kept[n]] \in Req /\ active[kept[n]] \in Act
        BY <2>1, <2>4, <3>1, ElementOfSeq
      <3> QED
        BY <3>2 DEF Req, Act
    <2>6. requests' \in Seq((Ops \X Nat) \cup {None}) /\ active' \in Seq([group : Ops, index : Nat])
      <3>1. DOMAIN kept = 1 .. Cardinality(live)
        BY <2>2
      <3> DEFINE Req == (Ops \X Nat) \cup {None}
                 Act == [group : Ops, index : Nat]
      <3> HIDE DEF kept, live, Req, Act
      <3>2. \A n \in 1 .. Cardinality(live) : requests[kept[n]] \in Req /\ active[kept[n]] \in Act
        BY <2>5 DEF Req, Act
      <3>3. requests' \in [1 .. Cardinality(live) -> Req] /\ active' \in [1 .. Cardinality(live) -> Act]
        BY <2>3, <3>1, <3>2
      <3>4. requests' \in Seq(Req) /\ active' \in Seq(Act)
        BY <2>2, <3>3, FunctionIsSeq
      <3> QED
        BY <3>4 DEF Req, Act
    <2> QED
      BY <1>0, <1>20, <2>6 DEF Compact, TypeOK, queueVars, phaseVars, laneVars, tokenVars
  <1>21. CASE Decide
    BY <1>0, <1>21 DEF Decide, TypeOK, queueVars, phaseVars, laneVars, tokenVars, reqVars
  <1>22. CASE Finalize
    BY <1>0, <1>22 DEF Finalize, TypeOK, queueVars, laneVars, tokenVars, reqVars
  <1>23. CASE Idle
    BY <1>0, <1>c, <1>23 DEF Idle, TypeOK, queueVars, phaseVars, laneVars, tokenVars, reqVars
  <1>24. CASE SpuriousWake
    BY <1>0, <1>24 DEF SpuriousWake, TypeOK, queueVars, phaseVars, laneVars, tokenVars, reqVars
  <1>25. CASE Arrive
    BY <1>0, <1>25, SMTT(30) DEF Arrive, TypeOK, queueVars, phaseVars, laneVars, tokenVars, reqVars, ownerVars
  <1>26. CASE Over \/ UNCHANGED vars
    <2>1. UNCHANGED vars
      BY <1>26 DEF Over
    <2> QED
      BY <1>0, <2>1 DEF vars, TypeOK
  <1> QED
    BY <1>1, <1>2, <1>3, <1>4, <1>5, <1>6, <1>7, <1>8, <1>9, <1>10, <1>11, <1>12, <1>13, <1>14,
       <1>15, <1>16, <1>17, <1>18, <1>19, <1>20, <1>21, <1>22, <1>23, <1>24, <1>25, <1>26
       DEF Next, Owner

-----------------------------------------------------------------------------
(* What the elements of the sequences are.                                 *)
LEMMA SequenceElements ==
  ASSUME TypeOK
  PROVE  /\ Len(queue) \in Nat /\ \A i \in 1 .. Len(queue) : queue[i] \in Ops
         /\ Len(initiated) \in Nat /\ \A i \in 1 .. Len(initiated) : initiated[i] \in Ops
         /\ Len(pending) \in Nat /\ \A n \in 1 .. Len(pending) : pending[n] \in Nat
         /\ Len(requests) \in Nat
         /\ \A i \in 1 .. Len(requests) : requests[i] \in (Ops \X Nat) \cup {None}
         /\ Len(active) \in Nat
         /\ \A i \in 1 .. Len(active) : active[i] \in [group : Ops, index : Nat]
         /\ \A c \in Comms : /\ entries[c] \in Seq(Entry) /\ Len(entries[c]) \in Nat
                             /\ \A i \in 1 .. Len(entries[c]) : entries[c][i] \in Entry
  <1>1. queue \in Seq(Ops) /\ initiated \in Seq(Ops) /\ pending \in Seq(Nat)
    BY DEF TypeOK
  <1>2. /\ requests \in Seq((Ops \X Nat) \cup {None}) /\ active \in Seq([group : Ops, index : Nat])
        /\ \A c \in Comms : entries[c] \in Seq(Entry)
    BY DEF TypeOK
  <1>3. Len(queue) \in Nat /\ \A i \in 1 .. Len(queue) : queue[i] \in Ops
    BY <1>1, LenProperties, ElementOfSeq
  <1>4. Len(initiated) \in Nat /\ \A i \in 1 .. Len(initiated) : initiated[i] \in Ops
    BY <1>1, LenProperties, ElementOfSeq
  <1>5. Len(pending) \in Nat /\ \A n \in 1 .. Len(pending) : pending[n] \in Nat
    BY <1>1, LenProperties, ElementOfSeq
  <1>6. Len(requests) \in Nat /\ \A i \in 1 .. Len(requests) : requests[i] \in (Ops \X Nat) \cup {None}
    BY <1>2, LenProperties, ElementOfSeq
  <1>7. Len(active) \in Nat /\ \A i \in 1 .. Len(active) : active[i] \in [group : Ops, index : Nat]
    BY <1>2, LenProperties, ElementOfSeq
  <1>8. ASSUME NEW c \in Comms
        PROVE  /\ entries[c] \in Seq(Entry) /\ Len(entries[c]) \in Nat
               /\ \A i \in 1 .. Len(entries[c]) : entries[c][i] \in Entry
    BY <1>2, LenProperties, ElementOfSeq
  <1> QED
    BY <1>3, <1>4, <1>5, <1>6, <1>7, <1>8

(* The table and the reported indices as long as they do not change.       *)
LEMMA TableUnchanged ==
  ASSUME UNCHANGED <<requests, active, pending>>
  PROVE  \A o : Living(o)' = Living(o) /\ Reported(o)' = Reported(o)
  BY DEF Living, Reported

-----------------------------------------------------------------------------
(* Every action that works on no operation is quiet.                       *)
LEMMA QuietActions ==
  ASSUME TypeOK, PhaseInv,
         \/ \E o \in Ops : Notify(o)
         \/ NotifyShutdown \/ Join \/ QueueDrained \/ LanesDrained \/ Decide \/ Finalize \/ Idle
         \/ SpuriousWake \/ Arrive \/ Over \/ UNCHANGED vars
  PROVE  Quiet
  <1>0. owner \in {"release", "gone"} => stopping /\ outstanding = 0
    BY DEF PhaseInv
  <1> USE DEF Quiet, Busy
  <1>1. ASSUME NEW o \in Ops, Notify(o) PROVE Quiet
    BY <1>0, <1>1 DEF Notify, queueVars, phaseVars, laneVars, tokenVars, reqVars
  <1>2. CASE NotifyShutdown
    BY <1>0, <1>2 DEF NotifyShutdown, queueVars, phaseVars, laneVars, tokenVars, reqVars
  <1>3. CASE Join
    BY <1>0, <1>3 DEF Join, queueVars, phaseVars, laneVars, tokenVars, reqVars, ownerVars
  <1>4. CASE QueueDrained
    BY <1>0, <1>4 DEF QueueDrained, queueVars, phaseVars, laneVars, tokenVars, reqVars
  <1>5. CASE LanesDrained
    BY <1>0, <1>5 DEF LanesDrained, queueVars, phaseVars, laneVars, tokenVars, reqVars
  <1>6. CASE Decide
    BY <1>0, <1>6 DEF Decide, queueVars, phaseVars, laneVars, tokenVars, reqVars
  <1>7. CASE Finalize
    BY <1>0, <1>7 DEF Finalize, queueVars, laneVars, tokenVars, reqVars
  <1>8. CASE Idle
    BY <1>0, <1>8 DEF Idle, queueVars, phaseVars, laneVars, tokenVars, reqVars
  <1>9. CASE SpuriousWake
    BY <1>0, <1>9 DEF SpuriousWake, queueVars, phaseVars, laneVars, tokenVars, reqVars
  <1>10. CASE Arrive
    BY <1>0, <1>10 DEF Arrive, queueVars, phaseVars, laneVars, tokenVars, reqVars, ownerVars
  <1>11. CASE Over \/ UNCHANGED vars
    BY <1>0, <1>11 DEF Over, vars
  <1> QED
    BY <1>1, <1>2, <1>3, <1>4, <1>5, <1>6, <1>7, <1>8, <1>9, <1>10, <1>11

(* A quiet step keeps the inductive invariant.                             *)
LEMMA QuietStep == ASSUME IInv, TypeOK', Quiet PROVE IInv'
  <1>1. PhaseInv'
    BY DEF IInv, PhaseInv, Quiet
  <1>2. CurInv'
    BY DEF IInv, CurInv, Quiet, Busy
  <1>3. CountInv'
    BY DEF IInv, CountInv, Owned, Quiet
  <1>4. QueueInv'
    BY DEF IInv, QueueInv, Quiet
  <1>5. Retiring' = Retiring
    BY DEF Retiring, Quiet, Busy
  <1>6. TableInv'
    BY <1>5 DEF IInv, TableInv, Quiet
  <1>7. GroupInv'
    <2>1. \A o : Living(o)' = Living(o) /\ Reported(o)' = Reported(o)
      BY TableUnchanged DEF Quiet
    <2> QED
      BY <2>1 DEF IInv, GroupInv, Quiet
  <1>8. LaneInv'
    BY DEF IInv, LaneInv, Quiet
  <1>9. TokenInv'
    BY DEF IInv, TokenInv, Quiet
  <1>10. DrainedInv'
    BY DEF IInv, DrainedInv, Quiet
  <1>11. OrderInv'
    BY DEF IInv, OrderInv, Before, Quiet, Busy
  <1> QED
    BY <1>1, <1>2, <1>3, <1>4, <1>6, <1>7, <1>8, <1>9, <1>10, <1>11 DEF IInv

(* MpiContext::submit of a sender that is no managed collective.           *)
LEMMA SubmitStep == ASSUME IInv, TypeOK', NEW o \in Ops, Submit(o) PROVE IInv'
  <1>0. TypeOK /\ PhaseInv /\ CurInv /\ CountInv /\ QueueInv /\ TableInv /\ GroupInv /\ LaneInv /\ TokenInv /\ DrainedInv /\ OrderInv
    BY DEF IInv
  <1>1. /\ o \notin Managed /\ place[o] = "new" /\ main = "app" /\ accepting /\ ~stopping
        /\ queue' = Append(queue, o) /\ outstanding' = outstanding + 1 /\ terminated' = terminated
        /\ place' = [place EXCEPT ![o] = "queued"]
        /\ UNCHANGED <<accepting, stopping, finished, first, entries, ticket, token, requests, active,
                       remaining, arrived, initiated, owner, cur, back, batch, pending, main>>
    BY <1>0 DEF Submit, submit, PhaseInv, TypeOK, phaseVars, laneVars, tokenVars, reqVars, ownerVars
  <1>2. /\ place'[o] = "queued" /\ \A p \in Ops : p # o => place'[p] = place[p]
        /\ place \in [Ops -> {"new", "lane", "dropped", "popped", "queued", "flight", "completed", "retired"}]
    BY <1>0, <1>1 DEF TypeOK
  <1>3. /\ Len(queue') = Len(queue) + 1 /\ Len(queue) \in Nat
        /\ \A i \in 1 .. Len(queue) : queue'[i] = queue[i] /\ queue[i] \in Ops
        /\ queue'[Len(queue) + 1] = o
    <2>1. queue \in Seq(Ops)
      BY <1>0 DEF TypeOK
    <2> QED
      BY <1>1, <2>1, AppendProperties, SequenceElements, <1>0
  <1>4. PhaseInv'
    BY <1>0, <1>1 DEF PhaseInv
  <1>5. CurInv'
    BY <1>0, <1>1, <1>2, MpiConstants DEF CurInv, MpiConstants
  <1>6. CountInv'
    <2>1. Owned' = Owned \cup {o} /\ o \notin Owned
      BY <1>1, <1>2 DEF Owned
    <2> QED
      BY <1>0, <1>1, <2>1, OwnedFinite, FS_AddElement DEF CountInv
  <1>7. QueueInv'
    <2>1. \A i \in 1 .. Len(queue) : place[queue[i]] = "queued" /\ queue[i] # o
      BY <1>0, <1>1 DEF QueueInv
    <2>2. \A i \in 1 .. Len(queue)' : i \in 1 .. Len(queue) \/ i = Len(queue) + 1
      BY <1>3
    <2>3. \A i \in 1 .. Len(queue)' : place'[queue'[i]] = "queued"
      BY <1>2, <1>3, <2>1, <2>2
    <2>4. \A i, j \in 1 .. Len(queue)' : queue'[i] = queue'[j] => i = j
      BY <1>0, <1>3, <2>1, <2>2 DEF QueueInv
    <2> QED
      BY <2>3, <2>4 DEF QueueInv
  <1>8. TableInv'
    BY <1>0, <1>1 DEF TableInv, Retiring
  <1>9. GroupInv'
    <2>1. \A p : Living(p)' = Living(p) /\ Reported(p)' = Reported(p)
      BY <1>1, TableUnchanged
    <2> QED
      BY <1>0, <1>1, <1>2, <2>1 DEF GroupInv
  <1>10. LaneInv'
    <2>1. \A k \in Managed : place'[k] = place[k]
      BY <1>1, <1>2, MpiConstants DEF MpiConstants
    <2>2. \A c \in Comms : \A i \in 1 .. Len(entries[c]) : entries[c][i].op \in Managed
      BY <1>0, SequenceElements DEF Entry
    <2> QED
      BY <1>0, <1>1, <1>2, <2>1, <2>2 DEF LaneInv
  <1>11. TokenInv'
    BY <1>0, <1>1 DEF TokenInv
  <1>12. DrainedInv'
    BY <1>0, <1>1 DEF DrainedInv
  <1>13. OrderInv'
    <2>1. \A p : Before(p, o) /\ Before(o, p)
      BY <1>1 DEF Before
    <2>2. \A p, q : Before(p, q)' <=> Before(p, q)
      BY <1>1 DEF Before
    <2>3. \A i \in 1 .. Len(queue)' : i \in 1 .. Len(queue) \/ i = Len(queue) + 1
      BY <1>3
    <2>4. \A i \in 1 .. Len(initiated) : place'[initiated[i]] = place[initiated[i]]
      BY <1>0, <1>1, <1>2, SequenceElements DEF OrderInv
    <2>5. \A i \in 1 .. Len(initiated), j \in 1 .. Len(queue') : Before(initiated[i], queue'[j])
      BY <1>0, <1>3, <2>1, <2>3 DEF OrderInv
    <2>6. \A i, j \in 1 .. Len(queue') : i < j => Before(queue'[i], queue'[j])
      BY <1>0, <1>3, <2>1, <2>3 DEF OrderInv
    <2>7. \A j \in 1 .. Len(queue') : owner = "start" => Before(cur, queue'[j])
      BY <1>0, <1>3, <2>1, <2>3 DEF OrderInv
    <2>8. \A j \in 1 .. Len(queue') : owner = "collective" => Before(queue'[j], cur)
      BY <1>0, <1>3, <2>1, <2>3 DEF OrderInv
    <2> QED
      BY <1>0, <1>1, <2>2, <2>4, <2>5, <2>6, <2>7, <2>8 DEF OrderInv
  <1> QED
    BY <1>4, <1>5, <1>6, <1>7, <1>8, <1>9, <1>10, <1>11, <1>12, <1>13 DEF IInv

(* An operation past the lanes that moves on to another place past them    *)
(* leaves the lanes as they were.                                          *)
LEMMA LaneFrame ==
  ASSUME TypeOK, LaneInv, UNCHANGED <<first, entries, ticket, token>>,
         \A p \in Ops : \/ place'[p] = place[p]
                        \/ /\ place[p] \notin {"new", "lane"}
                           /\ place'[p] \notin {"new", "lane", "dropped", "popped"}
  PROVE  LaneInv'
  <1>1. \A c \in Comms : \A i \in 1 .. Len(entries[c]) : entries[c][i].op \in Ops
    BY SequenceElements, MpiConstants DEF Entry, MpiConstants
  <1>2. Managed \subseteq Ops
    BY MpiConstants DEF MpiConstants
  <1>3. \A c \in Comms : \A i \in 1 .. Len(entries[c]) : place'[entries[c][i].op] = "lane"
    BY <1>1 DEF LaneInv
  <1>4. \A k \in Managed : /\ place'[k] = "lane" <=> place[k] = "lane"
                           /\ place'[k] = "new" <=> place[k] = "new"
    BY <1>2
  <1>5. \A p \in Ops : place'[p] \in {"lane", "dropped", "popped"} => p \in Managed
    BY DEF LaneInv
  <1> QED
    BY <1>3, <1>4, <1>5 DEF LaneInv

(* drainQueue takes a command.                                             *)
LEMMA PopCommandStep == ASSUME IInv, TypeOK', PopCommand PROVE IInv'
  <1>0. /\ TypeOK /\ PhaseInv /\ CurInv /\ CountInv /\ QueueInv /\ TableInv /\ GroupInv
        /\ LaneInv /\ TokenInv /\ DrainedInv /\ OrderInv
    BY DEF IInv
  <1> DEFINE o == Head(queue)
  <1>1. /\ owner = "queue" /\ queue # <<>> /\ cur' = o /\ queue' = Tail(queue) /\ owner' = "start"
        /\ place' = [place EXCEPT ![o] = "flight"]
        /\ UNCHANGED <<outstanding, accepting, stopping, finished, first, entries, ticket, token,
                       requests, active, remaining, arrived, initiated, back, pending, main, client,
                       terminated>>
    BY DEF PopCommand, phaseVars, laneVars, tokenVars, reqVars
  <1>2. /\ Len(queue) \in Nat \ {0} /\ o = queue[1] /\ o \in Ops /\ 1 \in 1 .. Len(queue)
        /\ Len(queue') = Len(queue) - 1
        /\ \A i \in 1 .. Len(queue') : queue'[i] = queue[i + 1] /\ i + 1 \in 1 .. Len(queue)
    <2>1. queue \in Seq(Ops)
      BY <1>0 DEF TypeOK
    <2> QED
      BY <1>1, <2>1, HeadTailProperties, EmptySeq
  <1> HIDE DEF o
  <1>3. place[o] = "queued"
    BY <1>0, <1>2 DEF QueueInv
  <1>4. /\ place'[o] = "flight" /\ \A p \in Ops : p # o => place'[p] = place[p]
        /\ place \in [Ops -> {"new", "lane", "dropped", "popped", "queued", "flight", "completed", "retired"}]
    BY <1>0, <1>1, <1>2 DEF TypeOK
  <1>5. remaining[o] = 0
    BY <1>0, <1>2, <1>3 DEF GroupInv
  <1>6. PhaseInv'
    BY <1>0, <1>1 DEF PhaseInv
  <1>7. CurInv'
    BY <1>1, <1>2, <1>4, <1>5 DEF CurInv
  <1>8. CountInv'
    <2>1. Owned' = Owned
      BY <1>2, <1>3, <1>4 DEF Owned
    <2> QED
      BY <1>0, <1>1, <2>1 DEF CountInv
  <1>9. QueueInv'
    <2>1. \A i \in 1 .. Len(queue') : queue[i + 1] # o /\ queue[i + 1] \in Ops
      BY <1>0, <1>2, SequenceElements DEF QueueInv
    <2>2. \A i \in 1 .. Len(queue') : place'[queue'[i]] = "queued"
      BY <1>0, <1>2, <1>4, <2>1 DEF QueueInv
    <2>3. \A i, j \in 1 .. Len(queue') : queue'[i] = queue'[j] => i = j
      BY <1>0, <1>2 DEF QueueInv
    <2> QED
      BY <2>2, <2>3 DEF QueueInv
  <1>10. TableInv'
    BY <1>0, <1>1 DEF TableInv, Retiring
  <1>11. GroupInv'
    <2>1. \A p : Living(p)' = Living(p) /\ Reported(p)' = Reported(p)
      BY <1>1, TableUnchanged
    <2> QED
      BY <1>0, <1>1, <1>4, <1>5, <2>1 DEF GroupInv
  <1>12. LaneInv'
    <2>1. \A p \in Ops : \/ place'[p] = place[p]
                         \/ place[p] = "queued" /\ place'[p] = "flight"
      BY <1>2, <1>3, <1>4
    <2> QED
      BY <1>0, <1>1, <2>1, LaneFrame
  <1>13. TokenInv'
    BY <1>0, <1>1 DEF TokenInv
  <1>14. DrainedInv'
    BY <1>0, <1>1, <1>2, <1>4, MpiConstants DEF DrainedInv, MpiConstants
  <1>15. OrderInv'
    <2>1. \A p, q : Before(p, q)' <=> Before(p, q)
      BY <1>1 DEF Before
    <2>2. \A i \in 1 .. Len(initiated) : place'[initiated[i]] \in {"flight", "completed", "retired"}
      BY <1>0, <1>2, <1>4, SequenceElements DEF OrderInv
    <2>3. \A i \in 1 .. Len(initiated), j \in 1 .. Len(queue') : Before(initiated[i], queue'[j])
      BY <1>0, <1>2 DEF OrderInv
    <2>4. \A i, j \in 1 .. Len(queue') : i < j => Before(queue'[i], queue'[j])
      BY <1>0, <1>2 DEF OrderInv
    <2>5. /\ \A i \in 1 .. Len(initiated) : Before(initiated[i], o)
          /\ \A j \in 1 .. Len(queue') : Before(o, queue'[j])
      BY <1>0, <1>2 DEF OrderInv
    <2> QED
      BY <1>0, <1>1, <2>1, <2>2, <2>3, <2>4, <2>5 DEF OrderInv
  <1> QED
    BY <1>6, <1>7, <1>8, <1>9, <1>10, <1>11, <1>12, <1>13, <1>14, <1>15 DEF IInv

(* The receiver gets its value.                                            *)
LEMMA DeliverStep == ASSUME IInv, TypeOK', Deliver PROVE IInv'
  <1>0. /\ TypeOK /\ PhaseInv /\ CurInv /\ CountInv /\ QueueInv /\ TableInv /\ GroupInv
        /\ LaneInv /\ TokenInv /\ DrainedInv /\ OrderInv
    BY DEF IInv
  <1>1. /\ owner = "deliver" /\ owner' = "finish" /\ place' = [place EXCEPT ![cur] = "completed"]
        /\ UNCHANGED <<queue, outstanding, accepting, stopping, finished, first, entries, ticket, token,
                       requests, active, remaining, initiated, cur, back, pending, main, terminated>>
    BY DEF Deliver, queueVars, phaseVars, laneVars, tokenVars, reqVars
  <1>2. cur \in Ops /\ place[cur] = "flight" /\ remaining[cur] = 0
    BY <1>0, <1>1 DEF CurInv
  <1>3. /\ place'[cur] = "completed" /\ \A p \in Ops : p # cur => place'[p] = place[p]
        /\ place \in [Ops -> {"new", "lane", "dropped", "popped", "queued", "flight", "completed", "retired"}]
    BY <1>0, <1>1, <1>2 DEF TypeOK
  <1>4. \A p \in Ops : \/ place'[p] = place[p]
                       \/ place[p] = "flight" /\ place'[p] = "completed"
    BY <1>2, <1>3
  <1>5. PhaseInv'
    BY <1>0, <1>1 DEF PhaseInv
  <1>6. CurInv'
    BY <1>1, <1>2, <1>3 DEF CurInv
  <1>7. CountInv'
    <2>1. Owned' = Owned
      BY <1>4 DEF Owned
    <2> QED
      BY <1>0, <1>1, <2>1 DEF CountInv
  <1>8. QueueInv'
    <2>1. \A i \in 1 .. Len(queue) : queue[i] \in Ops /\ place[queue[i]] = "queued"
      BY <1>0, SequenceElements DEF QueueInv
    <2>2. \A i \in 1 .. Len(queue) : place'[queue[i]] = "queued"
      BY <1>4, <2>1
    <2> QED
      BY <1>0, <1>1, <2>2 DEF QueueInv
  <1>9. TableInv'
    BY <1>0, <1>1 DEF TableInv, Retiring
  <1>10. GroupInv'
    <2>1. \A p : Living(p)' = Living(p) /\ Reported(p)' = Reported(p)
      BY <1>1, TableUnchanged
    <2> QED
      BY <1>0, <1>1, <1>2, <1>3, <2>1 DEF GroupInv
  <1>11. LaneInv'
    BY <1>0, <1>1, <1>4, LaneFrame
  <1>12. TokenInv'
    BY <1>0, <1>1 DEF TokenInv
  <1>13. DrainedInv'
    BY <1>0, <1>1, <1>4, MpiConstants DEF DrainedInv, MpiConstants
  <1>14. OrderInv'
    <2>1. \A p, q : Before(p, q)' <=> Before(p, q)
      BY <1>1 DEF Before
    <2>2. \A i \in 1 .. Len(initiated) : place'[initiated[i]] \in {"flight", "completed", "retired"}
      BY <1>0, <1>4, SequenceElements DEF OrderInv
    <2> QED
      BY <1>0, <1>1, <2>1, <2>2 DEF OrderInv
  <1> QED
    BY <1>5, <1>6, <1>7, <1>8, <1>9, <1>10, <1>11, <1>12, <1>13, <1>14 DEF IInv

(* finishOperation.                                                        *)
LEMMA FinishStep == ASSUME IInv, TypeOK', FinishOperation PROVE IInv'
  <1>0. /\ TypeOK /\ PhaseInv /\ CurInv /\ CountInv /\ QueueInv /\ TableInv /\ GroupInv
        /\ LaneInv /\ TokenInv /\ DrainedInv /\ OrderInv
    BY DEF IInv
  <1>1. /\ owner = "finish" /\ owner' = back /\ outstanding' = outstanding - 1 /\ cur' = None
        /\ place' = [place EXCEPT ![cur] = "retired"]
        /\ UNCHANGED <<queue, accepting, stopping, finished, first, entries, ticket, token, requests,
                       active, remaining, initiated, back, pending, main, terminated>>
    BY DEF FinishOperation, phaseVars, laneVars, tokenVars, reqVars
  <1>2. cur \in Ops /\ place[cur] = "completed" /\ back \in {"queue", "retire"}
    BY <1>0, <1>1 DEF CurInv, TypeOK
  <1>3. /\ place'[cur] = "retired" /\ \A p \in Ops : p # cur => place'[p] = place[p]
        /\ place \in [Ops -> {"new", "lane", "dropped", "popped", "queued", "flight", "completed", "retired"}]
    BY <1>0, <1>1, <1>2 DEF TypeOK
  <1>4. \A p \in Ops : \/ place'[p] = place[p]
                       \/ place[p] = "completed" /\ place'[p] = "retired"
    BY <1>2, <1>3
  <1>5. PhaseInv'
    BY <1>0, <1>1, <1>2 DEF PhaseInv
  <1>6. CurInv'
    BY <1>1, <1>2 DEF CurInv
  <1>7. CountInv'
    <2>1. Owned' = Owned \ {cur} /\ cur \in Owned
      BY <1>2, <1>3 DEF Owned
    <2>2. Cardinality(Owned \ {cur}) = Cardinality(Owned) - 1
      BY <2>1, OwnedFinite, FS_RemoveElement
    <2> QED
      BY <1>0, <1>1, <2>1, <2>2 DEF CountInv
  <1>8. QueueInv'
    <2>1. \A i \in 1 .. Len(queue) : queue[i] \in Ops /\ place[queue[i]] = "queued"
      BY <1>0, SequenceElements DEF QueueInv
    <2>2. \A i \in 1 .. Len(queue) : place'[queue[i]] = "queued"
      BY <1>4, <2>1
    <2> QED
      BY <1>0, <1>1, <2>2 DEF QueueInv
  <1>9. TableInv'
    <2>1. Retiring' <=> Retiring
      BY <1>1, <1>2 DEF Retiring
    <2> QED
      BY <1>0, <1>1, <2>1 DEF TableInv
  <1>10. GroupInv'
    <2>1. \A p : Living(p)' = Living(p) /\ Reported(p)' = Reported(p)
      BY <1>1, TableUnchanged
    <2>2. \A p \in Ops : remaining[p] # 0 => place'[p] = "flight"
      BY <1>0, <1>4 DEF GroupInv
    <2> QED
      BY <1>0, <1>1, <2>1, <2>2 DEF GroupInv
  <1>11. LaneInv'
    BY <1>0, <1>1, <1>4, LaneFrame
  <1>12. TokenInv'
    BY <1>0, <1>1 DEF TokenInv
  <1>13. DrainedInv'
    BY <1>0, <1>1, <1>4, MpiConstants DEF DrainedInv, MpiConstants
  <1>14. OrderInv'
    <2>1. \A p, q : Before(p, q)' <=> Before(p, q)
      BY <1>1 DEF Before
    <2>2. \A i \in 1 .. Len(initiated) : place'[initiated[i]] \in {"flight", "completed", "retired"}
      BY <1>0, <1>4, SequenceElements DEF OrderInv
    <2>3. owner' # "start" /\ owner' # "collective"
      BY <1>1, <1>2
    <2> QED
      BY <1>0, <1>1, <2>1, <2>2, <2>3 DEF OrderInv
  <1> QED
    BY <1>5, <1>6, <1>7, <1>8, <1>9, <1>10, <1>11, <1>12, <1>13, <1>14 DEF IInv

(* popReady of a ready lane.                                               *)
LEMMA PopCollectiveStep == ASSUME IInv, TypeOK', PopCollective PROVE IInv'
  <1>0. /\ TypeOK /\ PhaseInv /\ CurInv /\ CountInv /\ QueueInv /\ TableInv /\ GroupInv
        /\ LaneInv /\ TokenInv /\ DrainedInv /\ OrderInv
    BY DEF IInv
  <1>1. PICK c \in Comms :
          /\ laneReady(c)
          /\ entries' = [entries EXCEPT ![c] = Tail(@)]
          /\ first' = [first EXCEPT ![c] = @ + 1]
          /\ cur' = Head(entries[c]).start
          /\ place' = [place EXCEPT ![Head(entries[c]).op] =
                          IF Head(entries[c]).start = None THEN "dropped" ELSE "popped"]
          /\ owner' = IF Head(entries[c]).start = None THEN "lanes" ELSE "collective"
    BY DEF PopCollective
  <1>2. /\ owner = "lanes" /\ outstanding' = outstanding - 1
        /\ UNCHANGED <<queue, accepting, stopping, finished, ticket, token, requests, active, remaining,
                       initiated, back, pending, main, terminated>>
    BY DEF PopCollective, phaseVars, tokenVars, reqVars
  <1> DEFINE e == Head(entries[c])
             k == e.op
  <1>3. entries[c] # <<>> /\ e.state # "reserved"
    BY <1>1 DEF laneReady
  <1>4. /\ e = entries[c][1] /\ 1 \in 1 .. Len(entries[c]) /\ e \in Entry /\ k \in Managed /\ k \in Ops
        /\ place[k] = "lane" /\ CommOf[k] = c /\ ticket[k] = first[c]
        /\ e.start = IF e.state = "committed" THEN k ELSE None
    BY <1>0, <1>3, HeadEntry
  <1>5. /\ cur' = e.start /\ owner' = IF e.start = None THEN "lanes" ELSE "collective"
        /\ place' = [place EXCEPT ![k] = IF e.start = None THEN "dropped" ELSE "popped"]
    BY <1>1
  <1>6. /\ first'[c] = first[c] + 1 /\ first[c] \in Nat
        /\ \A d \in Comms : d # c => first'[d] = first[d] /\ entries'[d] = entries[d]
        /\ entries'[c] = Tail(entries[c])
    <2>1. first \in [Comms -> Nat] /\ entries \in [Comms -> Seq(Entry)]
      BY <1>0 DEF TypeOK
    <2> QED
      BY <1>1, <2>1
  <1>7. /\ Len(entries[c]) \in Nat \ {0} /\ Len(entries'[c]) = Len(entries[c]) - 1
        /\ \A i \in 1 .. Len(entries'[c]) : /\ entries'[c][i] = entries[c][i + 1]
                                           /\ i + 1 \in 1 .. Len(entries[c])
    <2>1. entries[c] \in Seq(Entry)
      BY <1>0 DEF TypeOK
    <2> QED
      BY <1>3, <1>6, <2>1, HeadTailProperties, EmptySeq
  <1> HIDE DEF e, k
  <1>8. /\ place'[k] = IF e.start = None THEN "dropped" ELSE "popped"
        /\ \A p \in Ops : p # k => place'[p] = place[p]
        /\ place \in [Ops -> {"new", "lane", "dropped", "popped", "queued", "flight", "completed", "retired"}]
    BY <1>0, <1>4, <1>5 DEF TypeOK
  <1>9. \A p \in Ops : place[p] # "lane" => place'[p] = place[p]
    BY <1>4, <1>8
  <1>10. None \notin Ops /\ Managed \subseteq Ops
    BY MpiConstants DEF MpiConstants
  <1>11. PhaseInv'
    BY <1>0, <1>2, <1>5 DEF PhaseInv
  <1>12. CurInv'
    BY <1>4, <1>5, <1>8, <1>10 DEF CurInv
  <1>13. CountInv'
    <2>1. Owned' = Owned \ {k} /\ k \in Owned
      BY <1>4, <1>8 DEF Owned
    <2>2. Cardinality(Owned \ {k}) = Cardinality(Owned) - 1
      BY <2>1, OwnedFinite, FS_RemoveElement
    <2> QED
      BY <1>0, <1>2, <2>1, <2>2 DEF CountInv
  <1>14. QueueInv'
    <2>1. \A i \in 1 .. Len(queue) : queue[i] \in Ops /\ place[queue[i]] = "queued"
      BY <1>0, SequenceElements DEF QueueInv
    <2>2. \A i \in 1 .. Len(queue) : place'[queue[i]] = "queued"
      BY <1>9, <2>1
    <2> QED
      BY <1>0, <1>2, <2>2 DEF QueueInv
  <1>15. TableInv'
    <2>1. ~Retiring /\ ~Retiring'
      BY <1>2, <1>5 DEF Retiring
    <2> QED
      BY <1>0, <1>2, <2>1 DEF TableInv
  <1>16. GroupInv'
    <2>1. \A p : Living(p)' = Living(p) /\ Reported(p)' = Reported(p)
      BY <1>2, TableUnchanged
    <2>2. \A p \in Ops : remaining[p] # 0 => place'[p] = "flight"
      BY <1>0, <1>9 DEF GroupInv
    <2> QED
      BY <1>0, <1>2, <2>1, <2>2 DEF GroupInv
  <1>17. LaneInv'
    <2>1. \A d \in Comms : \A i \in 1 .. Len(entries[d]) :
            entries[d][i].op \in Managed /\ entries[d][i].op \in Ops
      BY <1>0, <1>10, SequenceElements DEF Entry
    <2>2. \A d \in Comms : first[d] \in Nat /\ Len(entries[d]) \in Nat
      BY <1>0, SequenceElements DEF TypeOK
    <2>3. ASSUME NEW d \in Comms, d # c, NEW i \in 1 .. Len(entries'[d])
          PROVE  LET f == entries'[d][i] IN
                 /\ CommOf[f.op] = d /\ place'[f.op] = "lane" /\ ticket'[f.op] = first'[d] + i - 1
                 /\ f.start = IF f.state = "committed" THEN f.op ELSE None
      <3>1. entries'[d][i] = entries[d][i] /\ i \in 1 .. Len(entries[d]) /\ first'[d] = first[d]
        BY <1>6, <2>3
      <3>2. CommOf[entries[d][i].op] = d /\ entries[d][i].op # k
        BY <1>0, <1>4, <2>3, <3>1 DEF LaneInv
      <3> QED
        BY <1>0, <1>2, <1>8, <2>1, <3>1, <3>2 DEF LaneInv
    <2>4. ASSUME NEW i \in 1 .. Len(entries'[c])
          PROVE  LET f == entries'[c][i] IN
                 /\ CommOf[f.op] = c /\ place'[f.op] = "lane" /\ ticket'[f.op] = first'[c] + i - 1
                 /\ f.start = IF f.state = "committed" THEN f.op ELSE None
      <3>1. entries'[c][i] = entries[c][i + 1] /\ i + 1 \in 1 .. Len(entries[c]) /\ i \in Nat \ {0}
        BY <1>7
      <3> DEFINE f == entries[c][i + 1]
      <3>2. /\ CommOf[f.op] = c /\ place[f.op] = "lane" /\ ticket[f.op] = first[c] + (i + 1) - 1
            /\ f.start = IF f.state = "committed" THEN f.op ELSE None
        BY <1>0, <3>1 DEF LaneInv
      <3>3. f.op \in Ops
        BY <2>1, <3>1
      <3> HIDE DEF f
      <3>4. ticket[f.op] = first[c] + i /\ ticket[f.op] # ticket[k]
        BY <1>4, <1>6, <3>1, <3>2
      <3>5. f.op # k
        BY <3>4
      <3>6. place'[f.op] = "lane" /\ ticket'[f.op] = first'[c] + i - 1
        BY <1>2, <1>6, <1>8, <3>1, <3>2, <3>3, <3>4, <3>5
      <3> QED
        BY <3>1, <3>2, <3>6 DEF f
    <2>5. ASSUME NEW q \in Managed, place'[q] = "lane"
          PROVE  \E i \in 1 .. Len(entries'[CommOf[q]]) : entries'[CommOf[q]][i].op = q
      <3>1. q # k /\ place[q] = "lane" /\ CommOf[q] \in Comms
        BY <1>8, <1>10, <2>5, MpiConstants DEF MpiConstants
      <3>2. PICK i \in 1 .. Len(entries[CommOf[q]]) : entries[CommOf[q]][i].op = q
        BY <1>0, <3>1 DEF LaneInv
      <3>3. CASE CommOf[q] # c
        BY <1>6, <3>1, <3>2, <3>3
      <3>4. CASE CommOf[q] = c
        <4>1. i # 1 /\ i \in Nat
          BY <1>4, <3>1, <3>2, <3>4 DEF k
        <4>2. i - 1 \in 1 .. Len(entries'[c]) /\ (i - 1) + 1 = i
          BY <1>7, <3>2, <3>4, <4>1
        <4>3. entries'[c][i - 1] = entries[c][i]
          BY <1>7, <4>2
        <4> QED
          BY <3>2, <3>4, <4>2, <4>3
      <3> QED
        BY <3>3, <3>4
    <2>6. ASSUME NEW q \in Managed
          PROVE  /\ place'[q] \notin {"new", "lane"} => ticket'[q] < first'[CommOf[q]]
                 /\ token'[q] = "none" <=> place'[q] = "new"
      <3>1. q \in Ops /\ CommOf[q] \in Comms /\ ticket[q] \in Nat
        BY <1>0, MpiConstants DEF MpiConstants, TypeOK
      <3>2. CASE q = k
        BY <1>0, <1>2, <1>4, <1>6, <1>8, <2>2, <3>1, <3>2 DEF LaneInv
      <3>3. CASE q # k
        <4>1. place'[q] = place[q]
          BY <1>8, <3>1, <3>3
        <4>2. first[CommOf[q]] <= first'[CommOf[q]] /\ first[CommOf[q]] \in Int /\ first'[CommOf[q]] \in Int
          BY <1>6, <2>2, <3>1
        <4>3. /\ place[q] \notin {"new", "lane"} => ticket[q] < first[CommOf[q]]
              /\ token[q] = "none" <=> place[q] = "new"
          BY <1>0 DEF LaneInv
        <4> QED
          BY <1>2, <3>1, <4>1, <4>2, <4>3
      <3> QED
        BY <3>2, <3>3
    <2>7. \A p \in Ops : place'[p] \in {"lane", "dropped", "popped"} => p \in Managed
      BY <1>0, <1>4, <1>8 DEF LaneInv
    <2>8. \A d \in Comms : \A i \in 1 .. Len(entries'[d]) :
            LET f == entries'[d][i] IN
            /\ CommOf[f.op] = d /\ place'[f.op] = "lane" /\ ticket'[f.op] = first'[d] + i - 1
            /\ f.start = IF f.state = "committed" THEN f.op ELSE None
      BY <2>3, <2>4
    <2> QED
      BY <2>5, <2>6, <2>7, <2>8 DEF LaneInv
  <1>18. TokenInv'
    <2> SUFFICES ASSUME accepting, NEW q \in Managed, token[q] \in {"sender", "running"}
                 PROVE  \E i \in 1 .. Len(entries'[CommOf[q]]) :
                          entries'[CommOf[q]][i].op = q /\ entries'[CommOf[q]][i].state = "reserved"
      BY <1>2 DEF TokenInv
    <2>1. CommOf[q] \in Comms
      BY MpiConstants DEF MpiConstants
    <2>2. PICK i \in 1 .. Len(entries[CommOf[q]]) :
            entries[CommOf[q]][i].op = q /\ entries[CommOf[q]][i].state = "reserved"
      BY <1>0 DEF TokenInv
    <2>3. CASE CommOf[q] # c
      BY <1>6, <2>1, <2>2, <2>3
    <2>4. CASE CommOf[q] = c
      <3>1. i # 1 /\ i \in Nat
        BY <1>3, <1>4, <2>2, <2>4 DEF e
      <3>2. i - 1 \in 1 .. Len(entries'[c]) /\ (i - 1) + 1 = i
        BY <1>7, <2>2, <2>4, <3>1
      <3>3. entries'[c][i - 1] = entries[c][i]
        BY <1>7, <3>2
      <3> QED
        BY <2>2, <2>4, <3>2, <3>3
    <2> QED
      BY <2>3, <2>4
  <1>19. DrainedInv'
    <2>1. CASE ~Drained \/ accepting
      BY <1>0, <1>2, <2>1 DEF DrainedInv
    <2>2. CASE Drained /\ ~accepting
      <3>1. /\ ~terminated /\ \A q \in Managed : token[q] # "running" /\ place[q] # "popped"
            /\ \A d \in Comms : \A i \in 1 .. Len(entries[d]) : entries[d][i].state # "committed"
        BY <1>0, <2>2 DEF DrainedInv
      <3>2. e.start = None /\ place'[k] = "dropped"
        BY <1>4, <1>8, <3>1
      <3>3. \A q \in Managed : place'[q] # "popped"
        BY <1>8, <1>10, <3>1, <3>2
      <3>4. \A d \in Comms : \A i \in 1 .. Len(entries'[d]) : entries'[d][i].state # "committed"
        <4> SUFFICES ASSUME NEW d \in Comms, NEW i \in 1 .. Len(entries'[d])
                     PROVE  entries'[d][i].state # "committed"
          OBVIOUS
        <4>1. CASE d = c
          BY <1>7, <3>1, <4>1
        <4>2. CASE d # c
          BY <1>6, <3>1, <4>2
        <4> QED
          BY <4>1, <4>2
      <3> QED
        BY <1>2, <3>1, <3>3, <3>4 DEF DrainedInv
    <2> QED
      BY <2>1, <2>2
  <1>20. OrderInv'
    <2>1. \A p, q : Before(p, q)' <=> Before(p, q)
      BY <1>2 DEF Before
    <2>2. \A i \in 1 .. Len(initiated) : place'[initiated[i]] \in {"flight", "completed", "retired"}
      <3>1. \A i \in 1 .. Len(initiated) : /\ initiated[i] \in Ops
                                          /\ place[initiated[i]] \in {"flight", "completed", "retired"}
        BY <1>0, SequenceElements DEF OrderInv
      <3> QED
        BY <1>9, <3>1
    <2>3. \A p \in Ops : place[p] \notin {"new", "lane"} => Before(p, k)
      BY <1>0, <1>4 DEF LaneInv, Before
    <2>4. \A i \in 1 .. Len(initiated) : Before(initiated[i], k)
      <3>1. \A i \in 1 .. Len(initiated) : initiated[i] \in Ops /\ place[initiated[i]] \notin {"new", "lane"}
        BY <1>0, SequenceElements DEF OrderInv
      <3> QED
        BY <2>3, <3>1
    <2>5. \A j \in 1 .. Len(queue) : Before(queue[j], k)
      <3>1. \A j \in 1 .. Len(queue) : queue[j] \in Ops /\ place[queue[j]] \notin {"new", "lane"}
        BY <1>0, SequenceElements DEF QueueInv
      <3> QED
        BY <2>3, <3>1
    <2>6. owner' # "start" /\ (owner' = "collective" => cur' = k)
      BY <1>4, <1>5
    <2> QED
      BY <1>0, <1>2, <2>1, <2>2, <2>4, <2>5, <2>6 DEF OrderInv
  <1> QED
    BY <1>11, <1>12, <1>13, <1>14, <1>15, <1>16, <1>17, <1>18, <1>19, <1>20 DEF IInv

(* The start function of a committed entry submits its successor.          *)
LEMMA StartCollectiveStep == ASSUME IInv, TypeOK', StartCollective PROVE IInv'
  <1>0. /\ TypeOK /\ PhaseInv /\ CurInv /\ CountInv /\ QueueInv /\ TableInv /\ GroupInv
        /\ LaneInv /\ TokenInv /\ DrainedInv /\ OrderInv
    BY DEF IInv
  <1>1. /\ owner = "collective" /\ owner' = "lanes" /\ cur' = None
        /\ UNCHANGED <<accepting, stopping, finished, first, entries, ticket, token, requests, active,
                       remaining, initiated, back, pending, main>>
    BY DEF StartCollective, phaseVars, laneVars, tokenVars, reqVars
  <1>2. cur \in Managed /\ cur \in Ops /\ place[cur] = "popped"
    BY <1>0, <1>1, MpiConstants DEF CurInv, MpiConstants
  <1>3. PhaseInv'
    BY <1>0, <1>1 DEF PhaseInv
  <1>4. CurInv'
    BY <1>1 DEF CurInv
  <1>5. TableInv'
    <2>1. ~Retiring /\ ~Retiring'
      BY <1>1 DEF Retiring
    <2> QED
      BY <1>0, <1>1, <2>1 DEF TableInv
  <1>6. TokenInv'
    BY <1>0, <1>1 DEF TokenInv
  <1>7. \A p : Living(p)' = Living(p) /\ Reported(p)' = Reported(p)
    BY <1>1, TableUnchanged
  <1>8. \A p, q : Before(p, q)' <=> Before(p, q)
    BY <1>1 DEF Before
  <1>9. CASE accepting
    <2>1. /\ queue' = Append(queue, cur) /\ outstanding' = outstanding + 1
          /\ place' = [place EXCEPT ![cur] = "queued"]
      BY <1>9 DEF StartCollective, submit
    <2>2. terminated' = terminated
      BY <1>0, <1>9 DEF StartCollective, submit, TypeOK
    <2>3. /\ place'[cur] = "queued" /\ \A p \in Ops : p # cur => place'[p] = place[p]
          /\ place \in [Ops -> {"new", "lane", "dropped", "popped", "queued", "flight", "completed", "retired"}]
      BY <1>0, <1>2, <2>1 DEF TypeOK
    <2>4. \A p \in Ops : \/ place'[p] = place[p]
                         \/ place[p] = "popped" /\ place'[p] = "queued"
      BY <1>2, <2>3
    <2>5. /\ Len(queue') = Len(queue) + 1 /\ Len(queue) \in Nat
          /\ \A i \in 1 .. Len(queue) : queue'[i] = queue[i] /\ queue[i] \in Ops
          /\ queue'[Len(queue) + 1] = cur
          /\ \A i \in 1 .. Len(queue') : i \in 1 .. Len(queue) \/ i = Len(queue) + 1
      <3>1. queue \in Seq(Ops)
        BY <1>0 DEF TypeOK
      <3>2. /\ Len(queue') = Len(queue) + 1 /\ Len(queue) \in Nat
            /\ \A i \in 1 .. Len(queue) : queue'[i] = queue[i] /\ queue[i] \in Ops
            /\ queue'[Len(queue) + 1] = cur
        BY <1>0, <1>2, <2>1, <3>1, AppendProperties, SequenceElements
      <3> QED
        BY <3>2
    <2>6. CountInv'
      <3>1. Owned' = Owned \cup {cur} /\ cur \notin Owned
        BY <1>2, <2>3 DEF Owned
      <3> QED
        BY <1>0, <2>1, <3>1, OwnedFinite, FS_AddElement DEF CountInv
    <2>7. QueueInv'
      <3>1. \A i \in 1 .. Len(queue) : place[queue[i]] = "queued" /\ queue[i] # cur
        BY <1>0, <1>2 DEF QueueInv
      <3>2. \A i \in 1 .. Len(queue') : place'[queue'[i]] = "queued"
        BY <2>3, <2>5, <3>1
      <3>3. \A i, j \in 1 .. Len(queue') : queue'[i] = queue'[j] => i = j
        BY <1>0, <2>5, <3>1 DEF QueueInv
      <3> QED
        BY <3>2, <3>3 DEF QueueInv
    <2>8. GroupInv'
      <3>1. \A p \in Ops : remaining[p] # 0 => place'[p] = "flight"
        BY <1>0, <2>4 DEF GroupInv
      <3> QED
        BY <1>0, <1>1, <1>7, <3>1 DEF GroupInv
    <2>9. LaneInv'
      BY <1>0, <1>1, <2>4, LaneFrame
    <2>10. DrainedInv'
      BY <1>0, <1>1, <1>9, <2>2 DEF DrainedInv
    <2>11. OrderInv'
      <3>1. \A i \in 1 .. Len(initiated) : place'[initiated[i]] \in {"flight", "completed", "retired"}
        BY <1>0, <2>4, SequenceElements DEF OrderInv
      <3>2. \A i \in 1 .. Len(initiated), j \in 1 .. Len(queue') : Before(initiated[i], queue'[j])
        BY <1>0, <1>1, <2>5 DEF OrderInv
      <3>3. \A i, j \in 1 .. Len(queue') : i < j => Before(queue'[i], queue'[j])
        <4> SUFFICES ASSUME NEW i \in 1 .. Len(queue'), NEW j \in 1 .. Len(queue'), i < j
                     PROVE  Before(queue'[i], queue'[j])
          OBVIOUS
        <4>1. i \in 1 .. Len(queue)
          BY <2>5
        <4>2. CASE j \in 1 .. Len(queue)
          BY <1>0, <2>5, <4>1, <4>2 DEF OrderInv
        <4>3. CASE j = Len(queue) + 1
          BY <1>0, <1>1, <2>5, <4>1, <4>3 DEF OrderInv
        <4> QED
          BY <2>5, <4>2, <4>3
      <3> QED
        BY <1>0, <1>1, <1>8, <3>1, <3>2, <3>3 DEF OrderInv
    <2> QED
      BY <1>3, <1>4, <1>5, <1>6, <2>6, <2>7, <2>8, <2>9, <2>10, <2>11 DEF IInv
  <1>10. CASE ~accepting
    <2>1. UNCHANGED <<queue, outstanding>> /\ place' = [place EXCEPT ![cur] = @]
      BY <1>10 DEF StartCollective, submit
    <2>2. place' = place
      BY <1>0, <2>1 DEF TypeOK
    <2>3. ~Drained
      BY <1>0, <1>2, <1>10 DEF DrainedInv
    <2>4. CountInv'
      BY <1>0, <2>1, <2>2 DEF CountInv, Owned
    <2>5. QueueInv'
      BY <1>0, <2>1, <2>2 DEF QueueInv
    <2>6. GroupInv'
      BY <1>0, <1>1, <1>7, <2>2 DEF GroupInv
    <2>7. LaneInv'
      BY <1>0, <1>1, <2>2, LaneFrame
    <2>8. DrainedInv'
      BY <2>3 DEF DrainedInv
    <2>9. OrderInv'
      BY <1>0, <1>1, <1>8, <2>1, <2>2 DEF OrderInv
    <2> QED
      BY <1>3, <1>4, <1>5, <1>6, <2>4, <2>5, <2>6, <2>7, <2>8, <2>9 DEF IInv
  <1> QED
    BY <1>9, <1>10

(* CollectiveLane::submit reserves a ticket.                               *)
LEMMA ReserveStep == ASSUME IInv, TypeOK', NEW k \in Managed, Reserve(k) PROVE IInv'
  <1>0. /\ TypeOK /\ PhaseInv /\ CurInv /\ CountInv /\ QueueInv /\ TableInv /\ GroupInv
        /\ LaneInv /\ TokenInv /\ DrainedInv /\ OrderInv
    BY DEF IInv
  <1> DEFINE c == CommOf[k]
             e == [op |-> k, start |-> None, state |-> "reserved"]
  <1>1. /\ main = "app" /\ token[k] = "none" /\ accepting
        /\ ticket' = [ticket EXCEPT ![k] = first[c] + Len(entries[c])]
        /\ entries' = [entries EXCEPT ![c] = Append(@, e)]
        /\ outstanding' = outstanding + 1
        /\ token' = [token EXCEPT ![k] = "sender"]
        /\ place' = [place EXCEPT ![k] = "lane"]
        /\ UNCHANGED <<queue, accepting, stopping, finished, first, requests, active, remaining, initiated,
                       owner, cur, back, pending, main, terminated>>
    BY DEF Reserve, phaseVars, reqVars, ownerVars
  <1>2. /\ c \in Comms /\ k \in Ops /\ Managed \subseteq Ops
        /\ \A q \in Managed : CommOf[q] \in Comms
    BY MpiConstants DEF MpiConstants
  <1>3. e \in Entry /\ e.op = k /\ e.start = None /\ e.state = "reserved"
    BY DEF Entry
  <1> HIDE DEF c, e
  <1>4. place[k] = "new"
    BY <1>0, <1>1 DEF LaneInv
  <1>5. /\ place'[k] = "lane" /\ \A p \in Ops : p # k => place'[p] = place[p]
        /\ place \in [Ops -> {"new", "lane", "dropped", "popped", "queued", "flight", "completed", "retired"}]
    BY <1>0, <1>1, <1>2 DEF TypeOK
  <1>6. /\ ticket'[k] = first[c] + Len(entries[c]) /\ \A q \in Managed : q # k => ticket'[q] = ticket[q]
        /\ token'[k] = "sender" /\ \A q \in Managed : q # k => token'[q] = token[q]
    BY <1>0, <1>1, <1>2 DEF TypeOK
  <1>7. entries'[c] = Append(entries[c], e) /\ \A d \in Comms : d # c => entries'[d] = entries[d]
    <2>1. entries \in [Comms -> Seq(Entry)]
      BY <1>0 DEF TypeOK
    <2> QED
      BY <1>1, <1>2, <2>1
  <1>8. /\ Len(entries'[c]) = Len(entries[c]) + 1 /\ Len(entries[c]) \in Nat /\ first[c] \in Nat
        /\ \A i \in 1 .. Len(entries[c]) : entries'[c][i] = entries[c][i]
        /\ entries'[c][Len(entries[c]) + 1] = e
        /\ \A i \in 1 .. Len(entries'[c]) : i \in 1 .. Len(entries[c]) \/ i = Len(entries[c]) + 1
        /\ \A i \in 1 .. Len(entries[c]) : i \in 1 .. Len(entries'[c])
        /\ Len(entries[c]) + 1 \in 1 .. Len(entries'[c])
    <2>1. entries[c] \in Seq(Entry) /\ first[c] \in Nat /\ Len(entries[c]) \in Nat
      BY <1>0, <1>2 DEF TypeOK
    <2>2. /\ Len(entries'[c]) = Len(entries[c]) + 1
          /\ \A i \in 1 .. Len(entries[c]) : entries'[c][i] = entries[c][i]
          /\ entries'[c][Len(entries[c]) + 1] = e
      BY <1>3, <1>7, <2>1, AppendProperties
    <2> QED
      BY <2>1, <2>2
  <1>9. \A p, q \in Ops : p # k /\ q # k => (Before(p, q)' <=> Before(p, q))
    BY <1>6 DEF Before
  <1>10. PhaseInv'
    BY <1>0, <1>1 DEF PhaseInv
  <1>11. CurInv'
    BY <1>0, <1>1, <1>2, <1>4, <1>5 DEF CurInv
  <1>12. CountInv'
    <2>1. Owned' = Owned \cup {k} /\ k \notin Owned
      BY <1>2, <1>4, <1>5 DEF Owned
    <2> QED
      BY <1>0, <1>1, <2>1, OwnedFinite, FS_AddElement DEF CountInv
  <1>13. \A i \in 1 .. Len(queue) : queue[i] \in Ops /\ queue[i] # k /\ place[queue[i]] = "queued"
    BY <1>0, <1>4, SequenceElements DEF QueueInv
  <1>14. QueueInv'
    BY <1>0, <1>1, <1>5, <1>13 DEF QueueInv
  <1>15. TableInv'
    BY <1>0, <1>1 DEF TableInv, Retiring
  <1>16. GroupInv'
    <2>1. \A p : Living(p)' = Living(p) /\ Reported(p)' = Reported(p)
      BY <1>1, TableUnchanged
    <2>2. \A p \in Ops : remaining[p] # 0 => place'[p] = "flight"
      BY <1>0, <1>4, <1>5 DEF GroupInv
    <2> QED
      BY <1>0, <1>1, <2>1, <2>2 DEF GroupInv
  <1>17. LaneInv'
    <2>1. \A d \in Comms : \A i \in 1 .. Len(entries[d]) :
            /\ entries[d][i].op \in Managed /\ entries[d][i].op \in Ops /\ entries[d][i].op # k
      <3>1. \A d \in Comms : \A i \in 1 .. Len(entries[d]) : entries[d][i].op \in Managed
        BY <1>0, SequenceElements DEF Entry
      <3> QED
        BY <1>0, <1>2, <1>4, <3>1 DEF LaneInv
    <2>2. ASSUME NEW d \in Comms, NEW i \in 1 .. Len(entries[d])
          PROVE  LET f == entries[d][i] IN
                 /\ CommOf[f.op] = d /\ place'[f.op] = "lane" /\ ticket'[f.op] = first'[d] + i - 1
                 /\ f.start = IF f.state = "committed" THEN f.op ELSE None
      BY <1>0, <1>1, <1>5, <1>6, <2>1 DEF LaneInv
    <2>3. /\ CommOf[k] = c /\ place'[k] = "lane" /\ ticket'[k] = first'[c] + (Len(entries[c]) + 1) - 1
      BY <1>1, <1>5, <1>6, <1>8 DEF c
    <2>4. ASSUME NEW d \in Comms, NEW i \in 1 .. Len(entries'[d])
          PROVE  LET f == entries'[d][i] IN
                 /\ CommOf[f.op] = d /\ place'[f.op] = "lane" /\ ticket'[f.op] = first'[d] + i - 1
                 /\ f.start = IF f.state = "committed" THEN f.op ELSE None
      <3>1. CASE d # c
        BY <1>7, <2>2, <3>1
      <3>2. CASE d = c /\ i \in 1 .. Len(entries[c])
        BY <1>8, <2>2, <3>2, SMTT(30)
      <3>3. CASE d = c /\ i = Len(entries[c]) + 1
        BY <1>3, <1>8, <2>3, <3>3
      <3> QED
        BY <1>8, <3>1, <3>2, <3>3
    <2>5. ASSUME NEW q \in Managed, place'[q] = "lane"
          PROVE  \E i \in 1 .. Len(entries'[CommOf[q]]) : entries'[CommOf[q]][i].op = q
      <3>1. CASE q = k
        BY <1>3, <1>8, <3>1 DEF c
      <3>2. CASE q # k
        <4>1. place[q] = "lane" /\ CommOf[q] \in Comms
          BY <1>2, <1>5, <2>5, <3>2
        <4>2. PICK i \in 1 .. Len(entries[CommOf[q]]) : entries[CommOf[q]][i].op = q
          BY <1>0, <4>1 DEF LaneInv
        <4>3. CASE CommOf[q] = c
          BY <1>8, <4>2, <4>3
        <4>4. CASE CommOf[q] # c
          BY <1>7, <4>1, <4>2, <4>4
        <4> QED
          BY <4>3, <4>4
      <3> QED
        BY <3>1, <3>2
    <2>6. \A q \in Managed : /\ place'[q] \notin {"new", "lane"} => ticket'[q] < first'[CommOf[q]]
                             /\ token'[q] = "none" <=> place'[q] = "new"
      BY <1>0, <1>1, <1>2, <1>5, <1>6 DEF LaneInv
    <2>7. \A p \in Ops : place'[p] \in {"lane", "dropped", "popped"} => p \in Managed
      BY <1>0, <1>5 DEF LaneInv
    <2> QED
      BY <2>4, <2>5, <2>6, <2>7 DEF LaneInv
  <1>18. TokenInv'
    <2> SUFFICES ASSUME NEW q \in Managed, token'[q] \in {"sender", "running"}
                 PROVE  \E i \in 1 .. Len(entries'[CommOf[q]]) :
                          entries'[CommOf[q]][i].op = q /\ entries'[CommOf[q]][i].state = "reserved"
      BY DEF TokenInv
    <2>1. CASE q = k
      BY <1>3, <1>8, <2>1 DEF c
    <2>2. CASE q # k
      <3>1. token[q] \in {"sender", "running"} /\ CommOf[q] \in Comms
        BY <1>2, <1>6, <2>2
      <3>2. PICK i \in 1 .. Len(entries[CommOf[q]]) :
              entries[CommOf[q]][i].op = q /\ entries[CommOf[q]][i].state = "reserved"
        BY <1>0, <1>1, <3>1 DEF TokenInv
      <3>3. CASE CommOf[q] = c
        BY <1>8, <3>2, <3>3
      <3>4. CASE CommOf[q] # c
        BY <1>7, <3>1, <3>2, <3>4
      <3> QED
        BY <3>3, <3>4
    <2> QED
      BY <2>1, <2>2
  <1>19. DrainedInv'
    BY <1>0, <1>1 DEF DrainedInv
  <1>20. OrderInv'
    <2>1. \A i \in 1 .. Len(initiated) : /\ initiated[i] \in Ops /\ initiated[i] # k
                                        /\ place'[initiated[i]] \in {"flight", "completed", "retired"}
      <3>1. \A i \in 1 .. Len(initiated) : /\ initiated[i] \in Ops
                                          /\ place[initiated[i]] \in {"flight", "completed", "retired"}
        BY <1>0, SequenceElements DEF OrderInv
      <3> QED
        BY <1>4, <1>5, <3>1
    <2>2. owner \in {"start", "collective"} => cur \in Ops /\ cur # k
      BY <1>0, <1>2, <1>4 DEF CurInv
    <2>3. \A i, j \in 1 .. Len(initiated) : i < j => Before(initiated[i], initiated[j])'
      BY <1>0, <1>1, <1>9, <2>1 DEF OrderInv
    <2>4. \A i \in 1 .. Len(initiated), j \in 1 .. Len(queue) : Before(initiated[i], queue[j])'
      BY <1>0, <1>1, <1>9, <1>13, <2>1 DEF OrderInv
    <2>5. \A i, j \in 1 .. Len(queue) : i < j => Before(queue[i], queue[j])'
      BY <1>0, <1>1, <1>9, <1>13 DEF OrderInv
    <2>6. owner = "start" =>
            /\ \A i \in 1 .. Len(initiated) : Before(initiated[i], cur)'
            /\ \A j \in 1 .. Len(queue) : Before(cur, queue[j])'
      BY <1>0, <1>1, <1>9, <1>13, <2>1, <2>2 DEF OrderInv
    <2>7. owner = "collective" =>
            /\ \A i \in 1 .. Len(initiated) : Before(initiated[i], cur)'
            /\ \A j \in 1 .. Len(queue) : Before(queue[j], cur)'
      BY <1>0, <1>1, <1>9, <1>13, <2>1, <2>2 DEF OrderInv
    <2> QED
      BY <1>1, <2>1, <2>3, <2>4, <2>5, <2>6, <2>7 DEF OrderInv
  <1> QED
    BY <1>10, <1>11, <1>12, <1>14, <1>15, <1>16, <1>17, <1>18, <1>19, <1>20 DEF IInv

(* A collective's predecessor starts.                                      *)
LEMMA StartPredecessorStep ==
  ASSUME IInv, TypeOK', NEW k \in Managed, StartPredecessor(k)
  PROVE  IInv'
  <1>0. /\ TypeOK /\ PhaseInv /\ CurInv /\ CountInv /\ QueueInv /\ TableInv /\ GroupInv
        /\ LaneInv /\ TokenInv /\ DrainedInv /\ OrderInv
    BY DEF IInv
  <1>1. /\ main = "app" /\ token[k] = "sender" /\ token' = [token EXCEPT ![k] = "running"]
        /\ UNCHANGED <<queue, outstanding, accepting, stopping, first, entries, ticket, requests, active,
                       remaining, place, initiated, owner, cur, back, pending, main, terminated>>
    BY DEF StartPredecessor, queueVars, phaseVars, laneVars, reqVars, ownerVars
  <1>2. accepting
    BY <1>0, <1>1 DEF PhaseInv
  <1>3. token'[k] = "running" /\ \A q \in Managed : q # k => token'[q] = token[q]
    BY <1>0, <1>1 DEF TypeOK
  <1>4. PhaseInv'
    BY <1>0, <1>1 DEF PhaseInv
  <1>5. CurInv'
    BY <1>0, <1>1 DEF CurInv
  <1>6. CountInv'
    BY <1>0, <1>1 DEF CountInv, Owned
  <1>7. QueueInv'
    BY <1>0, <1>1 DEF QueueInv
  <1>8. TableInv'
    BY <1>0, <1>1 DEF TableInv, Retiring
  <1>9. GroupInv'
    <2>1. \A p : Living(p)' = Living(p) /\ Reported(p)' = Reported(p)
      BY <1>1, TableUnchanged
    <2> QED
      BY <1>0, <1>1, <2>1 DEF GroupInv
  <1>10. LaneInv'
    <2>1. \A q \in Managed : token'[q] = "none" <=> place[q] = "new"
      BY <1>0, <1>1, <1>3 DEF LaneInv
    <2> QED
      BY <1>0, <1>1, <2>1 DEF LaneInv
  <1>11. TokenInv'
    <2>1. \A q \in Managed : token'[q] \in {"sender", "running"} => token[q] \in {"sender", "running"}
      BY <1>1, <1>3
    <2> QED
      BY <1>0, <1>1, <2>1 DEF TokenInv
  <1>12. DrainedInv'
    BY <1>0, <1>1, <1>2 DEF DrainedInv
  <1>13. OrderInv'
    <2>1. \A p, q : Before(p, q)' <=> Before(p, q)
      BY <1>1 DEF Before
    <2> QED
      BY <1>0, <1>1, <2>1 DEF OrderInv
  <1> QED
    BY <1>4, <1>5, <1>6, <1>7, <1>8, <1>9, <1>10, <1>11, <1>12, <1>13 DEF IInv

(* A ticket that has not been retired finds the entry of its operation, a  *)
(* retired one finds nothing.                                              *)
LEMMA FindOwn ==
  ASSUME TypeOK, LaneInv, NEW k \in Managed, token[k] # "none"
  PROVE  LET c == CommOf[k]
             i == find(c, ticket[k])
         IN  /\ i # 0 => i \in 1 .. Len(entries[c]) /\ entries[c][i].op = k
             /\ i # 0 <=> place[k] = "lane"
             /\ \A j \in 1 .. Len(entries[c]) : entries[c][j].op = k => i = j
  <1> DEFINE c == CommOf[k]
             i == find(c, ticket[k])
  <1>1. c \in Comms /\ k \in Ops
    BY MpiConstants DEF MpiConstants
  <1>2. first[c] \in Nat /\ ticket[k] \in Nat /\ Len(entries[c]) \in Nat /\ place[k] # "new"
    BY <1>1, SequenceElements DEF TypeOK, LaneInv
  <1>3. i = IF ticket[k] < first[c] \/ ticket[k] - first[c] >= Len(entries[c])
            THEN 0 ELSE ticket[k] - first[c] + 1
    BY DEF find
  <1>4. ASSUME NEW j \in 1 .. Len(entries[c]), entries[c][j].op = k
        PROVE  i = j /\ place[k] = "lane"
    <2>1. ticket[k] = first[c] + j - 1 /\ place[k] = "lane" /\ j \in Nat \ {0}
      BY <1>1, <1>2, <1>4 DEF LaneInv
    <2> HIDE DEF c, i
    <2> QED
      BY <1>2, <1>3, <2>1
  <1>5. CASE place[k] = "lane"
    <2>1. PICK j \in 1 .. Len(entries[c]) : entries[c][j].op = k
      BY <1>5 DEF LaneInv
    <2>2. i = j /\ i # 0
      BY <1>2, <1>4, <2>1
    <2> HIDE DEF c, i
    <2>3. /\ i # 0 => i \in 1 .. Len(entries[c]) /\ entries[c][i].op = k
          /\ i # 0 <=> place[k] = "lane"
          /\ \A l \in 1 .. Len(entries[c]) : entries[c][l].op = k => i = l
      BY <1>4, <1>5, <2>1, <2>2
    <2> QED
      BY <2>3 DEF c, i
  <1>6. CASE place[k] # "lane"
    <2>1. ticket[k] < first[c]
      BY <1>2, <1>6 DEF LaneInv
    <2>2. i = 0
      BY <1>3, <2>1
    <2> HIDE DEF c, i
    <2>3. /\ i # 0 => i \in 1 .. Len(entries[c]) /\ entries[c][i].op = k
          /\ i # 0 <=> place[k] = "lane"
          /\ \A l \in 1 .. Len(entries[c]) : entries[c][l].op = k => i = l
      BY <1>4, <1>6, <2>2
    <2> QED
      BY <2>3 DEF c, i
  <1> QED
    BY <1>5, <1>6

(* ManagedCollectiveLane::skip commits nothing and keeps the owner.        *)
LEMMA SkippedEntry ==
  ASSUME NEW e \in Entry
  PROVE  /\ skipped(e).op = e.op /\ skipped(e).start = e.start
         /\ skipped(e).state = IF e.state = "reserved" THEN "skipped" ELSE e.state
  BY DEF skipped, Entry

(* A step that only settles entries keeps everything but the phase and the *)
(* tokens.                                                                 *)
LEMMA EntriesStep ==
  ASSUME IInv,
         UNCHANGED <<queue, outstanding, first, ticket, requests, active, remaining, place, initiated,
                     owner, cur, back, pending>>,
         \A q \in Managed : token'[q] = "none" <=> token[q] = "none",
         \A d \in Comms : /\ Len(entries'[d]) = Len(entries[d])
                          /\ \A i \in 1 .. Len(entries[d]) :
                                /\ entries'[d][i].op = entries[d][i].op
                                /\ entries'[d][i].start = IF entries'[d][i].state = "committed"
                                                          THEN entries[d][i].op ELSE None
  PROVE  (CurInv /\ CountInv /\ QueueInv /\ TableInv /\ GroupInv /\ LaneInv /\ OrderInv)'
  <1>0. /\ TypeOK /\ PhaseInv /\ CurInv /\ CountInv /\ QueueInv /\ TableInv /\ GroupInv
        /\ LaneInv /\ TokenInv /\ DrainedInv /\ OrderInv
    BY DEF IInv
  <1>1. CurInv'
    BY <1>0 DEF CurInv
  <1>2. CountInv'
    BY <1>0 DEF CountInv, Owned
  <1>3. QueueInv'
    BY <1>0 DEF QueueInv
  <1>4. TableInv'
    BY <1>0 DEF TableInv, Retiring
  <1>5. GroupInv'
    <2>1. \A p : Living(p)' = Living(p) /\ Reported(p)' = Reported(p)
      BY TableUnchanged
    <2> QED
      BY <1>0, <2>1 DEF GroupInv
  <1>6. LaneInv'
    <2>1. \A d \in Comms : \A i \in 1 .. Len(entries'[d]) :
            LET f == entries'[d][i] IN
            /\ CommOf[f.op] = d /\ place'[f.op] = "lane" /\ ticket'[f.op] = first'[d] + i - 1
            /\ f.start = IF f.state = "committed" THEN f.op ELSE None
      BY <1>0 DEF LaneInv
    <2>2. ASSUME NEW q \in Managed, place'[q] = "lane"
          PROVE  \E i \in 1 .. Len(entries'[CommOf[q]]) : entries'[CommOf[q]][i].op = q
      <3>1. CommOf[q] \in Comms
        BY MpiConstants DEF MpiConstants
      <3>2. PICK i \in 1 .. Len(entries[CommOf[q]]) : entries[CommOf[q]][i].op = q
        BY <1>0, <2>2 DEF LaneInv
      <3> QED
        BY <3>1, <3>2
    <2>3. \A q \in Managed : /\ place'[q] \notin {"new", "lane"} => ticket'[q] < first'[CommOf[q]]
                             /\ token'[q] = "none" <=> place'[q] = "new"
      BY <1>0 DEF LaneInv
    <2>4. \A p \in Ops : place'[p] \in {"lane", "dropped", "popped"} => p \in Managed
      BY <1>0 DEF LaneInv
    <2> QED
      BY <2>1, <2>2, <2>3, <2>4 DEF LaneInv
  <1>7. OrderInv'
    <2>1. \A p, q : Before(p, q)' <=> Before(p, q)
      BY DEF Before
    <2> QED
      BY <1>0, <2>1 DEF OrderInv
  <1> QED
    BY <1>1, <1>2, <1>3, <1>4, <1>5, <1>6, <1>7

(* The predecessor completes and commits its entry.                        *)
LEMMA CommitStep == ASSUME IInv, TypeOK', NEW k \in Managed, Commit(k) PROVE IInv'
  <1>0. /\ TypeOK /\ PhaseInv /\ CurInv /\ CountInv /\ QueueInv /\ TableInv /\ GroupInv
        /\ LaneInv /\ TokenInv /\ DrainedInv /\ OrderInv
    BY DEF IInv
  <1> DEFINE c == CommOf[k]
             i == find(c, ticket[k])
             ok == i # 0 /\ entries[c][i].state = "reserved"
  <1>1. /\ token[k] = "running" /\ token' = [token EXCEPT ![k] = "released"]
        /\ entries' = IF ok THEN [entries EXCEPT ![c][i].state = "committed", ![c][i].start = k]
                      ELSE entries
        /\ terminated' = (terminated \/ ~ok)
        /\ UNCHANGED <<queue, outstanding, accepting, stopping, first, ticket, requests, active, remaining,
                       place, initiated, owner, cur, back, pending, main>>
    BY DEF Commit, queueVars, phaseVars, reqVars, ownerVars
  <1>2. c \in Comms /\ \A q \in Managed : CommOf[q] \in Comms
    BY MpiConstants DEF MpiConstants
  <1>3. /\ i # 0 => i \in 1 .. Len(entries[c]) /\ entries[c][i].op = k
        /\ \A j \in 1 .. Len(entries[c]) : entries[c][j].op = k => i = j
    BY <1>0, <1>1, FindOwn
  <1> HIDE DEF c, i
  <1>4. token'[k] = "released" /\ \A q \in Managed : q # k => token'[q] = token[q]
    BY <1>0, <1>1 DEF TypeOK
  <1>5. \A d \in Comms : /\ Len(entries'[d]) = Len(entries[d])
                         /\ \A j \in 1 .. Len(entries[d]) :
                              IF d = c /\ j = i /\ ok
                              THEN /\ entries'[d][j].op = entries[d][j].op
                                   /\ entries'[d][j].state = "committed" /\ entries'[d][j].start = k
                              ELSE entries'[d][j] = entries[d][j]
    <2>1. CASE ~ok
      BY <1>1, <2>1
    <2>2. CASE ok
      <3> DEFINE e == [entries[c][i] EXCEPT !.state = "committed", !.start = k]
      <3>1. entries \in [Comms -> Seq(Entry)] /\ entries[c] \in Seq(Entry) /\ i \in 1 .. Len(entries[c])
        BY <1>0, <1>2, <1>3, <2>2 DEF TypeOK
      <3>2. entries[c][i] \in Entry /\ i \in DOMAIN entries[c]
        BY <3>1, ElementOfSeq
      <3>3. e \in Entry /\ e.op = entries[c][i].op /\ e.state = "committed" /\ e.start = k
        BY <3>2 DEF Entry
      <3>4. entries' = [entries EXCEPT ![c] = [entries[c] EXCEPT ![i] = e]]
        BY <1>1, <1>2, <2>2, <3>1, <3>2
      <3>5. entries'[c] = [entries[c] EXCEPT ![i] = e] /\ \A d \in Comms : d # c => entries'[d] = entries[d]
        BY <1>2, <3>1, <3>4
      <3> HIDE DEF e
      <3>6. /\ Len(entries'[c]) = Len(entries[c])
            /\ \A j \in 1 .. Len(entries[c]) : entries'[c][j] = IF j = i THEN e ELSE entries[c][j]
        BY <3>1, <3>3, <3>5, ExceptSeq
      <3> QED
        BY <2>2, <3>3, <3>5, <3>6
    <2> QED
      BY <2>1, <2>2
  <1>6. (CurInv /\ CountInv /\ QueueInv /\ TableInv /\ GroupInv /\ LaneInv /\ OrderInv)'
    <2>1. \A q \in Managed : token'[q] = "none" <=> token[q] = "none"
      BY <1>1, <1>4
    <2>2. \A d \in Comms : \A j \in 1 .. Len(entries[d]) :
            /\ entries'[d][j].op = entries[d][j].op
            /\ entries'[d][j].start = IF entries'[d][j].state = "committed" THEN entries[d][j].op ELSE None
      BY <1>0, <1>3, <1>5 DEF LaneInv
    <2> QED
      BY <1>1, <1>5, <2>1, <2>2, EntriesStep
  <1>7. PhaseInv'
    BY <1>0, <1>1 DEF PhaseInv
  <1>8. TokenInv'
    <2> SUFFICES ASSUME accepting, NEW q \in Managed, token'[q] \in {"sender", "running"}
                 PROVE  \E j \in 1 .. Len(entries'[CommOf[q]]) :
                          entries'[CommOf[q]][j].op = q /\ entries'[CommOf[q]][j].state = "reserved"
      BY <1>1 DEF TokenInv
    <2>1. q # k /\ token[q] \in {"sender", "running"}
      BY <1>4
    <2>2. PICK j \in 1 .. Len(entries[CommOf[q]]) :
            entries[CommOf[q]][j].op = q /\ entries[CommOf[q]][j].state = "reserved"
      BY <1>0, <2>1 DEF TokenInv
    <2>3. ~(CommOf[q] = c /\ j = i /\ ok)
      BY <1>3, <2>1, <2>2
    <2>4. /\ Len(entries'[CommOf[q]]) = Len(entries[CommOf[q]])
          /\ entries'[CommOf[q]][j] = entries[CommOf[q]][j]
      BY <1>2, <1>5, <2>2, <2>3
    <2> QED
      BY <2>2, <2>4
  <1>9. DrainedInv'
    <2>1. CASE ~Drained
      BY <2>1 DEF DrainedInv
    <2>2. CASE Drained
      <3>1. ~terminated /\ accepting
        BY <1>0, <1>1, <2>2 DEF DrainedInv
      <3>2. PICK j \in 1 .. Len(entries[c]) : entries[c][j].op = k /\ entries[c][j].state = "reserved"
        BY <1>0, <1>1, <3>1 DEF TokenInv, c
      <3>3. i = j /\ i # 0
        BY <1>3, <3>2
      <3>4. ~terminated'
        BY <1>1, <3>1, <3>2, <3>3
      <3> QED
        BY <1>1, <3>1, <3>4 DEF DrainedInv
    <2> QED
      BY <2>1, <2>2
  <1> QED
    BY <1>6, <1>7, <1>8, <1>9 DEF IInv

(* The token of an operation that was never started is destroyed.          *)
LEMMA AbandonStep == ASSUME IInv, TypeOK', NEW k \in Managed, Abandon(k) PROVE IInv'
  <1>0. /\ TypeOK /\ PhaseInv /\ CurInv /\ CountInv /\ QueueInv /\ TableInv /\ GroupInv
        /\ LaneInv /\ TokenInv /\ DrainedInv /\ OrderInv
    BY DEF IInv
  <1> DEFINE c == CommOf[k]
             i == find(c, ticket[k])
  <1>1. /\ token[k] = "sender" /\ token' = [token EXCEPT ![k] = "released"]
        /\ entries' = IF i # 0 THEN [entries EXCEPT ![c][i] = skipped(@)] ELSE entries
        /\ UNCHANGED <<queue, outstanding, accepting, stopping, first, ticket, requests, active, remaining,
                       place, initiated, owner, cur, back, pending, main, terminated>>
    BY DEF Abandon, queueVars, phaseVars, reqVars, ownerVars
  <1>2. c \in Comms /\ \A q \in Managed : CommOf[q] \in Comms
    BY MpiConstants DEF MpiConstants
  <1>3. /\ i # 0 => i \in 1 .. Len(entries[c]) /\ entries[c][i].op = k
        /\ \A j \in 1 .. Len(entries[c]) : entries[c][j].op = k => i = j
    BY <1>0, <1>1, FindOwn
  <1> HIDE DEF c, i
  <1>4. token'[k] = "released" /\ \A q \in Managed : q # k => token'[q] = token[q]
    BY <1>0, <1>1 DEF TypeOK
  <1>5. \A d \in Comms : /\ Len(entries'[d]) = Len(entries[d])
                         /\ \A j \in 1 .. Len(entries[d]) :
                              entries'[d][j] = IF d = c /\ j = i /\ i # 0 THEN skipped(entries[d][j])
                                               ELSE entries[d][j]
    <2>1. CASE i = 0
      BY <1>1, <2>1
    <2>2. CASE i # 0
      <3> DEFINE e == skipped(entries[c][i])
      <3>1. entries \in [Comms -> Seq(Entry)] /\ entries[c] \in Seq(Entry) /\ i \in 1 .. Len(entries[c])
        BY <1>0, <1>2, <1>3, <2>2 DEF TypeOK
      <3>2. entries[c][i] \in Entry /\ i \in DOMAIN entries[c]
        BY <3>1, ElementOfSeq
      <3>3. e \in Entry
        BY <3>2 DEF Entry, skipped
      <3>4. entries' = [entries EXCEPT ![c] = [entries[c] EXCEPT ![i] = e]]
        BY <1>1, <1>2, <2>2, <3>1, <3>2
      <3>5. entries'[c] = [entries[c] EXCEPT ![i] = e] /\ \A d \in Comms : d # c => entries'[d] = entries[d]
        BY <1>2, <3>1, <3>4
      <3> HIDE DEF e
      <3>6. /\ Len(entries'[c]) = Len(entries[c])
            /\ \A j \in 1 .. Len(entries[c]) : entries'[c][j] = IF j = i THEN e ELSE entries[c][j]
        BY <3>1, <3>3, <3>5, ExceptSeq
      <3> QED
        BY <2>2, <3>5, <3>6 DEF e
    <2> QED
      BY <2>1, <2>2
  <1>6. (CurInv /\ CountInv /\ QueueInv /\ TableInv /\ GroupInv /\ LaneInv /\ OrderInv)'
    <2>1. \A q \in Managed : token'[q] = "none" <=> token[q] = "none"
      BY <1>1, <1>4
    <2>2. \A d \in Comms : \A j \in 1 .. Len(entries[d]) :
            /\ entries'[d][j].op = entries[d][j].op
            /\ entries'[d][j].start = IF entries'[d][j].state = "committed" THEN entries[d][j].op ELSE None
      <3> SUFFICES ASSUME NEW d \in Comms, NEW j \in 1 .. Len(entries[d])
                   PROVE  /\ entries'[d][j].op = entries[d][j].op
                          /\ entries'[d][j].start = IF entries'[d][j].state = "committed"
                                                    THEN entries[d][j].op ELSE None
        OBVIOUS
      <3>1. entries[d][j].start = IF entries[d][j].state = "committed" THEN entries[d][j].op ELSE None
        BY <1>0 DEF LaneInv
      <3>2. entries[d][j] \in Entry
        BY <1>0, SequenceElements
      <3>3. entries'[d][j] = entries[d][j] \/ entries'[d][j] = skipped(entries[d][j])
        BY <1>5
      <3> QED
        BY <3>1, <3>2, <3>3, SkippedEntry
    <2> QED
      BY <1>1, <1>5, <2>1, <2>2, EntriesStep
  <1>7. PhaseInv'
    BY <1>0, <1>1 DEF PhaseInv
  <1>8. TokenInv'
    <2> SUFFICES ASSUME accepting, NEW q \in Managed, token'[q] \in {"sender", "running"}
                 PROVE  \E j \in 1 .. Len(entries'[CommOf[q]]) :
                          entries'[CommOf[q]][j].op = q /\ entries'[CommOf[q]][j].state = "reserved"
      BY <1>1 DEF TokenInv
    <2>1. q # k /\ token[q] \in {"sender", "running"}
      BY <1>4
    <2>2. PICK j \in 1 .. Len(entries[CommOf[q]]) :
            entries[CommOf[q]][j].op = q /\ entries[CommOf[q]][j].state = "reserved"
      BY <1>0, <2>1 DEF TokenInv
    <2>3. ~(CommOf[q] = c /\ j = i /\ i # 0)
      BY <1>3, <2>1, <2>2
    <2>4. /\ Len(entries'[CommOf[q]]) = Len(entries[CommOf[q]])
          /\ entries'[CommOf[q]][j] = entries[CommOf[q]][j]
      BY <1>2, <1>5, <2>2, <2>3
    <2> QED
      BY <2>2, <2>4
  <1>9. DrainedInv'
    <2>1. \A q \in Managed : token'[q] = "running" => token[q] = "running"
      BY <1>4
    <2>2. \A d \in Comms : \A j \in 1 .. Len(entries'[d]) :
            entries'[d][j].state = "committed" => entries[d][j].state = "committed"
      <3> SUFFICES ASSUME NEW d \in Comms, NEW j \in 1 .. Len(entries'[d]),
                          entries'[d][j].state = "committed"
                   PROVE  entries[d][j].state = "committed"
        OBVIOUS
      <3>1. j \in 1 .. Len(entries[d])
        BY <1>5
      <3>2. entries[d][j] \in Entry
        BY <1>0, <3>1, SequenceElements
      <3>3. entries'[d][j] = entries[d][j] \/ entries'[d][j] = skipped(entries[d][j])
        BY <1>5, <3>1
      <3> QED
        BY <3>2, <3>3, SkippedEntry
    <2> QED
      BY <1>0, <1>1, <1>5, <2>1, <2>2 DEF DrainedInv
  <1> QED
    BY <1>6, <1>7, <1>8, <1>9 DEF IInv

(* requestShutdown skips every entry that is still reserved.               *)
LEMMA RequestShutdownStep == ASSUME IInv, TypeOK', RequestShutdown PROVE IInv'
  <1>0. /\ TypeOK /\ PhaseInv /\ CurInv /\ CountInv /\ QueueInv /\ TableInv /\ GroupInv
        /\ LaneInv /\ TokenInv /\ DrainedInv /\ OrderInv
    BY DEF IInv
  <1>1. /\ main = "app" /\ main' = "notify" /\ accepting' = FALSE /\ stopping' = TRUE
        /\ entries' = [c \in Comms |-> [i \in DOMAIN entries[c] |-> skipped(entries[c][i])]]
        /\ UNCHANGED <<queue, outstanding, first, ticket, token, requests, active, remaining, place,
                       initiated, owner, cur, back, pending, terminated>>
    BY DEF RequestShutdown, queueVars, tokenVars, reqVars, ownerVars
  <1>2. Drained => \A k \in Managed :
          /\ token[k] # "running" /\ place[k] # "popped"
          /\ \A i \in DOMAIN entries[CommOf[k]] : entries[CommOf[k]][i].state # "committed"
    BY DEF RequestShutdown
  <1>3. \A d \in Comms : /\ DOMAIN entries[d] = 1 .. Len(entries[d]) /\ Len(entries[d]) \in Nat
                         /\ Len(entries'[d]) = Len(entries[d])
                         /\ \A j \in 1 .. Len(entries[d]) : entries'[d][j] = skipped(entries[d][j])
    <2> SUFFICES ASSUME NEW d \in Comms
                 PROVE  /\ DOMAIN entries[d] = 1 .. Len(entries[d]) /\ Len(entries[d]) \in Nat
                        /\ Len(entries'[d]) = Len(entries[d])
                        /\ \A j \in 1 .. Len(entries[d]) : entries'[d][j] = skipped(entries[d][j])
      OBVIOUS
    <2>1. DOMAIN entries[d] = 1 .. Len(entries[d]) /\ Len(entries[d]) \in Nat
      BY <1>0, SequenceElements, LenProperties
    <2>2. entries'[d] = [j \in 1 .. Len(entries[d]) |-> skipped(entries[d][j])]
      BY <1>1, <2>1
    <2>3. entries'[d] \in Seq(Entry)
      BY DEF TypeOK
    <2>4. DOMAIN entries'[d] = 1 .. Len(entries'[d]) /\ Len(entries'[d]) \in Nat
      BY <2>3, LenProperties
    <2>5. 1 .. Len(entries'[d]) = 1 .. Len(entries[d])
      BY <2>2, <2>4
    <2>6. Len(entries'[d]) = Len(entries[d])
      BY <2>1, <2>4, <2>5
    <2> QED
      BY <2>1, <2>2, <2>6
  <1>4. ASSUME NEW d \in Comms, NEW j \in 1 .. Len(entries[d])
        PROVE  /\ entries'[d][j].op = entries[d][j].op
               /\ entries'[d][j].start = IF entries'[d][j].state = "committed" THEN entries[d][j].op ELSE None
               /\ entries'[d][j].state = "committed" => entries[d][j].state = "committed"
    <2>1. entries[d][j].start = IF entries[d][j].state = "committed" THEN entries[d][j].op ELSE None
      BY <1>0 DEF LaneInv
    <2>2. entries[d][j] \in Entry
      BY <1>0, SequenceElements
    <2> QED
      BY <1>3, <2>1, <2>2, SkippedEntry
  <1>5. (CurInv /\ CountInv /\ QueueInv /\ TableInv /\ GroupInv /\ LaneInv /\ OrderInv)'
    BY <1>1, <1>3, <1>4, EntriesStep
  <1>6. PhaseInv'
    BY <1>0, <1>1 DEF PhaseInv
  <1>7. TokenInv'
    BY <1>1 DEF TokenInv
  <1>8. DrainedInv'
    <2>1. CASE ~Drained
      BY <2>1 DEF DrainedInv
    <2>2. CASE Drained
      <3>1. ASSUME NEW d \in Comms, NEW j \in 1 .. Len(entries'[d])
            PROVE  entries'[d][j].state # "committed"
        <4>1. j \in 1 .. Len(entries[d]) /\ j \in DOMAIN entries[d]
          BY <1>3
        <4>2. entries[d][j] \in Entry
          BY <1>0, <4>1, SequenceElements
        <4>3. entries[d][j].op \in Managed /\ CommOf[entries[d][j].op] = d
          BY <1>0, <4>1, <4>2 DEF LaneInv, Entry
        <4>4. entries[d][j].state # "committed"
          BY <1>2, <2>2, <4>1, <4>3
        <4> QED
          BY <1>4, <4>1, <4>4
      <3>2. ~terminated'
        BY <1>0, <1>1, <2>2 DEF DrainedInv
      <3> QED
        BY <1>1, <1>2, <2>2, <3>1, <3>2 DEF DrainedInv
    <2> QED
      BY <2>1, <2>2
  <1> QED
    BY <1>5, <1>6, <1>7, <1>8 DEF IInv

(* A step that only works on the table keeps everything else.              *)
LEMMA TableStep ==
  ASSUME IInv, owner' \notin {"start", "collective", "release", "gone"},
         UNCHANGED <<queue, outstanding, accepting, stopping, first, entries, ticket, token, place,
                     initiated, main, terminated>>
  PROVE  (PhaseInv /\ CountInv /\ QueueInv /\ LaneInv /\ TokenInv /\ DrainedInv /\ OrderInv)'
  <1>0. /\ TypeOK /\ PhaseInv /\ CurInv /\ CountInv /\ QueueInv /\ TableInv /\ GroupInv
        /\ LaneInv /\ TokenInv /\ DrainedInv /\ OrderInv
    BY DEF IInv
  <1>1. PhaseInv'
    BY <1>0 DEF PhaseInv
  <1>2. CountInv'
    BY <1>0 DEF CountInv, Owned
  <1>3. QueueInv'
    BY <1>0 DEF QueueInv
  <1>4. LaneInv'
    BY <1>0 DEF LaneInv
  <1>5. TokenInv'
    BY <1>0 DEF TokenInv
  <1>6. DrainedInv'
    BY <1>0 DEF DrainedInv
  <1>7. OrderInv'
    <2>1. \A p, q : Before(p, q)' <=> Before(p, q)
      BY DEF Before
    <2> QED
      BY <1>0, <2>1 DEF OrderInv
  <1> QED
    BY <1>1, <1>2, <1>3, <1>4, <1>5, <1>6, <1>7

(* The positions of a group are finitely many.                             *)
LEMMA GroupFinite ==
  ASSUME TypeOK, NEW o
  PROVE  /\ IsFiniteSet(Living(o)) /\ Cardinality(Living(o)) \in Nat
         /\ IsFiniteSet(Reported(o)) /\ Cardinality(Reported(o)) \in Nat
  <1>1. /\ DOMAIN requests = 1 .. Len(requests) /\ Len(requests) \in Nat
        /\ DOMAIN pending = 1 .. Len(pending) /\ Len(pending) \in Nat
    BY DEF TypeOK
  <1>2. Living(o) \in SUBSET (1 .. Len(requests)) /\ Reported(o) \in SUBSET (1 .. Len(pending))
    BY <1>1 DEF Living, Reported
  <1>3. IsFiniteSet(1 .. Len(requests)) /\ IsFiniteSet(1 .. Len(pending))
    BY <1>1, FS_Interval
  <1> QED
    BY <1>2, <1>3, FS_Subset, FS_CardinalityType

(* MPI_Testsome moves the completed requests of a group from the live ones *)
(* to the reported ones.                                                   *)
LEMMA TestSomeStep == ASSUME IInv, TypeOK', TestSome PROVE IInv'
  <1>0. /\ TypeOK /\ PhaseInv /\ CurInv /\ CountInv /\ QueueInv /\ TableInv /\ GroupInv
        /\ LaneInv /\ TokenInv /\ DrainedInv /\ OrderInv
    BY DEF IInv
  <1> DEFINE hit == {i \in 1 .. Len(requests) : requests[i] \in arrived}
  <1>1. /\ DOMAIN requests = 1 .. Len(requests) /\ Len(requests) \in Nat
        /\ hit \in SUBSET (1 .. Len(requests)) /\ Len(active) = Len(requests)
    <2>1. Len(active) = Len(requests)
      BY <1>0 DEF TableInv
    <2>2. requests \in Seq((Ops \X Nat) \cup {None})
      BY <1>0 DEF TypeOK
    <2> QED
      BY <2>1, <2>2, LenProperties
  <1>2. /\ owner = "requests"
        /\ requests' = [i \in 1 .. Len(requests) |-> IF i \in hit THEN None ELSE requests[i]]
        /\ pending' = ascending(hit) /\ owner' = IF hit = {} THEN "decide" ELSE "retire"
        /\ UNCHANGED <<queue, outstanding, accepting, stopping, first, entries, ticket, token, active,
                       remaining, place, initiated, cur, back, main, terminated>>
    BY <1>1 DEF TestSome, queueVars, phaseVars, laneVars, tokenVars
  <1>3. Cardinality(hit) \in Nat /\ Enumerates(ascending(hit), Cardinality(hit), hit)
    BY <1>1, AscendingEnumerates
  <1>4. pending = <<>> /\ \A i \in 1 .. Len(requests) : requests[i] # None
    BY <1>0, <1>2 DEF TableInv, Retiring
  <1>5. /\ DOMAIN pending' = 1 .. Cardinality(hit) /\ Len(pending') = Cardinality(hit)
        /\ \A n \in 1 .. Cardinality(hit) : pending'[n] \in hit
    <2>1. pending' \in [1 .. Cardinality(hit) -> hit]
      BY <1>2, <1>3 DEF Enumerates
    <2> HIDE DEF hit
    <2> QED
      BY <1>3, <2>1, FunctionIsSeq
  <1>6. /\ Len(requests') = Len(requests) /\ DOMAIN requests' = 1 .. Len(requests)
        /\ \A i \in 1 .. Len(requests) : requests'[i] = IF i \in hit THEN None ELSE requests[i]
    <2>1. requests' \in Seq((Ops \X Nat) \cup {None})
      BY DEF TypeOK
    <2>2. DOMAIN requests' = 1 .. Len(requests') /\ Len(requests') \in Nat
      BY <2>1, LenProperties
    <2>3. DOMAIN requests' = 1 .. Len(requests)
      BY <1>2
    <2> HIDE DEF hit
    <2>4. Len(requests') = Len(requests)
      <3>1. 1 .. Len(requests') = 1 .. Len(requests)
        BY <2>2, <2>3
      <3>2. Len(requests) \in Nat /\ Len(requests') \in Nat
        BY <1>1, <2>2
      <3> QED
        BY <3>1, <3>2, IntervalsEqual
    <2> QED
      BY <1>2, <2>3, <2>4
  <1> HIDE DEF hit
  <1>7. (PhaseInv /\ CountInv /\ QueueInv /\ LaneInv /\ TokenInv /\ DrainedInv /\ OrderInv)'
    BY <1>2, TableStep
  <1>8. CurInv'
    BY <1>2 DEF CurInv
  <1>9. TableInv'
    <2>1. Len(requests') = Len(active')
      BY <1>1, <1>2, <1>6
    <2>2. \A i \in 1 .. Len(requests') :
            requests'[i] # None => requests'[i] = <<active'[i].group, active'[i].index>>
      BY <1>0, <1>2, <1>6 DEF TableInv
    <2>3. ASSUME hit = {}
          PROVE  pending' = <<>> /\ \A i \in 1 .. Len(requests') : requests'[i] # None
      <3>1. Len(pending') = 0
        BY <1>5, <2>3, FS_EmptySet
      <3>2. pending' \in Seq(Nat)
        BY DEF TypeOK
      <3> QED
        BY <1>4, <1>6, <2>3, <3>1, <3>2, EmptySeq
    <2>4. hit # {} => Retiring'
      BY <1>2 DEF Retiring
    <2>5. \A n \in 1 .. Len(pending') : pending'[n] \in 1 .. Len(active')
      BY <1>1, <1>2, <1>5
    <2> QED
      BY <2>1, <2>2, <2>3, <2>4, <2>5 DEF TableInv
  <1>10. GroupInv'
    <2> SUFFICES ASSUME NEW o \in Ops
                 PROVE  remaining'[o] = Cardinality(Living(o)') + Cardinality(Reported(o)')
      BY <1>0, <1>2 DEF GroupInv
    <2> DEFINE P == {i \in hit : active[i].group = o}
    <2>1. Living(o) = {i \in 1 .. Len(requests) : active[i].group = o}
      BY <1>1, <1>4 DEF Living
    <2>2. Living(o)' = Living(o) \ P
      <3>1. \A i \in 1 .. Len(requests) : requests'[i] # None <=> i \notin hit
        BY <1>4, <1>6
      <3> QED
        BY <1>2, <1>6, <2>1, <3>1 DEF Living
    <2>3. P \in SUBSET hit /\ P \in SUBSET Living(o)
      BY <1>1, <2>1
    <2>4. Reported(o)' = Positions(ascending(hit), Cardinality(hit), P)
      BY <1>2, <1>5 DEF Reported, Positions
    <2>5. Cardinality(Reported(o)') = Cardinality(P)
      <3> HIDE DEF P
      <3> QED
        BY <1>3, <2>3, <2>4, EnumerationCounts
    <2>6. Reported(o) = {}
      BY <1>4 DEF Reported
    <2>7. remaining[o] = Cardinality(Living(o))
      <3>1. Cardinality(Reported(o)) = 0
        BY <2>6, FS_EmptySet
      <3>2. remaining[o] = Cardinality(Living(o)) + Cardinality(Reported(o)) /\ Cardinality(Living(o)) \in Nat
        BY <1>0, GroupFinite DEF GroupInv
      <3> QED
        BY <3>1, <3>2
    <2>8. /\ Cardinality(Living(o) \ P) = Cardinality(Living(o)) - Cardinality(P)
          /\ Cardinality(Living(o)) \in Nat /\ Cardinality(P) \in Nat
      <3> HIDE DEF P
      <3>1. IsFiniteSet(Living(o)) /\ Cardinality(Living(o)) \in Nat
        BY <1>0, GroupFinite
      <3>2. IsFiniteSet(P) /\ Cardinality(P) \in Nat /\ Living(o) \cap P = P
        BY <2>3, <3>1, FS_Subset, FS_CardinalityType
      <3> QED
        BY <3>1, <3>2, FS_Difference
    <2> QED
      BY <1>2, <2>2, <2>5, <2>7, <2>8
  <1> QED
    BY <1>7, <1>8, <1>9, <1>10 DEF IInv

(* retireActive takes one reported index off its group.                    *)
LEMMA RetireStep == ASSUME IInv, TypeOK', Retire PROVE IInv'
  <1>0. /\ TypeOK /\ PhaseInv /\ CurInv /\ CountInv /\ QueueInv /\ TableInv /\ GroupInv
        /\ LaneInv /\ TokenInv /\ DrainedInv /\ OrderInv
    BY DEF IInv
  <1>1. /\ owner = "retire" /\ pending # <<>> /\ pending' = Tail(pending) /\ back' = "retire"
        /\ UNCHANGED <<queue, outstanding, accepting, stopping, first, entries, ticket, token, requests,
                       active, place, initiated, main, terminated>>
    BY DEF Retire, queueVars, phaseVars, laneVars, tokenVars
  <1>2. pending \in Seq(Nat) /\ Len(pending) \in Nat \ {0} /\ DOMAIN pending = 1 .. Len(pending)
    BY <1>0, <1>1 DEF TypeOK
  <1>3. /\ Head(pending) = pending[1] /\ 1 \in 1 .. Len(pending) /\ Head(pending) \in 1 .. Len(active)
        /\ Tail(pending) \in Seq(Nat)
        /\ \A i \in 1 .. Len(Tail(pending)) : Tail(pending)[i] = pending[i + 1] /\ i + 1 \in 1 .. Len(pending)
    <2>1. /\ Head(pending) = pending[1] /\ 1 \in 1 .. Len(pending) /\ Tail(pending) \in Seq(Nat)
          /\ \A i \in 1 .. Len(Tail(pending)) : Tail(pending)[i] = pending[i + 1] /\ i + 1 \in 1 .. Len(pending)
      BY <1>1, <1>2, TailCounts
    <2> QED
      BY <1>0, <2>1 DEF TableInv
  <1>4. PICK g \in Ops : g = active[Head(pending)].group
    <2>1. active[Head(pending)] \in [group : Ops, index : Nat]
      BY <1>0, <1>3, SequenceElements
    <2> QED
      BY <2>1
  <1>5. /\ remaining' = [remaining EXCEPT ![g] = @ - 1]
        /\ cur' = IF remaining[g] = 1 THEN g ELSE None
        /\ owner' = IF remaining[g] = 1 THEN "deliver" ELSE "retire"
    BY <1>4 DEF Retire
  <1>6. /\ remaining \in [Ops -> Int] /\ remaining'[g] = remaining[g] - 1
        /\ \A p \in Ops : p # g => remaining'[p] = remaining[p]
    BY <1>0, <1>4, <1>5 DEF TypeOK
  <1>7. ASSUME NEW o \in Ops
        PROVE  /\ Living(o)' = Living(o)
               /\ Cardinality(Reported(o)) = Cardinality(Reported(o)') + (IF g = o THEN 1 ELSE 0)
               /\ Cardinality(Reported(o)') \in Nat /\ Cardinality(Living(o)) \in Nat
    <2> DEFINE P == {i \in 1 .. Len(active) : active[i].group = o}
    <2>1. Living(o)' = Living(o)
      BY <1>1 DEF Living
    <2>2. Reported(o) = {n \in DOMAIN pending : pending[n] \in P}
      BY <1>0, <1>2 DEF Reported, TableInv
    <2>3. Reported(o)' = {n \in DOMAIN Tail(pending) : Tail(pending)[n] \in P}
      <3>1. DOMAIN Tail(pending) = 1 .. Len(Tail(pending))
        BY <1>3, LenProperties
      <3>2. \A n \in 1 .. Len(Tail(pending)) : Tail(pending)[n] \in 1 .. Len(active)
        BY <1>0, <1>3 DEF TableInv
      <3> QED
        BY <1>1, <3>1, <3>2 DEF Reported
    <2>4. Head(pending) \in P <=> g = o
      BY <1>3, <1>4
    <2>5. Cardinality({n \in DOMAIN pending : pending[n] \in P})
            = Cardinality({n \in DOMAIN Tail(pending) : Tail(pending)[n] \in P})
              + (IF Head(pending) \in P THEN 1 ELSE 0)
      <3> HIDE DEF P
      <3> QED
        BY <1>1, <1>2, TailCounts
    <2>6. Cardinality(Living(o)) \in Nat
      BY <1>0, GroupFinite
    <2>7. Cardinality(Reported(o)') \in Nat
      <3> DEFINE R == {n \in 1 .. Len(Tail(pending)) : Tail(pending)[n] \in P}
      <3>1. DOMAIN Tail(pending) = 1 .. Len(Tail(pending)) /\ Len(Tail(pending)) \in Nat
        BY <1>3, LenProperties
      <3>2. R \in SUBSET (1 .. Len(Tail(pending))) /\ IsFiniteSet(1 .. Len(Tail(pending)))
        BY <3>1, FS_Interval
      <3>3. Cardinality(R) \in Nat
        <4> HIDE DEF R
        <4> QED
          BY <3>2, FS_Subset, FS_CardinalityType
      <3> QED
        BY <2>3, <3>1, <3>3
    <2> HIDE DEF P
    <2> QED
      BY <2>1, <2>2, <2>3, <2>4, <2>5, <2>6, <2>7
  <1>8. remaining[g] \in Nat \ {0} /\ place[g] = "flight"
    <2>1. remaining[g] = Cardinality(Living(g)) + Cardinality(Reported(g))
      BY <1>0, <1>4 DEF GroupInv
    <2>2. /\ Cardinality(Reported(g)) = Cardinality(Reported(g)') + 1
          /\ Cardinality(Reported(g)') \in Nat /\ Cardinality(Living(g)) \in Nat
      BY <1>4, <1>7
    <2>3. remaining[g] \in Nat \ {0}
      BY <2>1, <2>2
    <2> QED
      BY <1>0, <1>4, <2>3 DEF GroupInv
  <1>9. (PhaseInv /\ CountInv /\ QueueInv /\ LaneInv /\ TokenInv /\ DrainedInv /\ OrderInv)'
    <2>1. owner' \notin {"start", "collective", "release", "gone"}
      BY <1>5
    <2> QED
      BY <1>1, <2>1, TableStep
  <1>10. CurInv'
    BY <1>1, <1>4, <1>5, <1>6, <1>8 DEF CurInv
  <1>11. TableInv'
    <2>1. Retiring /\ Retiring'
      BY <1>1, <1>5 DEF Retiring
    <2>2. \A n \in 1 .. Len(pending') : pending'[n] \in 1 .. Len(active')
      BY <1>0, <1>1, <1>3 DEF TableInv
    <2> QED
      BY <1>0, <1>1, <2>1, <2>2 DEF TableInv
  <1>12. GroupInv'
    <2> SUFFICES ASSUME NEW o \in Ops
                 PROVE  /\ remaining'[o] = Cardinality(Living(o)') + Cardinality(Reported(o)')
                        /\ remaining'[o] # 0 => place'[o] = "flight"
      BY DEF GroupInv
    <2>1. remaining[o] = Cardinality(Living(o)) + Cardinality(Reported(o))
      BY <1>0 DEF GroupInv
    <2>2. CASE o = g
      BY <1>1, <1>6, <1>7, <1>8, <2>1, <2>2
    <2>3. CASE o # g
      <3>1. remaining'[o] = remaining[o] /\ (remaining[o] # 0 => place[o] = "flight")
        BY <1>0, <1>6, <2>3 DEF GroupInv
      <3> QED
        BY <1>1, <1>7, <2>1, <2>3, <3>1
    <2> QED
      BY <2>2, <2>3
  <1> QED
    BY <1>9, <1>10, <1>11, <1>12 DEF IInv

(* progressRequests compacts both vectors.                                 *)
LEMMA CompactStep == ASSUME IInv, TypeOK', Compact PROVE IInv'
  <1>0. /\ TypeOK /\ PhaseInv /\ CurInv /\ CountInv /\ QueueInv /\ TableInv /\ GroupInv
        /\ LaneInv /\ TokenInv /\ DrainedInv /\ OrderInv
    BY DEF IInv
  <1> DEFINE live == {i \in 1 .. Len(requests) : requests[i] # None}
             kept == ascending(live)
             m == Cardinality(live)
  <1>1. /\ DOMAIN requests = 1 .. Len(requests) /\ Len(requests) \in Nat
        /\ live \in SUBSET (1 .. Len(requests)) /\ Len(active) = Len(requests)
    <2>1. Len(active) = Len(requests)
      BY <1>0 DEF TableInv
    <2>2. requests \in Seq((Ops \X Nat) \cup {None})
      BY <1>0 DEF TypeOK
    <2> QED
      BY <2>1, <2>2, LenProperties
  <1>2. /\ owner = "retire" /\ pending = <<>> /\ owner' = "decide"
        /\ requests' = [n \in DOMAIN kept |-> requests[kept[n]]]
        /\ active' = [n \in DOMAIN kept |-> active[kept[n]]]
        /\ UNCHANGED <<queue, outstanding, accepting, stopping, first, entries, ticket, token, remaining,
                       place, initiated, cur, back, pending, main, terminated>>
    BY <1>1 DEF Compact, queueVars, phaseVars, laneVars, tokenVars
  <1>3. m \in Nat /\ Enumerates(kept, m, live)
    BY <1>1, AscendingEnumerates
  <1>4. /\ DOMAIN kept = 1 .. m
        /\ \A n \in 1 .. m : kept[n] \in 1 .. Len(requests) /\ requests[kept[n]] # None
    <2>1. kept \in [1 .. m -> live]
      BY <1>3 DEF Enumerates
    <2> HIDE DEF kept, m
    <2> QED
      BY <2>1
  <1> HIDE DEF kept, m
  <1>5. /\ DOMAIN requests' = 1 .. m /\ Len(requests') = m /\ Len(active') = m
        /\ \A n \in 1 .. m : requests'[n] = requests[kept[n]] /\ active'[n] = active[kept[n]]
    <2>1. requests' \in Seq((Ops \X Nat) \cup {None}) /\ active' \in Seq([group : Ops, index : Nat])
      BY DEF TypeOK
    <2>2. /\ DOMAIN requests' = 1 .. Len(requests') /\ Len(requests') \in Nat
          /\ DOMAIN active' = 1 .. Len(active') /\ Len(active') \in Nat
      BY <2>1, LenProperties
    <2>3. DOMAIN requests' = 1 .. m /\ DOMAIN active' = 1 .. m
      BY <1>2, <1>4
    <2>4. 1 .. Len(requests') = 1 .. m /\ 1 .. Len(active') = 1 .. m
      BY <2>2, <2>3
    <2>5. Len(requests') = m
      BY <1>3, <2>2, <2>4, IntervalsEqual
    <2>6. Len(active') = m
      BY <1>3, <2>2, <2>4, IntervalsEqual
    <2> QED
      BY <1>2, <1>4, <2>3, <2>5, <2>6
  <1>6. (PhaseInv /\ CountInv /\ QueueInv /\ LaneInv /\ TokenInv /\ DrainedInv /\ OrderInv)'
    BY <1>2, TableStep
  <1>7. CurInv'
    BY <1>2 DEF CurInv
  <1>8. TableInv'
    <2>1. \A n \in 1 .. m : requests'[n] = <<active'[n].group, active'[n].index>> /\ requests'[n] # None
      BY <1>0, <1>4, <1>5 DEF TableInv
    <2>2. pending' = <<>> /\ Len(pending') = 0
      BY <1>2
    <2> QED
      BY <1>5, <2>1, <2>2 DEF TableInv
  <1>9. GroupInv'
    <2> SUFFICES ASSUME NEW o \in Ops
                 PROVE  Cardinality(Living(o)') = Cardinality(Living(o)) /\ Reported(o)' = Reported(o)
      BY <1>0, <1>2 DEF GroupInv
    <2>1. Reported(o)' = Reported(o)
      BY <1>2 DEF Reported
    <2>2. Living(o) \in SUBSET live
      BY <1>1 DEF Living
    <2>3. Living(o)' = Positions(kept, m, Living(o))
      <3>1. \A n \in 1 .. m : requests'[n] # None /\ (kept[n] \in Living(o) <=> active[kept[n]].group = o)
        BY <1>1, <1>4, <1>5 DEF Living
      <3> QED
        BY <1>5, <3>1 DEF Living, Positions
    <2>4. Cardinality(Living(o)') = Cardinality(Living(o))
      <3> HIDE DEF live
      <3> QED
        BY <1>3, <2>2, <2>3, EnumerationCounts
    <2> QED
      BY <2>1, <2>4
  <1> QED
    BY <1>6, <1>7, <1>8, <1>9 DEF IInv

(* The native calls of an operation, and the requests they leave.          *)
LEMMA StartNativeStep == ASSUME IInv, TypeOK', StartNative PROVE IInv'
  <1>0. /\ TypeOK /\ PhaseInv /\ CurInv /\ CountInv /\ QueueInv /\ TableInv /\ GroupInv
        /\ LaneInv /\ TokenInv /\ DrainedInv /\ OrderInv
    BY DEF IInv
  <1>1. /\ owner = "start" /\ back' = "queue" /\ initiated' = Append(initiated, cur)
        /\ UNCHANGED <<queue, outstanding, accepting, stopping, first, entries, ticket, token, place, cur,
                       pending, main, terminated>>
    BY DEF StartNative, queueVars, phaseVars, laneVars, tokenVars
  <1>2. cur \in Ops /\ place[cur] = "flight" /\ remaining[cur] = 0
    BY <1>0, <1>1 DEF CurInv
  <1>3. pending = <<>> /\ \A i \in 1 .. Len(requests) : requests[i] # None
    BY <1>0, <1>1 DEF TableInv, Retiring
  <1>4. PICK live \in SUBSET (1 .. NReq[cur]) :
          LET added == ascending(live)
          IN  /\ requests' = requests \o [i \in DOMAIN added |-> <<cur, added[i]>>]
              /\ active' = active \o [i \in DOMAIN added |-> [group |-> cur, index |-> added[i]]]
              /\ remaining' = [remaining EXCEPT ![cur] = Cardinality(live)]
              /\ owner' = IF live = {} THEN "deliver" ELSE "queue"
    BY DEF StartNative
  <1> DEFINE added == ascending(live)
             m == Cardinality(live)
             n == Len(requests)
             more == [i \in DOMAIN added |-> <<cur, added[i]>>]
             moreActive == [i \in DOMAIN added |-> [group |-> cur, index |-> added[i]]]
  <1>5. /\ requests' = requests \o more /\ active' = active \o moreActive
        /\ remaining' = [remaining EXCEPT ![cur] = m] /\ owner' = IF live = {} THEN "deliver" ELSE "queue"
    BY <1>4
  <1>6. m \in Nat /\ added \in [1 .. m -> live] /\ live \subseteq Nat /\ (live = {} => m = 0)
    <2>1. NReq[cur] \in Nat /\ live \subseteq Nat
      BY <1>2, MpiConstants DEF MpiConstants
    <2> QED
      BY <2>1, AscendingEnumerates, FS_EmptySet DEF Enumerates
  <1> HIDE DEF added, m
  <1>7. /\ n \in Nat /\ Len(active) = n /\ Len(requests') = n + m /\ Len(active') = n + m
        /\ DOMAIN requests = 1 .. n /\ DOMAIN requests' = 1 .. n + m
        /\ \A i \in 1 .. n + m : requests'[i] = IF i <= n THEN requests[i] ELSE more[i - n]
        /\ \A i \in 1 .. n + m : active'[i] = IF i <= n THEN active[i] ELSE moreActive[i - n]
    <2> DEFINE Req == (Ops \X Nat) \cup {None}
               Act == [group : Ops, index : Nat]
    <2>1. DOMAIN added = 1 .. m /\ \A i \in 1 .. m : added[i] \in Nat
      BY <1>6
    <2>2. more \in [1 .. m -> Req] /\ moreActive \in [1 .. m -> Act]
      BY <1>2, <2>1
    <2>3. requests \in Seq(Req) /\ active \in Seq(Act) /\ Len(active) = n
      BY <1>0 DEF TypeOK, TableInv
    <2> HIDE DEF more, moreActive, Req, Act
    <2>4. more \in Seq(Req) /\ moreActive \in Seq(Act) /\ Len(more) = m /\ Len(moreActive) = m
      BY <1>6, <2>2, FunctionIsSeq
    <2>5. /\ requests' \in Seq(Req) /\ Len(requests') = n + m
          /\ \A i \in 1 .. n + m : requests'[i] = IF i <= n THEN requests[i] ELSE more[i - n]
      <3>1. /\ requests \o more \in Seq(Req) /\ Len(requests \o more) = Len(requests) + Len(more)
            /\ \A i \in 1 .. Len(requests) + Len(more) : (requests \o more)[i] =
                  IF i <= Len(requests) THEN requests[i] ELSE more[i - Len(requests)]
        BY <2>3, <2>4, ConcatProperties
      <3> QED
        BY <1>5, <2>4, <3>1
    <2>6. /\ Len(active') = n + m
          /\ \A i \in 1 .. n + m : active'[i] = IF i <= n THEN active[i] ELSE moreActive[i - n]
      <3>1. /\ Len(active \o moreActive) = Len(active) + Len(moreActive)
            /\ \A i \in 1 .. Len(active) + Len(moreActive) : (active \o moreActive)[i] =
                  IF i <= Len(active) THEN active[i] ELSE moreActive[i - Len(active)]
        BY <2>3, <2>4, ConcatProperties
      <3> QED
        BY <1>5, <2>3, <2>4, <3>1
    <2> QED
      BY <2>3, <2>5, <2>6, LenProperties
  <1>8. \A i \in 1 .. m : /\ more[i] = <<cur, added[i]>> /\ more[i] # None
                          /\ moreActive[i].group = cur /\ moreActive[i].index = added[i]
    <2>1. DOMAIN added = 1 .. m /\ \A i \in 1 .. m : added[i] \in Nat
      BY <1>6
    <2>2. \A i \in 1 .. m : <<cur, added[i]>> \in Ops \X Nat
      BY <1>2, <2>1
    <2>3. None \notin Ops \X Nat
      BY MpiConstants DEF MpiConstants
    <2> QED
      BY <2>1, <2>2, <2>3
  <1> HIDE DEF more, moreActive, n
  <1>9. \A i \in 1 .. n + m : i \in 1 .. n \/ (i - n \in 1 .. m /\ ~(i <= n))
    BY <1>6, <1>7
  <1>10. /\ remaining'[cur] = m /\ \A p \in Ops : p # cur => remaining'[p] = remaining[p]
    BY <1>0, <1>2, <1>5 DEF TypeOK
  <1>11. PhaseInv'
    BY <1>0, <1>1, <1>5 DEF PhaseInv
  <1>12. CurInv'
    BY <1>1, <1>2, <1>5, <1>6, <1>10 DEF CurInv
  <1>13. CountInv'
    BY <1>0, <1>1 DEF CountInv, Owned
  <1>14. QueueInv'
    BY <1>0, <1>1 DEF QueueInv
  <1>15. TableInv'
    <2>1. \A i \in 1 .. n + m : requests'[i] # None /\ requests'[i] = <<active'[i].group, active'[i].index>>
      <3> SUFFICES ASSUME NEW i \in 1 .. n + m
                   PROVE  requests'[i] # None /\ requests'[i] = <<active'[i].group, active'[i].index>>
        OBVIOUS
      <3>1. CASE i \in 1 .. n
        <4>1. requests[i] # None /\ requests[i] = <<active[i].group, active[i].index>>
          BY <1>0, <1>3, <3>1 DEF TableInv, n
        <4>2. requests'[i] = requests[i] /\ active'[i] = active[i]
          BY <1>7, <3>1
        <4> QED
          BY <4>1, <4>2
      <3>2. CASE i - n \in 1 .. m /\ ~(i <= n)
        BY <1>7, <1>8, <3>2
      <3> QED
        BY <1>9, <3>1, <3>2
    <2>2. pending' = <<>> /\ Len(pending') = 0
      BY <1>1, <1>3
    <2> QED
      BY <1>7, <2>1, <2>2 DEF TableInv
  <1>16. GroupInv'
    <2> SUFFICES ASSUME NEW o \in Ops
                 PROVE  /\ remaining'[o] = Cardinality(Living(o)') + Cardinality(Reported(o)')
                        /\ remaining'[o] # 0 => place'[o] = "flight"
      BY DEF GroupInv
    <2>1. Reported(o) = {} /\ Reported(o)' = {}
      BY <1>1, <1>3 DEF Reported
    <2>2. Cardinality(Reported(o)') = 0 /\ Cardinality(Reported(o)) = 0
      BY <2>1, FS_EmptySet
    <2>3. remaining[o] = Cardinality(Living(o)) /\ Cardinality(Living(o)) \in Nat /\ IsFiniteSet(Living(o))
      BY <1>0, <2>2, GroupFinite DEF GroupInv
    <2>4. \A i \in 1 .. n : /\ requests'[i] = requests[i] /\ requests[i] # None
                            /\ active'[i] = active[i] /\ i \in 1 .. n + m
      BY <1>3, <1>6, <1>7 DEF n
    <2>5. Living(o) = {i \in 1 .. n : active[i].group = o}
      BY <1>7, <2>4 DEF Living
    <2>6. ASSUME NEW i \in 1 .. n + m, i \notin 1 .. n
          PROVE  active'[i].group = cur /\ requests'[i] # None /\ i \in n + 1 .. n + m
      BY <1>6, <1>7, <1>8, <1>9, <2>6
    <2>7. CASE o = cur
      <3>1. Living(o) = {}
        BY <1>2, <2>3, <2>7, FS_EmptySet
      <3>2. Living(o)' = n + 1 .. n + m
        <4>1. \A i \in n + 1 .. n + m : i \in 1 .. n + m /\ i \notin 1 .. n
          BY <1>6, <1>7
        <4>2. \A i \in 1 .. n : active'[i].group # o
          BY <2>4, <2>5, <3>1
        <4> QED
          BY <1>7, <2>6, <2>7, <4>1, <4>2 DEF Living
      <3>3. Cardinality(n + 1 .. n + m) = m
        <4>1. n + 1 \in Int /\ n + m \in Int
          BY <1>6, <1>7
        <4>2. Cardinality(n + 1 .. n + m) = IF n + 1 > n + m THEN 0 ELSE (n + m) - (n + 1) + 1
          BY <4>1, FS_Interval
        <4> QED
          BY <1>6, <1>7, <4>2
      <3> QED
        BY <1>1, <1>2, <1>6, <1>10, <2>2, <2>7, <3>2, <3>3
    <2>8. CASE o # cur
      <3>1. Living(o)' = Living(o)
        BY <1>7, <2>4, <2>5, <2>6, <2>8 DEF Living
      <3>2. remaining'[o] = remaining[o] /\ (remaining[o] # 0 => place[o] = "flight")
        BY <1>0, <1>10, <2>8 DEF GroupInv
      <3> QED
        BY <1>1, <2>2, <2>3, <3>1, <3>2
    <2> QED
      BY <2>7, <2>8
  <1>17. LaneInv'
    BY <1>0, <1>1 DEF LaneInv
  <1>18. TokenInv'
    BY <1>0, <1>1 DEF TokenInv
  <1>19. DrainedInv'
    BY <1>0, <1>1 DEF DrainedInv
  <1>20. OrderInv'
    <2>1. \A p, q : Before(p, q)' <=> Before(p, q)
      BY <1>1 DEF Before
    <2>2. /\ Len(initiated') = Len(initiated) + 1 /\ Len(initiated) \in Nat
          /\ \A i \in 1 .. Len(initiated) : initiated'[i] = initiated[i]
          /\ initiated'[Len(initiated) + 1] = cur
      <3>1. initiated \in Seq(Ops)
        BY <1>0 DEF TypeOK
      <3> QED
        BY <1>1, <1>2, <3>1, AppendProperties, LenProperties
    <2>3. \A i \in 1 .. Len(initiated') : i \in 1 .. Len(initiated) \/ i = Len(initiated) + 1
      BY <2>2
    <2>4. \A i \in 1 .. Len(initiated') : place[initiated'[i]] \in {"flight", "completed", "retired"}
      BY <1>0, <1>2, <2>2, <2>3 DEF OrderInv
    <2>5. \A i, j \in 1 .. Len(initiated') : i < j => Before(initiated'[i], initiated'[j])
      <3> SUFFICES ASSUME NEW i \in 1 .. Len(initiated'), NEW j \in 1 .. Len(initiated'), i < j
                   PROVE  Before(initiated'[i], initiated'[j])
        OBVIOUS
      <3>1. i \in 1 .. Len(initiated)
        BY <2>2
      <3>2. CASE j \in 1 .. Len(initiated)
        BY <1>0, <2>2, <3>1, <3>2 DEF OrderInv
      <3>3. CASE j = Len(initiated) + 1
        BY <1>0, <1>1, <2>2, <3>1, <3>3 DEF OrderInv
      <3> QED
        BY <2>3, <3>2, <3>3
    <2>6. \A i \in 1 .. Len(initiated'), j \in 1 .. Len(queue) : Before(initiated'[i], queue[j])
      BY <1>0, <1>1, <2>2, <2>3 DEF OrderInv
    <2>7. owner' # "start" /\ owner' # "collective"
      BY <1>5
    <2> QED
      BY <1>0, <1>1, <2>1, <2>4, <2>5, <2>6, <2>7 DEF OrderInv
  <1> QED
    BY <1>11, <1>12, <1>13, <1>14, <1>15, <1>16, <1>17, <1>18, <1>19, <1>20 DEF IInv

-----------------------------------------------------------------------------
(* The inductive invariant holds initially.                                *)
LEMMA InitInv == Init => IInv
  <1> SUFFICES ASSUME Init PROVE IInv
    OBVIOUS
  <1>1. TypeOK
    <2>1. BatchSize \in 0 .. BatchSize
      BY MpiConstants DEF MpiConstants
    <2>2. /\ queue \in Seq(Ops) /\ initiated \in Seq(Ops) /\ pending \in Seq(Nat)
          /\ requests \in Seq((Ops \X Nat) \cup {None}) /\ active \in Seq([group : Ops, index : Nat])
      BY EmptySeq DEF Init
    <2>3. entries \in [Comms -> Seq(Entry)] /\ first \in [Comms -> Nat] /\ ticket \in [Managed -> Nat]
      BY EmptySeq DEF Init
    <2>4. /\ remaining \in [Ops -> Int] /\ token \in [Managed -> {"none", "sender", "running", "released"}]
          /\ place \in [Ops -> {"new", "lane", "dropped", "popped", "queued", "flight",
                                "completed", "retired"}]
      BY DEF Init
    <2>5. outstanding \in Nat /\ arrived \subseteq Ops \X Nat /\ client \subseteq Ops
      BY DEF Init
    <2>6. /\ accepting \in BOOLEAN /\ stopping \in BOOLEAN /\ finished \in BOOLEAN /\ terminated \in BOOLEAN
          /\ owner = "queue" /\ cur = None /\ back = "queue" /\ batch \in 0 .. BatchSize /\ main = "app"
      BY <2>1 DEF Init
    <2> QED
      BY <2>2, <2>3, <2>4, <2>5, <2>6 DEF TypeOK
  <1>2. PhaseInv /\ CurInv /\ TokenInv
    BY DEF Init, PhaseInv, CurInv, TokenInv
  <1>3. CountInv
    <2>1. Owned = {}
      BY DEF Owned, Init
    <2> QED
      BY <2>1, FS_EmptySet DEF CountInv, Init
  <1>4. QueueInv /\ TableInv /\ OrderInv
    BY DEF Init, QueueInv, TableInv, OrderInv
  <1>5. GroupInv
    <2>1. \A o \in Ops : Living(o) = {} /\ Reported(o) = {} /\ remaining[o] = 0
      BY DEF Init, Living, Reported
    <2> QED
      BY <2>1, FS_EmptySet DEF GroupInv
  <1>6. LaneInv
    BY MpiConstants DEF Init, LaneInv, MpiConstants
  <1>7. DrainedInv
    BY DEF Init, DrainedInv
  <1> QED
    BY <1>1, <1>2, <1>3, <1>4, <1>5, <1>6, <1>7 DEF IInv

(* Every step keeps the inductive invariant.                               *)
LEMMA InductiveInv == IInv /\ [Next]_vars => IInv'
  <1> SUFFICES ASSUME IInv, [Next]_vars PROVE IInv'
    OBVIOUS
  <1>1. TypeOK' /\ TypeOK /\ PhaseInv
    BY TypeStep DEF IInv
  <1>2. ASSUME NEW o \in Ops, Submit(o) PROVE IInv'
    BY <1>1, <1>2, SubmitStep
  <1>3. ASSUME NEW k \in Managed, Reserve(k) \/ StartPredecessor(k) \/ Commit(k) \/ Abandon(k)
        PROVE  IInv'
    BY <1>1, <1>3, ReserveStep, StartPredecessorStep, CommitStep, AbandonStep
  <1>4. CASE RequestShutdown
    BY <1>1, <1>4, RequestShutdownStep
  <1>5. CASE PopCommand \/ StartNative \/ Deliver \/ FinishOperation
    BY <1>1, <1>5, PopCommandStep, StartNativeStep, DeliverStep, FinishStep
  <1>6. CASE PopCollective \/ StartCollective
    BY <1>1, <1>6, PopCollectiveStep, StartCollectiveStep
  <1>7. CASE TestSome \/ Retire \/ Compact
    BY <1>1, <1>7, TestSomeStep, RetireStep, CompactStep
  <1>8. CASE \/ \E o \in Ops : Notify(o)
             \/ NotifyShutdown \/ Join \/ QueueDrained \/ LanesDrained \/ Decide \/ Finalize \/ Idle
             \/ SpuriousWake \/ Arrive \/ Over \/ UNCHANGED vars
    BY <1>1, <1>8, QuietActions, QuietStep
  <1> QED
    BY <1>2, <1>3, <1>4, <1>5, <1>6, <1>7, <1>8 DEF Next, Owner

(* Every behaviour of the context keeps the inductive invariant.           *)
THEOREM Invariance == Spec => []IInv
  BY InitInv, InductiveInv, PTL DEF Spec

(* Every variable of the context has its type in every reachable state.    *)
THEOREM TypeCorrect == Spec => []TypeOK
  <1>1. IInv => TypeOK
    BY DEF IInv
  <1> QED
    BY <1>1, Invariance, PTL

(* The tickets of a lane find the entries of their operations, and the     *)
(* managed collectives of a communicator make their native calls in the    *)
(* order they were reserved, whatever order their predecessors complete in,*)
(* whichever tickets are abandoned and whenever shutdown is requested.     *)
THEOREM LanesKeepOrder == Spec => []LanesInOrder
  <1>1. IInv => LanesInOrder
    <2> SUFFICES ASSUME IInv PROVE LanesInOrder
      OBVIOUS
    <2>1. ASSUME NEW k \in Managed, place[k] = "lane"
          PROVE  find(CommOf[k], ticket[k]) # 0
                 /\ entries[CommOf[k]][find(CommOf[k], ticket[k])].op = k
      <3>1. token[k] # "none"
        BY <2>1 DEF IInv, LaneInv
      <3> QED
        BY <2>1, <3>1, FindOwn DEF IInv
    <2>2. TicketsContiguous
      BY <2>1 DEF TicketsContiguous
    <2>3. DOMAIN initiated = 1 .. Len(initiated)
      BY DEF IInv, TypeOK
    <2>4. LaneOrder
      BY <2>3 DEF IInv, OrderInv, Before, LaneOrder
    <2> QED
      BY <2>2, <2>4 DEF LanesInOrder
  <1> QED
    BY <1>1, Invariance, PTL

(* m_requests and m_active stay parallel through MPI_Testsome, retirement  *)
(* and compaction, a group counts the requests it still has in them, and   *)
(* its receiver gets its value when there is none left.                    *)
THEOREM RequestsAccounted == Spec => []RequestsRetire
  <1>1. IInv => RequestsRetire
    <2> SUFFICES ASSUME IInv PROVE RequestsRetire
      OBVIOUS
    <2>0. TypeOK /\ TableInv /\ GroupInv
      BY DEF IInv
    <2>1. DOMAIN requests = 1 .. Len(requests)
      BY <2>0 DEF TypeOK
    <2>2. RequestTable
      BY <2>0, <2>1 DEF TableInv, GroupInv, Living, Reported, RequestTable
    <2>3. ASSUME NEW o \in Ops, place[o] \in {"completed", "retired"}
          PROVE  remaining[o] = 0 /\ \A i \in DOMAIN requests : requests[i] # None => requests[i][1] # o
      <3>1. remaining[o] = 0
        BY <2>0, <2>3 DEF GroupInv
      <3>2. /\ Cardinality(Living(o)) \in Nat /\ Cardinality(Reported(o)) \in Nat /\ IsFiniteSet(Living(o))
            /\ 0 = Cardinality(Living(o)) + Cardinality(Reported(o))
        BY <2>0, <3>1, GroupFinite DEF GroupInv
      <3>3. Cardinality(Living(o)) = 0
        BY <3>2
      <3>4. Living(o) = {}
        BY <3>2, <3>3, FS_EmptySet
      <3>5. \A i \in DOMAIN requests : requests[i] # None => active[i].group # o /\ requests[i][1] = active[i].group
        BY <2>0, <2>1, <3>4 DEF Living, TableInv
      <3> QED
        BY <3>1, <3>5
    <2> QED
      BY <2>2, <2>3 DEF RequestsRetire, CompleteOnlyWhenDone
  <1> QED
    BY <1>1, Invariance, PTL

(* m_outstanding is the number of operations that shutdown waits for.      *)
THEOREM OutstandingCounts == Spec => []OutstandingExact
  <1>1. IInv => OutstandingExact
    BY DEF IInv, CountInv, OutstandingExact
  <1> QED
    BY <1>1, Invariance, PTL

(* An application that joins its started collectives before it returns is  *)
(* shut down cleanly: the count is exact, the owner leaves no operation, no*)
(* request and no lane entry behind, and no std::terminate path is taken.  *)
THEOREM ShutdownIsClean == ASSUME Drained PROVE Spec => []ShutdownClean
  <1>1. IInv => ShutdownClean
    <2> SUFFICES ASSUME IInv PROVE ShutdownClean
      OBVIOUS
    <2>0. /\ TypeOK /\ PhaseInv /\ CountInv /\ QueueInv /\ TableInv /\ GroupInv /\ LaneInv /\ DrainedInv
      BY DEF IInv
    <2>1. OutstandingExact /\ NoTerminate
      BY <2>0 DEF CountInv, OutstandingExact, DrainedInv, NoTerminate
    <2>2. ASSUME owner = "gone"
          PROVE  /\ queue = <<>> /\ requests = <<>> /\ \A c \in Comms : entries[c] = <<>>
                 /\ \A o \in Ops : place[o] \in {"new", "dropped", "retired"}
      <3>1. ~accepting /\ outstanding = 0
        BY <2>0, <2>2 DEF PhaseInv, TypeOK
      <3>2. \A o \in Ops : place[o] \notin {"lane", "queued", "flight", "completed"}
        BY <2>0, <3>1, OwnedCounts
      <3>3. \A o \in Ops : place[o] # "popped"
        BY <2>0, <3>1 DEF DrainedInv, LaneInv
      <3>4. \A o \in Ops : place[o] \in {"new", "dropped", "retired"}
        BY <2>0, <3>2, <3>3 DEF TypeOK
      <3>5. queue = <<>>
        <4> SUFFICES ASSUME queue # <<>> PROVE FALSE
          OBVIOUS
        <4>1. queue \in Seq(Ops) /\ 1 \in 1 .. Len(queue)
          BY <2>0 DEF TypeOK
        <4>2. queue[1] \in Ops /\ place[queue[1]] = "queued"
          BY <2>0, <4>1, SequenceElements DEF QueueInv
        <4> QED
          BY <3>2, <4>2
      <3>6. \A c \in Comms : entries[c] = <<>>
        <4> SUFFICES ASSUME NEW c \in Comms, entries[c] # <<>> PROVE FALSE
          OBVIOUS
        <4>1. Head(entries[c]).op \in Ops /\ place[Head(entries[c]).op] = "lane"
          BY <2>0, HeadEntry
        <4> QED
          BY <3>2, <4>1
      <3>7. requests = <<>>
        <4> SUFFICES ASSUME requests # <<>> PROVE FALSE
          OBVIOUS
        <4>1. requests \in Seq((Ops \X Nat) \cup {None})
          BY <2>0 DEF TypeOK
        <4>2. 1 \in 1 .. Len(requests) /\ DOMAIN requests = 1 .. Len(requests)
          BY <4>1, EmptySeq, LenProperties
        <4>3. requests[1] # None /\ Len(active) = Len(requests)
          BY <2>0, <2>2, <4>2 DEF TableInv, Retiring
        <4>4. active[1] \in [group : Ops, index : Nat]
          BY <2>0, <4>2, <4>3, SequenceElements
        <4>5. PICK o \in Ops : o = active[1].group
          BY <4>4
        <4>6. 1 \in Living(o)
          BY <4>2, <4>3, <4>5 DEF Living
        <4>7. /\ Cardinality(Living(o)) \in Nat /\ Cardinality(Reported(o)) \in Nat
              /\ Cardinality(Living(o)) # 0
          BY <2>0, <4>6, GroupFinite, FS_EmptySet
        <4>8. remaining[o] # 0
          BY <2>0, <4>7 DEF GroupInv
        <4> QED
          BY <2>0, <3>2, <4>8 DEF GroupInv
      <3> QED
        BY <3>4, <3>5, <3>6, <3>7
    <2>3. ShutdownLosesNothing
      BY <2>2 DEF ShutdownLosesNothing
    <2> QED
      BY <2>1, <2>3 DEF ShutdownClean
  <1> QED
    BY <1>1, Invariance, PTL

(* Whoever gives the sleeping owner something to do still owes a notify.   *)
LEMMA SleepStep ==
  ASSUME IInv, NoSleepOnWork, [Next]_vars
  PROVE  NoSleepOnWork'
  <1>1. CASE UNCHANGED <<owner, queue, entries, stopping, outstanding, client, main>>
    BY <1>1 DEF NoSleepOnWork, hasReadyManagedCollective, laneReady
  <1>2. ASSUME NEW o \in Ops, Submit(o) PROVE NoSleepOnWork'
    BY <1>2 DEF Submit, NoSleepOnWork
  <1>3. ASSUME NEW o \in Ops, Notify(o) PROVE NoSleepOnWork'
    BY <1>3 DEF Notify, NoSleepOnWork
  <1>4. ASSUME NEW k \in Managed, Commit(k) \/ Abandon(k) PROVE NoSleepOnWork'
    <2>1. k \in client'
      BY <1>4 DEF Commit, Abandon
    <2> QED
      BY <2>1 DEF NoSleepOnWork
  <1>5. ASSUME NEW k \in Managed, Reserve(k) PROVE NoSleepOnWork'
    <2>1. /\ UNCHANGED <<queue, owner, client, main, stopping>> /\ ~stopping
      <3>1. main = "app" /\ UNCHANGED <<queue, owner, client, main, stopping>>
        BY <1>5 DEF Reserve, phaseVars, ownerVars
      <3> QED
        BY <3>1 DEF IInv, PhaseInv
    <2>2. ASSUME NEW d \in Comms, laneReady(d)' PROVE laneReady(d)
      <3> DEFINE c == CommOf[k]
                 e == [op |-> k, start |-> None, state |-> "reserved"]
      <3>1. c \in Comms /\ e \in Entry /\ e.state = "reserved"
        BY MpiConstants DEF MpiConstants, Entry
      <3>2. entries \in [Comms -> Seq(Entry)] /\ entries' = [entries EXCEPT ![c] = Append(entries[c], e)]
        BY <1>5 DEF IInv, TypeOK, Reserve
      <3> HIDE DEF c, e
      <3>3. CASE d # c
        BY <2>2, <3>1, <3>2, <3>3 DEF laneReady
      <3>4. CASE d = c
        <4>1. entries'[c] = Append(entries[c], e) /\ entries[c] \in Seq(Entry)
          BY <3>1, <3>2
        <4>2. CASE entries[c] = <<>>
          <5>1. Head(entries'[c]) = e
            BY <3>1, <4>1, <4>2
          <5> QED
            BY <2>2, <3>1, <3>4, <5>1 DEF laneReady
        <4>3. CASE entries[c] # <<>>
          <5>1. Head(entries'[c]) = Head(entries[c])
            BY <3>1, <4>1, <4>3
          <5> QED
            BY <2>2, <3>4, <4>3, <5>1 DEF laneReady
        <4> QED
          BY <4>2, <4>3
      <3> QED
        BY <3>3, <3>4
    <2>3. ~hasReadyManagedCollective => ~hasReadyManagedCollective'
      BY <2>2 DEF hasReadyManagedCollective
    <2> QED
      BY <2>1, <2>3 DEF NoSleepOnWork
  <1>6. CASE RequestShutdown
    BY <1>6 DEF RequestShutdown, NoSleepOnWork
  <1>7. CASE NotifyShutdown
    BY <1>7 DEF NotifyShutdown, NoSleepOnWork
  <1>8. CASE Join
    <2>1. owner' = "gone"
      BY <1>8 DEF Join, ownerVars
    <2> QED
      BY <2>1 DEF NoSleepOnWork
  <1>9. CASE Idle
    <2>1. CASE owner' = "sleep"
      <3>1. queue = <<>> /\ ~hasReadyManagedCollective /\ ~(stopping /\ outstanding = 0)
        BY <1>9, <2>1 DEF Idle
      <3>2. UNCHANGED <<queue, entries, stopping, outstanding>>
        BY <1>9 DEF Idle, queueVars, phaseVars, laneVars
      <3> QED
        BY <3>1, <3>2 DEF NoSleepOnWork, hasReadyManagedCollective, laneReady
    <2> QED
      BY <2>1 DEF NoSleepOnWork
  <1>10. CASE \/ PopCommand \/ QueueDrained \/ StartNative \/ Deliver \/ FinishOperation \/ PopCollective
              \/ StartCollective \/ LanesDrained \/ TestSome \/ Retire \/ Compact \/ Decide \/ Finalize
              \/ SpuriousWake
    <2>1. back \in {"queue", "retire"}
      BY DEF IInv, TypeOK
    <2>2. owner' # "sleep"
      BY <1>10, <2>1 DEF PopCommand, QueueDrained, StartNative, Deliver, FinishOperation, PopCollective,
         StartCollective, LanesDrained, TestSome, Retire, Compact, Decide, Finalize, SpuriousWake
    <2> QED
      BY <2>2 DEF NoSleepOnWork
  <1>11. ASSUME NEW k \in Managed, StartPredecessor(k) PROVE NoSleepOnWork'
    BY <1>1, <1>11 DEF StartPredecessor, queueVars, phaseVars, laneVars, ownerVars
  <1>12. CASE Arrive
    BY <1>1, <1>12 DEF Arrive, queueVars, phaseVars, laneVars, ownerVars
  <1>13. CASE Over \/ UNCHANGED vars
    BY <1>1, <1>13 DEF Over, vars
  <1> QED
    BY <1>2, <1>3, <1>4, <1>5, <1>6, <1>7, <1>8, <1>9, <1>10, <1>11, <1>12, <1>13 DEF Next, Owner

(* run() sleeps through no work: whenever its predicate is true while it   *)
(* sleeps, some thread that took the lock has its notify_one still to make.*)
THEOREM OwnerSleepsThroughNoWork == Spec => []NoSleepOnWork
  <1>1. Init => NoSleepOnWork
    BY DEF Init, NoSleepOnWork
  <1>2. IInv /\ NoSleepOnWork /\ [Next]_vars => NoSleepOnWork'
    BY SleepStep
  <1> QED
    BY <1>1, <1>2, Invariance, PTL DEF Spec
=============================================================================
