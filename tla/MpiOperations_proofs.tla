------------------------ MODULE MpiOperations_proofs ------------------------
(***************************************************************************)
(* Every native call of the MPI context is one MPI accepts, on memory and  *)
(* a communicator that stay until it is complete: NativeCallsSound for     *)
(* every set of buffers, layouts and dimensions and any number of ranks.   *)
(***************************************************************************)
EXTENDS MpiOperations, FiniteSetTheorems, WellFoundedInduction, TLAPS

-----------------------------------------------------------------------------
(* The inductive invariant.                                                *)

Kept == {"input", "output", "layout"}

BatchType == [active : BOOLEAN, uses : SUBSET Kept, lifetimes : SUBSET Kept, owns : BOOLEAN]

RequestType == [uses : SUBSET Kept, lifetimes : SUBSET Kept]

TypeInv ==
    /\ communicators \in Seq(Nat) /\ Len(communicators) >= 1 /\ communicators[1] = 1
    /\ \A n \in DOMAIN existing : existing[n].size \in 1 .. WorldSize
    /\ batch \in BatchType /\ m_requests \in Seq(RequestType) /\ inMpi \in Nat
    /\ life \in {"running", "aborted", "terminated", "finished"}

\* A batch is there between the call and trackNative.
BatchInv == life = "running" /\ call = Idle => batch = NoBatch

\* A batch with a request owns it until it is handed over.
OwnsInv == batch.active => batch.owns

IInv == TypeInv /\ BatchInv /\ OwnsInv /\ CallsInBounds /\ CommunicatorsOwned /\ RequestsOwned

\* What CallsInBounds says of a call.
Bounded(made) ==
    /\ made.reads \subseteq made.input /\ made.writes \subseteq made.output
    /\ made.reads \cap made.writes = {}
    /\ \A c \in made.counts : c <= IntMax
    /\ made.op = "gather" /\ made.writes # {} => made.result = Cardinality(made.writes)
    /\ made.op = "gatherV" => made.result >= Cardinality(made.writes)

\* The owners a call hands over are those of the memory it uses.
Owned(made) ==
    /\ made.op \in {"send", "receive", "allReduce", "reduce", "gather", "gatherV", "barrier"}
    /\ made.reads # {} => made.op \notin {"receive", "barrier"}
    /\ made.writes # {} => made.op \notin {"send", "barrier"}

\* The callback's checks hold and MPI accepted the call.
Called(id, made) ==
    /\ known(id) /\ call' = [made EXCEPT !.comm = communicators[id]]
    /\ \E active \in BOOLEAN :
          batch' = NativeRequestBatch(made, active) /\ inMpi' = inMpi + (IF active THEN 1 ELSE 0)
    /\ UNCHANGED <<communicators, existing, m_requests, life>>

-----------------------------------------------------------------------------
(* Calls.                                                                  *)

\* Every record Made(...) has its fields.
LEMMA MadeFields ==
    ASSUME NEW op, NEW reads, NEW writes, NEW input, NEW output, NEW counts, NEW result, NEW native
    PROVE  LET made == Made(op, reads, writes, input, output, counts, result)
               kept == [made EXCEPT !.comm = native]
           IN  /\ made.op = op /\ made.reads = reads /\ made.writes = writes /\ made.input = input
               /\ made.output = output /\ made.counts = counts /\ made.result = result
               /\ kept.op = op /\ kept.reads = reads /\ kept.writes = writes /\ kept.input = input
               /\ kept.output = output /\ kept.counts = counts /\ kept.result = result
               /\ kept.comm = native
BY DEF Made

\* The batch of a call keeps the owners of what MPI uses.
LEMMA BatchOwns ==
    ASSUME NEW made, NEW active \in BOOLEAN, Owned(made)
    PROVE  LET b == NativeRequestBatch(made, active)
           IN  /\ b \in BatchType /\ b.owns = TRUE /\ b.active = active
               /\ b.uses \subseteq b.lifetimes
<1> DEFINE b == NativeRequestBatch(made, active)
<1>1. b.owns = TRUE /\ b.active = active
  BY DEF NativeRequestBatch
<1>2. b.uses \in SUBSET Kept /\ b.lifetimes \in SUBSET Kept /\ b.uses \subseteq b.lifetimes
  BY DEF NativeRequestBatch, Owned, Kept
<1>3. b = [active |-> b.active, owns |-> b.owns, uses |-> b.uses, lifetimes |-> b.lifetimes]
  BY DEF NativeRequestBatch
<1>4. b \in BatchType
  <2> HIDE DEF b
  <2> QED BY <1>1, <1>2, <1>3 DEF BatchType
<1> QED BY <1>1, <1>2, <1>4

\* A call within bounds, on a communicator of the table, keeps the invariant.
LEMMA CalledStep ==
    ASSUME IInv, life = "running", call = Idle, NEW id \in Ids,
           NEW op, NEW reads, NEW writes, NEW input, NEW output, NEW counts, NEW result,
           LET made == Made(op, reads, writes, input, output, counts, result)
           IN  Bounded(made) /\ Owned(made) /\ Called(id, made)
    PROVE  IInv'
<1> DEFINE made == Made(op, reads, writes, input, output, counts, result)
<1>1. Bounded(made) /\ Owned(made) /\ Called(id, made)
  OBVIOUS
<1>2. Bounded(call')
  BY <1>1, MadeFields DEF Bounded, Called
<1>3. CallsInBounds'
  BY <1>2 DEF CallsInBounds, Bounded
<1>4. call'.comm = communicators[id] /\ call'.op # "none"
  BY <1>1, MadeFields DEF Called, Owned
<1>5. communicators[id] \in DOMAIN existing
  BY <1>1 DEF Called, known, IInv, CommunicatorsOwned
<1>6. UNCHANGED <<communicators, existing, m_requests, life>>
  BY <1>1 DEF Called
<1>7. CommunicatorsOwned'
  BY <1>4, <1>5, <1>6 DEF IInv, CommunicatorsOwned
<1>8. PICK active \in BOOLEAN :
        batch' = NativeRequestBatch(made, active) /\ inMpi' = inMpi + (IF active THEN 1 ELSE 0)
  BY <1>1 DEF Called
<1>9. batch' \in BatchType /\ batch'.owns = TRUE /\ batch'.active = active
      /\ batch'.uses \subseteq batch'.lifetimes
  BY <1>1, <1>8, BatchOwns
<1>10. batch.owns = FALSE
  BY DEF IInv, BatchInv, NoBatch
<1>11. inMpi = Len(m_requests) /\ inMpi \in Nat
  BY <1>10 DEF IInv, RequestsOwned, TypeInv
<1>12. RequestsOwned'
  BY <1>6, <1>8, <1>9, <1>11 DEF IInv, RequestsOwned
<1>13. TypeInv'
  BY <1>6, <1>8, <1>9, <1>11 DEF IInv, TypeInv
<1>14. BatchInv'
  BY <1>4 DEF BatchInv, Idle
<1>15. OwnsInv'
  BY <1>9 DEF OwnsInv
<1> QED BY <1>3, <1>7, <1>12, <1>13, <1>14, <1>15 DEF IInv

\* A step that changes nothing.
LEMMA IdleStep ==
    ASSUME IInv, UNCHANGED operations
    PROVE  IInv'
<1>1. UNCHANGED <<communicators, existing, call, batch, m_requests, inMpi, life>>
  BY DEF operations, requestTable
<1>2. TypeInv'
  BY <1>1 DEF IInv, TypeInv
<1>3. BatchInv' /\ OwnsInv'
  BY <1>1 DEF IInv, BatchInv, OwnsInv
<1>4. CallsInBounds'
  BY <1>1 DEF IInv, CallsInBounds
<1>5. CommunicatorsOwned' /\ RequestsOwned'
  BY <1>1 DEF IInv, CommunicatorsOwned, RequestsOwned
<1> QED BY <1>2, <1>3, <1>4, <1>5 DEF IInv

\* An exception on the owner ends the job.
LEMMA AbortStep ==
    ASSUME IInv, Abort
    PROVE  IInv'
<1>1. NoBatch \in BatchType
  BY DEF NoBatch, BatchType
<1> QED BY <1>1 DEF IInv, TypeInv, BatchInv, OwnsInv, NoBatch, CallsInBounds, CommunicatorsOwned, RequestsOwned, Abort

-----------------------------------------------------------------------------
(* Sizes.                                                                  *)

\* The operands of a division with positive divisor.
LEMMA Quotient ==
    ASSUME NEW o \in Nat, NEW n \in Nat \ {0}
    PROVE  o \div n \in Nat /\ n * (o \div n) <= o
OBVIOUS

\* Below the word size nothing wraps around.
LEMMA NoWrap ==
    ASSUME NEW t \in Nat, NEW w \in Nat, t < w
    PROVE  t % w = t
OBVIOUS

\* Without a remainder, the quotient times the divisor is the dividend.
LEMMA ExactQuotient ==
    ASSUME NEW o \in Nat, NEW n \in Nat \ {0}, o % n = 0
    PROVE  o \div n \in Nat /\ (o \div n) * n = o /\ o \div n <= o
<1>1. PICK k \in Nat : k = o \div n
  OBVIOUS
<1>2. o = n * k + (o % n)
  BY <1>1
<1>3. o = n * k
  BY <1>1, <1>2
<1>4. k <= n * k
  BY <1>1
<1> QED BY <1>1, <1>3, <1>4

\* n parts of i bytes fit if one part fits into an n-th.
LEMMA PartsFit ==
    ASSUME NEW i \in Nat, NEW o \in Nat, NEW n \in Nat \ {0}, i <= o \div n
    PROVE  i * n \in Nat /\ i * n <= o
<1>1. PICK k \in Nat : k = o \div n
  BY Quotient
<1>2. n * k <= o
  BY <1>1, Quotient
<1>3. i <= k
  BY <1>1
<1>4. i * n <= n * k
  BY <1>3
<1> QED BY <1>2, <1>4

\* Bytes of a buffer, and the first ones of it.
LEMMA FirstOf ==
    ASSUME NEW b \in Buffers, NEW size \in Nat, size <= b.size
    PROVE  /\ First(b, size) \subseteq Bytes(b)
           /\ IsFiniteSet(First(b, size)) /\ Cardinality(First(b, size)) = size
<1>1. PICK at \in Nat, whole \in Nat : at = b.at /\ whole = b.size
  BY OperationsConstants
<1>2. First(b, size) = at .. at + size - 1 /\ Bytes(b) = at .. at + whole - 1
  BY <1>1 DEF First, Bytes
<1>3. size <= whole
  BY <1>1
<1>4. at .. at + size - 1 \subseteq at .. at + whole - 1
  BY <1>3
<1>5. PICK last \in Int : last = at + size - 1
  OBVIOUS
<1>6. IsFiniteSet(at .. last) /\ Cardinality(at .. last) = IF at > last THEN 0 ELSE last - at + 1
  BY <1>5, FS_Interval
<1>7. Cardinality(at .. last) = size
  BY <1>5, <1>6
<1> QED BY <1>2, <1>4, <1>5, <1>6, <1>7

\* buffersOverlap is exact: buffers it accepts share no byte.
LEMMA Apart ==
    ASSUME NEW b \in Buffers, NEW c \in Buffers, ~buffersOverlap(b, c)
    PROVE  Bytes(b) \cap Bytes(c) = {}
<1>1. PICK x \in Nat, s \in Nat : x = b.at /\ s = b.size
  BY OperationsConstants
<1>2. PICK y \in Nat, t \in Nat : y = c.at /\ t = c.size
  BY OperationsConstants
<1>3. ~(s # 0 /\ t # 0 /\ IF x <= y THEN y - x < s ELSE x - y < t)
  BY <1>1, <1>2 DEF buffersOverlap
<1>4. (x .. x + s - 1) \cap (y .. y + t - 1) = {}
  BY <1>3
<1> QED BY <1>1, <1>2, <1>4 DEF Bytes

-----------------------------------------------------------------------------
(* Point-to-point operations and reductions.                               *)

\* send and receive name the bytes of their buffer.
LEMMA MessageStep ==
    ASSUME IInv, life = "running", call = Idle, NEW id \in Ids, NEW b \in Buffers,
           startSend(b, id) \/ startReceive(b, id)
    PROVE  IInv'
<1>1. b.size \in Nat /\ First(b, b.size) = Bytes(b)
  BY OperationsConstants DEF First, Bytes
<1>2. CASE Abort
  BY <1>2, AbortStep
<1>3. CASE validBuffer(b) /\ Called(id, Made("send", Bytes(b), {}, Bytes(b), {}, {b.size}, 0))
  <2>1. Bounded(Made("send", Bytes(b), {}, Bytes(b), {}, {b.size}, 0))
    BY <1>3, MadeFields DEF Bounded, validBuffer
  <2>2. Owned(Made("send", Bytes(b), {}, Bytes(b), {}, {b.size}, 0))
    BY MadeFields DEF Owned
  <2> QED BY <1>3, <2>1, <2>2, CalledStep
<1>4. CASE validBuffer(b) /\ Called(id, Made("receive", {}, First(b, b.size), {}, Bytes(b), {b.size}, 0))
  <2>1. Bounded(Made("receive", {}, First(b, b.size), {}, Bytes(b), {b.size}, 0))
    BY <1>1, <1>4, MadeFields DEF Bounded, validBuffer
  <2>2. Owned(Made("receive", {}, First(b, b.size), {}, Bytes(b), {b.size}, 0))
    BY MadeFields DEF Owned
  <2> QED BY <1>4, <2>1, <2>2, CalledStep
<1> QED BY <1>2, <1>3, <1>4 DEF startSend, startReceive, Perform, Called

\* A reduction reads and writes whole elements, as many bytes as the input has.
LEMMA ReducedBytes ==
    ASSUME NEW input \in Buffers, NEW scalar \in Scalars, validBuffer(input), input.size % scalar = 0
    PROVE  LET elements == input.size \div scalar
           IN  /\ elements * scalar = input.size /\ elements <= IntMax
               /\ First(input, elements * scalar) = Bytes(input)
<1>1. PICK size \in Nat : size = input.size
  BY OperationsConstants
<1>2. scalar \in Nat \ {0} /\ IntMax \in Nat
  BY OperationsConstants
<1>3. size % scalar = 0 /\ size <= IntMax
  BY <1>1 DEF validBuffer
<1>4. PICK n \in Nat : n = size \div scalar
  BY <1>2, <1>3, ExactQuotient
<1>5. n * scalar = size /\ n <= size
  BY <1>2, <1>3, <1>4, ExactQuotient
<1>6. n <= IntMax
  BY <1>2, <1>3, <1>5
<1>7. First(input, size) = Bytes(input)
  BY <1>1 DEF First, Bytes
<1> QED BY <1>1, <1>4, <1>5, <1>6, <1>7

\* In place, or with buffers apart, an allReduce stays in its buffers.
LEMMA AllReduceStep ==
    ASSUME IInv, life = "running", call = Idle, NEW id \in Ids,
           NEW input \in Buffers, NEW output \in Buffers, NEW scalar \in Scalars,
           startAllReduce(input, output, scalar, id)
    PROVE  IInv'
<1> DEFINE inPlace == input.at = output.at
           size == (input.size \div scalar) * scalar
           reads == IF inPlace THEN {} ELSE First(input, size)
           writes == First(output, size)
           made == Made("allReduce", reads, writes, Bytes(input), Bytes(output),
                        {input.size \div scalar}, 0)
           checks == /\ validBuffer(input) /\ validBuffer(output)
                     /\ input.size % scalar = 0 /\ output.size >= input.size
                     /\ inPlace \/ ~buffersOverlap(input, output)
<1>1. Abort \/ (checks /\ Called(id, made))
  BY DEF startAllReduce, Perform, Called
<1>2. CASE Abort
  BY <1>2, AbortStep
<1>3. CASE checks /\ Called(id, made)
  <2>1. /\ size = input.size /\ input.size \div scalar <= IntMax
        /\ First(input, size) = Bytes(input)
    BY <1>3, ReducedBytes
  <2>2. input.size \in Nat /\ output.size \in Nat /\ input.size <= output.size
    BY <1>3, OperationsConstants
  <2>3. writes \subseteq Bytes(output)
    BY <2>1, <2>2, FirstOf
  <2>4. reads \subseteq Bytes(input) /\ reads \cap writes = {}
    BY <1>3, <2>1, <2>3, Apart
  <2> HIDE DEF reads, writes
  <2>5. Bounded(made)
    BY <2>1, <2>3, <2>4, MadeFields DEF Bounded
  <2>6. Owned(made)
    BY MadeFields DEF Owned
  <2> QED BY <1>3, <2>5, <2>6, CalledStep
<1> QED BY <1>1, <1>2, <1>3

\* A reduce writes at the root only.
LEMMA ReduceStep ==
    ASSUME IInv, life = "running", call = Idle, NEW id \in Ids,
           NEW input \in Buffers, NEW output \in Buffers, NEW scalar \in Scalars, NEW root,
           startReduce(input, output, scalar, root, id)
    PROVE  IInv'
<1> DEFINE isRoot == known(id) /\ info(id).rank = root
           size == (input.size \div scalar) * scalar
           reads == First(input, size)
           writes == IF isRoot THEN First(output, size) ELSE {}
           made == Made("reduce", reads, writes, Bytes(input), Bytes(output),
                        {input.size \div scalar}, 0)
           checks == /\ validBuffer(input) /\ input.size % scalar = 0
                     /\ isRoot => /\ validBuffer(output) /\ output.size >= input.size
                                  /\ ~buffersOverlap(input, output)
<1>1. Abort \/ (checks /\ Called(id, made))
  BY DEF startReduce, Perform, Called
<1>2. CASE Abort
  BY <1>2, AbortStep
<1>3. CASE checks /\ Called(id, made)
  <2>1. size = input.size /\ input.size \div scalar <= IntMax /\ reads = Bytes(input)
    BY <1>3, ReducedBytes
  <2>2. writes \subseteq Bytes(output) /\ Bytes(input) \cap writes = {}
    <3>1. CASE isRoot
      <4>1. input.size \in Nat /\ output.size \in Nat /\ input.size <= output.size
        BY <1>3, <3>1, OperationsConstants
      <4>2. First(output, input.size) \subseteq Bytes(output)
        BY <4>1, FirstOf
      <4>3. Bytes(input) \cap Bytes(output) = {}
        BY <1>3, <3>1, Apart
      <4> QED BY <2>1, <3>1, <4>2, <4>3
    <3>2. CASE ~isRoot
      BY <3>2
    <3> QED BY <3>1, <3>2
  <2> HIDE DEF reads, writes, isRoot
  <2>5. Bounded(made)
    BY <2>1, <2>2, MadeFields DEF Bounded
  <2>6. Owned(made)
    BY MadeFields DEF Owned
  <2> QED BY <1>3, <2>5, <2>6, CalledStep
<1> QED BY <1>1, <1>2, <1>3

-----------------------------------------------------------------------------
(* The sum of the segments.                                                *)

\* A set of natural numbers that is not empty has a least one.
LEMMA LeastNat ==
    ASSUME NEW T, T \subseteq Nat, T # {}
    PROVE  \E x \in T : \A y \in T : x <= y
<1> DEFINE R == OpToRel(<, Nat)
<1>1. IsWellFoundedOn(R, Nat)
  BY NatLessThanWellFounded
<1>2. \A x, y \in Nat : <<y, x>> \in R <=> y < x
  BY DEF OpToRel
<1> HIDE DEF R
<1>3. \E x \in T : \A y \in T : ~ (<<y, x>> \in R)
  BY <1>1, WFMin
<1>4. PICK x \in T : \A y \in T : ~ (<<y, x>> \in R)
  BY <1>3
<1>5. ASSUME NEW y \in T PROVE x <= y
  <2>1. x \in Nat /\ y \in Nat
    OBVIOUS
  <2>2. ~ (y < x)
    BY <1>2, <1>4, <2>1
  <2> QED BY <2>1, <2>2
<1> QED BY <1>5

\* The loop's sum after each round.
Sums(counts, n, g) ==
    /\ g \in [0 .. n -> Nat] /\ g[0] = 0
    /\ \A i \in 1 .. n : g[i] = (g[i - 1] + counts[i]) % Word

\* There are such sums, up to every round.
LEMMA SumsExist ==
    ASSUME NEW counts \in Seq(Nat)
    PROVE  \A n \in 0 .. Len(counts) : \E g : Sums(counts, n, g)
<1> DEFINE T == {n \in 0 .. Len(counts) : ~ \E g : Sums(counts, n, g)}
<1>1. SUFFICES T = {}
  OBVIOUS
<1>2. SUFFICES ASSUME T # {} PROVE FALSE
  OBVIOUS
<1>3. PICK n \in T : \A m \in T : n <= m
  <2>1. T \subseteq Nat
    OBVIOUS
  <2> QED BY <1>2, <2>1, LeastNat
<1>4. n \in 0 .. Len(counts) /\ Len(counts) \in Nat
  OBVIOUS
<1>5. n # 0
  <2>1. Sums(counts, 0, [i \in 0 .. 0 |-> 0])
    BY DEF Sums
  <2> QED BY <2>1
<1>6. n - 1 \in 0 .. Len(counts) /\ n - 1 \notin T
  <2>1. n \in Nat /\ n - 1 \in 0 .. Len(counts) /\ ~ (n <= n - 1)
    BY <1>4, <1>5
  <2> HIDE DEF T
  <2> QED BY <1>3, <2>1
<1>7. PICK g : Sums(counts, n - 1, g)
  BY <1>6
<1> DEFINE h == [i \in 0 .. n |-> IF i = n THEN (g[n - 1] + counts[n]) % Word ELSE g[i]]
<1>8. g \in [0 .. n - 1 -> Nat]
  BY <1>7 DEF Sums
<1>9. counts[n] \in Nat /\ g[n - 1] \in Nat
  BY <1>4, <1>5, <1>8
<1>10. (g[n - 1] + counts[n]) % Word \in Nat
  <2>1. Word \in Nat \ {0}
    BY OperationsConstants
  <2> QED BY <1>9, <2>1
<1>11. h \in [0 .. n -> Nat]
  BY <1>4, <1>8, <1>10
<1>12. h[0] = 0
  BY <1>4, <1>5, <1>7 DEF Sums
<1>13. \A i \in 1 .. n : h[i] = (h[i - 1] + counts[i]) % Word
  BY <1>4, <1>5, <1>7 DEF Sums
<1>14. Sums(counts, n, h)
  BY <1>11, <1>12, <1>13 DEF Sums
<1> QED BY <1>14

\* The function of segmentBytes exists, and adds the segments up.
LEMMA SegmentSums ==
    ASSUME NEW counts \in Seq(Nat)
    PROVE  \E g : Sums(counts, Len(counts), g) /\ segmentBytes(counts) = g[Len(counts)]
<1> DEFINE N == Len(counts)
           Is(f) == f = [i \in 0 .. N |-> IF i = 0 THEN 0 ELSE (f[i - 1] + counts[i]) % Word]
           f == CHOOSE g : Is(g)
<1>1. N \in Nat
  OBVIOUS
<1>2. PICK g : Sums(counts, N, g)
  BY <1>1, SumsExist
<1>3. Is(g)
  <2>1. g = [i \in 0 .. N |-> g[i]]
    BY <1>2 DEF Sums
  <2>2. \A i \in 0 .. N : g[i] = IF i = 0 THEN 0 ELSE (g[i - 1] + counts[i]) % Word
    BY <1>1, <1>2 DEF Sums
  <2> QED BY <2>1, <2>2
<1>4. Is(f)
  BY <1>3
<1>5. segmentBytes(counts) = f[N]
  BY DEF segmentBytes
<1> HIDE DEF f
<1>6. f = g
  <2> DEFINE D == {n \in 0 .. N : f[n] # g[n]}
  <2>1. SUFFICES D = {}
    <3>1. ASSUME D = {} PROVE f = g
      <4>1. \A n \in 0 .. N : f[n] = g[n]
        BY <3>1
      <4>2. DOMAIN f = 0 .. N /\ DOMAIN g = 0 .. N
        BY <1>3, <1>4
      <4>3. f = [n \in 0 .. N |-> f[n]] /\ g = [n \in 0 .. N |-> g[n]]
        BY <1>3, <1>4
      <4> QED BY <4>1, <4>3
    <3> QED BY <3>1
  <2>2. SUFFICES ASSUME D # {} PROVE FALSE
    OBVIOUS
  <2>3. PICK n \in D : \A m \in D : n <= m
    <3>1. D \subseteq Nat
      OBVIOUS
    <3> QED BY <2>2, <3>1, LeastNat
  <2>4. n \in 0 .. N /\ n # 0
    BY <1>1, <1>3, <1>4, <2>3
  <2>5. f[n - 1] = g[n - 1]
    BY <1>1, <2>3, <2>4
  <2> QED BY <1>1, <1>3, <1>4, <2>3, <2>4, <2>5
<1> QED BY <1>2, <1>5, <1>6

\* The bytes of the segments 1 .. n of a layout, whose receive buffer starts at `at'.
Covered(at, counts, offsets, n) ==
    UNION {at + offsets[i] .. at + offsets[i] + counts[i] - 1 : i \in 1 .. n}

\* The sum counts every byte written at least once, and does not wrap around.
LEMMA SegmentsCounted ==
    ASSUME NEW at \in Nat, NEW counts \in Seq(Nat), NEW offsets \in Seq(Nat),
           Len(counts) = Len(offsets), Len(counts) <= IntMax,
           \A i \in DOMAIN counts : counts[i] <= IntMax,
           NEW g, Sums(counts, Len(counts), g)
    PROVE  \A n \in 0 .. Len(counts) :
              /\ IsFiniteSet(Covered(at, counts, offsets, n))
              /\ Cardinality(Covered(at, counts, offsets, n)) <= g[n]
              /\ g[n] <= n * IntMax
<1> DEFINE U(n) == Covered(at, counts, offsets, n)
           Good(n) == IsFiniteSet(U(n)) /\ Cardinality(U(n)) <= g[n] /\ g[n] <= n * IntMax
           T == {n \in 0 .. Len(counts) : ~ Good(n)}
<1>1. SUFFICES ASSUME T # {} PROVE FALSE
  OBVIOUS
<1>2. T \subseteq Nat
  OBVIOUS
<1>3. PICK n \in T : \A m \in T : n <= m
  BY <1>1, <1>2, LeastNat
<1>4. n \in 0 .. Len(counts) /\ Len(counts) \in Nat
  OBVIOUS
<1>5. IntMax \in Nat /\ Word \in Nat /\ IntMax * IntMax < Word
  BY OperationsConstants
<1>6. g \in [0 .. Len(counts) -> Nat] /\ g[0] = 0
  BY DEF Sums
<1>7. n # 0
  <2>1. U(0) = {}
    BY DEF Covered
  <2>2. IsFiniteSet({}) /\ Cardinality({}) = 0
    BY FS_EmptySet
  <2>3. g[0] <= 0 * IntMax
    BY <1>5, <1>6
  <2>4. Good(0)
    <3> HIDE DEF U
    <3>1. IsFiniteSet(U(0)) /\ Cardinality(U(0)) = 0
      BY <2>1, <2>2
    <3> QED BY <1>6, <2>3, <3>1
  <2> QED BY <1>3, <2>4
<1>8. n - 1 \in 0 .. Len(counts) /\ n - 1 \notin T
  <2>1. n \in Nat /\ n - 1 \in 0 .. Len(counts) /\ ~ (n <= n - 1)
    BY <1>4, <1>7
  <2> HIDE DEF T
  <2> QED BY <1>3, <2>1
<1>9. Good(n - 1)
  BY <1>8
<1>10. PICK k \in Nat, c \in Nat, o \in Nat, s \in Nat :
         k = n - 1 /\ c = counts[n] /\ o = offsets[n] /\ s = g[n - 1]
  <2>1. n \in 1 .. Len(counts) /\ n - 1 \in Nat
    BY <1>4, <1>7
  <2>2. counts[n] \in Nat /\ offsets[n] \in Nat /\ g[n - 1] \in Nat
    <3>1. n \in 1 .. Len(offsets)
      BY <2>1
    <3>2. counts[n] \in Nat
      BY <2>1
    <3>3. offsets[n] \in Nat
      BY <3>1
    <3>4. g[n - 1] \in Nat
      BY <1>6, <1>8
    <3> QED BY <3>2, <3>3, <3>4
  <2> QED BY <2>1, <2>2
<1>11. c <= IntMax /\ k + 1 <= IntMax
  <2>1. n \in DOMAIN counts
    BY <1>4, <1>7
  <2>2. c <= IntMax
    BY <1>10, <2>1
  <2>3. k + 1 = n /\ n <= Len(counts)
    BY <1>4, <1>10
  <2> QED BY <1>4, <1>5, <2>2, <2>3
<1> DEFINE seg == at + o .. at + o + c - 1
<1>12. IsFiniteSet(seg) /\ Cardinality(seg) = c
  <2>1. PICK a \in Int, b \in Int : a = at + o /\ b = at + o + c - 1
    OBVIOUS
  <2>2. IsFiniteSet(a .. b) /\ Cardinality(a .. b) = IF a > b THEN 0 ELSE b - a + 1
    BY FS_Interval
  <2> QED BY <2>1, <2>2
<1>13. U(n) = U(n - 1) \cup seg
  <2>1. 1 .. n = (1 .. n - 1) \cup {n}
    BY <1>4, <1>7
  <2> QED BY <1>10, <2>1 DEF Covered
<1>14. IsFiniteSet(U(n - 1)) /\ Cardinality(U(n - 1)) <= s /\ s <= k * IntMax
  BY <1>9, <1>10
<1>15. IsFiniteSet(U(n)) /\ Cardinality(U(n)) <= s + c
  <2> HIDE DEF seg, U
  <2>1. /\ IsFiniteSet(U(n - 1) \cup seg)
        /\ Cardinality(U(n - 1) \cup seg) =
             Cardinality(U(n - 1)) + Cardinality(seg) - Cardinality(U(n - 1) \cap seg)
    BY <1>12, <1>14, FS_Union
  <2>2. IsFiniteSet(U(n - 1) \cap seg)
    BY <1>12, <1>14, FS_Intersection
  <2>3. Cardinality(U(n - 1) \cap seg) \in Nat /\ Cardinality(U(n - 1)) \in Nat
    BY <1>14, <2>2, FS_CardinalityType
  <2> QED BY <1>12, <1>13, <1>14, <2>1, <2>3
<1>16. s + c <= n * IntMax /\ s + c < Word
  <2>1. n = k + 1
    BY <1>4, <1>10
  <2>2. k * IntMax \in Nat /\ IntMax * IntMax \in Nat /\ (k + 1) * IntMax = k * IntMax + IntMax
    BY <1>5
  <2>3. (k + 1) * IntMax <= IntMax * IntMax
    BY <1>5, <1>11
  <2>4. PICK x \in Nat, y \in Nat : x = k * IntMax /\ y = IntMax * IntMax
    BY <2>2
  <2>5. s + c <= x + IntMax /\ x + IntMax <= y /\ y < Word
    BY <1>5, <1>11, <1>14, <2>2, <2>3, <2>4
  <2>6. n * IntMax = x + IntMax
    BY <2>1, <2>2, <2>4
  <2> QED BY <1>5, <2>5, <2>6
<1>17. g[n] = s + c
  <2>1. g[n] = (s + c) % Word
    BY <1>4, <1>7, <1>10 DEF Sums
  <2>2. (s + c) % Word = s + c
    <3>1. PICK t \in Nat : t = s + c
      OBVIOUS
    <3>2. t < Word
      BY <1>16, <3>1
    <3>3. t % Word = t
      BY <1>5, <3>2, NoWrap
    <3> QED BY <3>1, <3>3
  <2> QED BY <2>1, <2>2
<1>18. Good(n)
  <2> HIDE DEF U
  <2> QED BY <1>15, <1>16, <1>17
<1> QED BY <1>18

-----------------------------------------------------------------------------
(* Gathers.                                                                *)

\* The size MPI reports of a communicator of the table.
LEMMA KnownSize ==
    ASSUME IInv, NEW id \in Ids, known(id)
    PROVE  info(id).size \in 1 .. WorldSize
<1>1. communicators[id] \in DOMAIN existing
  BY DEF known, IInv, CommunicatorsOwned
<1> QED BY <1>1 DEF IInv, TypeInv, info

\* When gathers() accepts the buffers, the parts of all ranks lie in the output and are
\* counted exactly.
LEMMA GatheredBytes ==
    ASSUME IInv, NEW id \in Ids, known(id), NEW input \in Buffers, NEW output \in Buffers,
           validBuffer(output), gathers(input, output, info(id).size)
    PROVE  LET writes == First(output, input.size * info(id).size)
           IN  /\ writes \subseteq Bytes(output)
               /\ (input.size * info(id).size) % Word = Cardinality(writes)
<1>1. PICK i \in Nat, o \in Nat : i = input.size /\ o = output.size
  BY OperationsConstants
<1>2. PICK n \in Nat \ {0} : n = info(id).size
  BY KnownSize, OperationsConstants
<1>3. i * n \in Nat /\ i * n <= o
  BY <1>1, <1>2, PartsFit DEF gathers
<1>4. PICK t \in Nat : t = i * n
  BY <1>3
<1>5. o <= IntMax /\ IntMax \in Nat /\ Word \in Nat /\ IntMax < Word
  BY <1>1, OperationsConstants DEF validBuffer
<1>6. t % Word = t
  <2>1. t < Word
    BY <1>3, <1>4, <1>5
  <2> QED BY <1>5, <2>1, NoWrap
<1>7. First(output, t) \subseteq Bytes(output) /\ Cardinality(First(output, t)) = t
  BY <1>1, <1>3, <1>4, FirstOf
<1> QED BY <1>1, <1>2, <1>4, <1>6, <1>7

\* A gather writes at the root only.
LEMMA GatherStep ==
    ASSUME IInv, life = "running", call = Idle, NEW id \in Ids,
           NEW input \in Buffers, NEW output \in Buffers, NEW root,
           startGather(input, output, root, id)
    PROVE  IInv'
<1> DEFINE isRoot == known(id) /\ info(id).rank = root
           size == input.size * info(id).size
           writes == IF isRoot THEN First(output, size) ELSE {}
           result == IF isRoot THEN size % Word ELSE 0
           made == Made("gather", Bytes(input), writes, Bytes(input), Bytes(output),
                        {input.size}, result)
           checks == /\ validBuffer(input) /\ validBuffer(output) /\ ~buffersOverlap(input, output)
                     /\ isRoot => gathers(input, output, info(id).size)
<1>1. Abort \/ (checks /\ Called(id, made))
  BY DEF startGather, Perform, Called
<1>2. CASE Abort
  BY <1>2, AbortStep
<1>3. CASE checks /\ Called(id, made)
  <2>1. writes \subseteq Bytes(output) /\ (writes # {} => result = Cardinality(writes))
    BY <1>3, GatheredBytes
  <2>2. Bytes(input) \cap Bytes(output) = {} /\ input.size <= IntMax
    BY <1>3, Apart DEF validBuffer
  <2> HIDE DEF writes, result, isRoot
  <2>3. Bounded(made)
    BY <2>1, <2>2, MadeFields DEF Bounded
  <2>4. Owned(made)
    BY MadeFields DEF Owned
  <2> QED BY <1>3, <2>3, <2>4, CalledStep
<1> QED BY <1>1, <1>2, <1>3

\* An allGather writes everywhere.
LEMMA AllGatherStep ==
    ASSUME IInv, life = "running", call = Idle, NEW id \in Ids,
           NEW input \in Buffers, NEW output \in Buffers,
           startAllGather(input, output, id)
    PROVE  IInv'
<1> DEFINE writes == First(output, input.size * info(id).size)
           result == (input.size * info(id).size) % Word
           made == Made("gather", Bytes(input), writes, Bytes(input), Bytes(output),
                        {input.size}, result)
           checks == /\ validBuffer(input) /\ validBuffer(output) /\ ~buffersOverlap(input, output)
                     /\ gathers(input, output, info(id).size)
<1>1. Abort \/ (known(id) /\ checks /\ Called(id, made))
  BY DEF startAllGather, Perform, Called
<1>2. CASE Abort
  BY <1>2, AbortStep
<1>3. CASE known(id) /\ checks /\ Called(id, made)
  <2>1. writes \subseteq Bytes(output) /\ result = Cardinality(writes)
    BY <1>3, GatheredBytes
  <2>2. Bytes(input) \cap Bytes(output) = {} /\ input.size <= IntMax
    BY <1>3, Apart DEF validBuffer
  <2> HIDE DEF writes, result
  <2>3. Bounded(made)
    BY <2>1, <2>2, MadeFields DEF Bounded
  <2>4. Owned(made)
    BY MadeFields DEF Owned
  <2> QED BY <1>3, <2>3, <2>4, CalledStep
<1> QED BY <1>1, <1>2, <1>3

\* Segments that end in the output lie in it: the end does not wrap around.
LEMMA SegmentsFit ==
    ASSUME NEW at \in Nat, NEW whole \in Nat, NEW counts \in Seq(Nat), NEW offsets \in Seq(Nat),
           Len(counts) = Len(offsets),
           \A i \in DOMAIN counts : counts[i] <= IntMax /\ offsets[i] <= IntMax,
           \A i \in DOMAIN counts : (offsets[i] + counts[i]) % Word <= whole
    PROVE  Covered(at, counts, offsets, Len(counts)) \subseteq at .. at + whole - 1
<1>1. ASSUME NEW i \in 1 .. Len(counts)
      PROVE  at + offsets[i] .. at + offsets[i] + counts[i] - 1 \subseteq at .. at + whole - 1
  <2>1. i \in 1 .. Len(offsets) /\ i \in DOMAIN counts
    OBVIOUS
  <2>2. PICK c \in Nat, o \in Nat : c = counts[i] /\ o = offsets[i]
    <3>1. counts[i] \in Nat
      OBVIOUS
    <3>2. offsets[i] \in Nat
      BY <2>1
    <3> QED BY <3>1, <3>2
  <2>3. c <= IntMax /\ o <= IntMax /\ (o + c) % Word <= whole
    BY <2>1, <2>2
  <2>4. IntMax \in Nat /\ Word \in Nat /\ IntMax + IntMax < Word
    BY OperationsConstants
  <2>5. PICK t \in Nat : t = o + c
    OBVIOUS
  <2>6. t < Word /\ t % Word <= whole
    BY <2>3, <2>4, <2>5
  <2>7. t % Word = t
    BY <2>4, <2>6, NoWrap
  <2>8. o + c <= whole
    BY <2>5, <2>6, <2>7
  <2>9. at + o .. at + o + c - 1 \subseteq at .. at + whole - 1
    BY <2>8
  <2> QED BY <2>2, <2>9
<1> QED BY <1>1 DEF Covered

\* A gatherV writes the segments of the layout at the root.
LEMMA GatherVStep ==
    ASSUME IInv, life = "running", call = Idle, NEW id \in Ids,
           NEW input \in Buffers, NEW output \in Buffers, NEW layout \in Layouts, NEW root,
           startGatherV(input, output, layout, root, id)
    PROVE  IInv'
<1> DEFINE counts == layout[1]
           offsets == layout[2]
           isRoot == known(id) /\ info(id).rank = root
           segment(i) == output.at + offsets[i] .. output.at + offsets[i] + counts[i] - 1
           writes == IF isRoot THEN UNION {segment(i) : i \in DOMAIN counts} ELSE {}
           sizes == {input.size} \cup {counts[i] : i \in DOMAIN counts}
                                 \cup {offsets[i] : i \in DOMAIN counts}
           result == IF isRoot THEN segmentBytes(counts) ELSE 0
           made == Made("gatherV", Bytes(input), writes, Bytes(input), Bytes(output), sizes, result)
           ints == \A i \in DOMAIN counts : counts[i] <= IntMax /\ offsets[i] <= IntMax
           fits == /\ Len(counts) = info(id).size
                   /\ \A i \in DOMAIN counts : (offsets[i] + counts[i]) % Word <= output.size
           checks == /\ validBuffer(input) /\ validBuffer(output) /\ ~buffersOverlap(input, output)
                     /\ Len(counts) = Len(offsets) /\ ints /\ (isRoot => fits)
<1>1. Abort \/ (known(id) /\ checks /\ Called(id, made))
  BY DEF startGatherV, Perform, Called
<1>2. CASE Abort
  BY <1>2, AbortStep
<1>3. CASE known(id) /\ checks /\ Called(id, made)
  <2>1. counts \in Seq(Nat) /\ offsets \in Seq(Nat)
    BY OperationsConstants
  <2>2. PICK at \in Nat, whole \in Nat : at = output.at /\ whole = output.size
    BY OperationsConstants
  <2>3. writes \subseteq Bytes(output) /\ result >= Cardinality(writes)
    <3>1. CASE ~isRoot
      <4>1. writes = {} /\ result = 0
        BY <3>1
      <4>2. Cardinality({}) = 0
        BY FS_EmptySet
      <4> HIDE DEF writes, result
      <4> QED BY <4>1, <4>2
    <3>2. CASE isRoot
      <4>1. writes = Covered(at, counts, offsets, Len(counts))
        <5>1. DOMAIN counts = 1 .. Len(counts)
          BY <2>1
        <5>2. writes = UNION {segment(i) : i \in DOMAIN counts}
          BY <3>2
        <5> HIDE DEF counts, offsets, writes
        <5>3. UNION {segment(i) : i \in DOMAIN counts} = Covered(at, counts, offsets, Len(counts))
          BY <2>2, <5>1 DEF Covered
        <5> QED BY <5>2, <5>3
      <4>2. Covered(at, counts, offsets, Len(counts)) \subseteq at .. at + whole - 1
        BY <1>3, <2>1, <2>2, <3>2, SegmentsFit
      <4>3. Len(counts) \in Nat /\ Len(counts) <= IntMax
        <5>1. info(id).size \in 1 .. WorldSize /\ WorldSize \in 1 .. IntMax /\ IntMax \in Nat
          BY <1>3, KnownSize, OperationsConstants
        <5> QED BY <1>3, <2>1, <3>2, <5>1
      <4>4. PICK g : Sums(counts, Len(counts), g) /\ segmentBytes(counts) = g[Len(counts)]
        BY <2>1, SegmentSums
      <4>5. \A i \in DOMAIN counts : counts[i] <= IntMax
        BY <1>3
      <4>6. Len(counts) = Len(offsets)
        BY <1>3
      <4> HIDE DEF counts, offsets
      <4>7. /\ IsFiniteSet(Covered(at, counts, offsets, Len(counts)))
            /\ Cardinality(Covered(at, counts, offsets, Len(counts))) <= g[Len(counts)]
        BY <2>1, <4>3, <4>4, <4>5, <4>6, SegmentsCounted
      <4>8. Cardinality(writes) <= segmentBytes(counts)
        BY <4>1, <4>4, <4>7
      <4>9. g[Len(counts)] \in Nat /\ Cardinality(writes) \in Nat
        <5>1. g \in [0 .. Len(counts) -> Nat] /\ Len(counts) \in 0 .. Len(counts)
          BY <4>3, <4>4 DEF Sums
        <5> HIDE DEF writes
        <5>2. Cardinality(writes) \in Nat
          BY <4>1, <4>7, FS_CardinalityType
        <5> QED BY <5>1, <5>2
      <4>10. result = segmentBytes(counts)
        BY <3>2
      <4>11. writes \subseteq Bytes(output)
        BY <2>2, <4>1, <4>2 DEF Bytes
      <4> QED BY <4>4, <4>8, <4>9, <4>10, <4>11
    <3> QED BY <3>1, <3>2
  <2>4. Bytes(input) \cap Bytes(output) = {}
    BY <1>3, Apart
  <2>5. \A c \in sizes : c <= IntMax
    BY <1>3 DEF validBuffer
  <2> HIDE DEF writes, result, sizes
  <2>6. Bounded(made)
    BY <2>3, <2>4, <2>5, MadeFields DEF Bounded
  <2>7. Owned(made)
    BY MadeFields DEF Owned
  <2> QED BY <1>3, <2>6, <2>7, CalledStep
<1> QED BY <1>1, <1>2, <1>3

\* A barrier uses no memory.
LEMMA BarrierStep ==
    ASSUME IInv, life = "running", call = Idle, NEW id \in Ids, startBarrier(id)
    PROVE  IInv'
<1> DEFINE made == Made("barrier", {}, {}, {}, {}, {}, 0)
<1>1. Bounded(made) /\ Owned(made)
  BY MadeFields DEF Bounded, Owned
<1>2. Abort \/ Called(id, made)
  BY DEF startBarrier, Perform, Called
<1> QED BY <1>1, <1>2, AbortStep, CalledStep

-----------------------------------------------------------------------------
(* The table of communicators and the table of requests.                   *)

\* adoptCommunicator: the new native is the next id.
LEMMA AdoptStep ==
    ASSUME IInv, life = "running", call = Idle, NEW member, member.size \in 1 .. WorldSize,
           adopted(member), UNCHANGED <<call, requestTable, life>>
    PROVE  IInv'
<1> DEFINE native == Len(communicators) + 1
<1>1. communicators \in Seq(Nat) /\ Len(communicators) \in Nat /\ native \in Nat
  BY DEF IInv, TypeInv
<1>2. /\ communicators' = Append(communicators, native)
      /\ existing' = [n \in DOMAIN existing \cup {native} |-> IF n = native THEN member ELSE existing[n]]
  BY DEF adopted
<1>3. /\ communicators' \in Seq(Nat) /\ Len(communicators') = native
      /\ communicators'[native] = native
      /\ \A id \in 1 .. Len(communicators) : communicators'[id] = communicators[id]
      /\ DOMAIN communicators' = DOMAIN communicators \cup {native}
      /\ DOMAIN communicators = 1 .. Len(communicators)
  BY <1>1, <1>2
<1>4. UNCHANGED <<call, batch, m_requests, inMpi, life>>
  BY DEF requestTable
<1>5. \A id \in DOMAIN communicators' : communicators'[id] \in {0, id}
  BY <1>3 DEF IInv, CommunicatorsOwned
<1>6. DOMAIN existing' = {communicators'[id] : id \in DOMAIN communicators'} \ {0}
  <2>1. DOMAIN existing' = DOMAIN existing \cup {native}
    BY <1>2
  <2>2. DOMAIN existing = {communicators[id] : id \in DOMAIN communicators} \ {0}
    BY DEF IInv, CommunicatorsOwned
  <2>3. native # 0
    BY <1>1
  <2> HIDE DEF native
  <2> QED BY <1>3, <2>1, <2>2, <2>3
<1>7. CommunicatorsOwned'
  BY <1>4, <1>5, <1>6 DEF CommunicatorsOwned
<1>8. TypeInv'
  <2>1. Len(communicators') >= 1 /\ communicators'[1] = 1
    BY <1>1, <1>3 DEF IInv, TypeInv
  <2>2. \A n \in DOMAIN existing' : existing'[n].size \in 1 .. WorldSize
    BY <1>2 DEF IInv, TypeInv
  <2> QED BY <1>3, <1>4, <2>1, <2>2 DEF IInv, TypeInv
<1>9. BatchInv' /\ OwnsInv' /\ CallsInBounds' /\ RequestsOwned'
  BY <1>4 DEF IInv, BatchInv, OwnsInv, CallsInBounds, RequestsOwned
<1> QED BY <1>7, <1>8, <1>9 DEF IInv

\* destroyCommunicator frees the native and clears its place.
LEMMA DestroyStep ==
    ASSUME IInv, life = "running", call = Idle, NEW id \in Ids, destroyCommunicator(id)
    PROVE  IInv'
<1>1. CASE Abort
  BY <1>1, AbortStep
<1>2. CASE /\ id # 1 /\ known(id)
           /\ existing' = [n \in DOMAIN existing \ {communicators[id]} |-> existing[n]]
           /\ communicators' = [communicators EXCEPT ![id] = 0]
           /\ UNCHANGED <<call, requestTable, life>>
  <2>1. UNCHANGED <<call, batch, m_requests, inMpi, life>>
    BY <1>2 DEF requestTable
  <2>2. communicators \in Seq(Nat) /\ id \in DOMAIN communicators /\ communicators[id] = id
    BY <1>2 DEF IInv, TypeInv, CommunicatorsOwned, known
  <2>3. /\ communicators' \in Seq(Nat) /\ Len(communicators') = Len(communicators)
        /\ DOMAIN communicators' = DOMAIN communicators /\ communicators'[id] = 0
        /\ \A other \in DOMAIN communicators : other # id => communicators'[other] = communicators[other]
    BY <1>2, <2>2
  <2>4. \A other \in DOMAIN communicators' : communicators'[other] \in {0, other}
    BY <2>3 DEF IInv, CommunicatorsOwned
  <2>5. DOMAIN existing' = {communicators'[other] : other \in DOMAIN communicators'} \ {0}
    <3>1. DOMAIN existing' = DOMAIN existing \ {id}
      BY <1>2, <2>2
    <3>2. /\ DOMAIN existing = {communicators[other] : other \in DOMAIN communicators} \ {0}
          /\ \A other \in DOMAIN communicators : communicators[other] \in {0, other}
      BY DEF IInv, CommunicatorsOwned
    <3> QED BY <2>3, <3>1, <3>2
  <2>6. CommunicatorsOwned'
    BY <2>1, <2>4, <2>5 DEF CommunicatorsOwned
  <2>7. TypeInv'
    <3>1. Len(communicators') >= 1 /\ communicators'[1] = 1
      BY <1>2, <2>3 DEF IInv, TypeInv
    <3>2. \A n \in DOMAIN existing' : existing'[n].size \in 1 .. WorldSize
      BY <1>2 DEF IInv, TypeInv
    <3> QED BY <2>1, <2>3, <3>1, <3>2 DEF IInv, TypeInv
  <2>8. BatchInv' /\ OwnsInv' /\ CallsInBounds' /\ RequestsOwned'
    BY <2>1 DEF IInv, BatchInv, OwnsInv, CallsInBounds, RequestsOwned
  <2> QED BY <2>6, <2>7, <2>8 DEF IInv
<1> QED BY <1>1, <1>2 DEF destroyCommunicator

\* The other operations that block the owner adopt a communicator or end the job.
LEMMA InvokeStep ==
    ASSUME IInv, life = "running", call = Idle, Invoke
    PROVE  IInv'
<1>1. ASSUME NEW id \in Ids, duplicateCommunicator(id) PROVE IInv'
  BY <1>1, AbortStep, AdoptStep, KnownSize DEF duplicateCommunicator
<1>2. ASSUME NEW id \in Ids, splitCommunicator(id) PROVE IInv'
  <2>1. CASE Abort
    BY <2>1, AbortStep
  <2>2. CASE UNCHANGED operations
    BY <2>2, IdleStep
  <2>3. CASE /\ known(id)
             /\ \E size \in 1 .. info(id).size :
                   \E rank \in 0 .. size - 1 : adopted([size |-> size, rank |-> rank])
             /\ UNCHANGED <<call, requestTable, life>>
    <3>1. PICK size \in 1 .. info(id).size :
              \E rank \in 0 .. size - 1 : adopted([size |-> size, rank |-> rank])
      BY <2>3
    <3>2. PICK rank \in 0 .. size - 1 : adopted([size |-> size, rank |-> rank])
      BY <3>1
    <3>3. info(id).size \in 1 .. WorldSize /\ WorldSize \in Nat
      BY <2>3, KnownSize, OperationsConstants
    <3>4. size \in 1 .. WorldSize
      BY <3>1, <3>3
    <3> QED BY <2>3, <3>2, <3>4, AdoptStep
  <2> QED BY <1>2, <2>1, <2>2, <2>3 DEF splitCommunicator
<1>3. ASSUME NEW id \in Ids, destroyCommunicator(id) PROVE IInv'
  BY <1>3, DestroyStep
<1>4. ASSUME NEW dims \in Cartesians, createCartesian(dims) PROVE IInv'
  <2>1. 1 \in DOMAIN existing
    BY DEF IInv, TypeInv, CommunicatorsOwned
  <2>2. existing[1].size \in 1 .. WorldSize
    BY <2>1 DEF IInv, TypeInv
  <2> QED BY <1>4, <2>2, AbortStep, AdoptStep DEF createCartesian
<1> QED BY <1>1, <1>2, <1>3, <1>4 DEF Invoke

\* finish() frees every communicator but the world's, after the last request.
LEMMA ReleaseStep ==
    ASSUME IInv, life = "running", call = Idle, releaseCommunicators
    PROVE  IInv'
<1>1. UNCHANGED <<call, batch, m_requests, inMpi>> /\ life' = "finished"
  BY DEF releaseCommunicators, requestTable
<1>2. communicators \in Seq(Nat) /\ Len(communicators) \in Nat /\ Len(communicators) >= 1
      /\ communicators[1] = 1 /\ DOMAIN communicators = 1 .. Len(communicators)
  BY DEF IInv, TypeInv
<1>3. communicators' = [id \in DOMAIN communicators |-> IF id = 1 THEN 1 ELSE 0]
  BY DEF releaseCommunicators
<1>4. communicators' \in Seq(Nat) /\ Len(communicators') = Len(communicators)
  BY <1>2, <1>3
<1>5. DOMAIN existing' = {1}
  <2>1. /\ DOMAIN existing = {communicators[id] : id \in DOMAIN communicators} \ {0}
        /\ \A id \in DOMAIN communicators : communicators[id] \in {0, id}
    BY DEF IInv, CommunicatorsOwned
  <2>2. DOMAIN existing' = DOMAIN existing \ {communicators[id] : id \in 2 .. Len(communicators)}
    BY DEF releaseCommunicators
  <2>3. \A id \in 1 .. Len(communicators) : id # 1 => id \in 2 .. Len(communicators)
    BY <1>2
  <2>4. \A id \in 2 .. Len(communicators) : communicators[id] # 1
    BY <1>2, <2>1
  <2> QED BY <1>2, <2>1, <2>2, <2>3, <2>4
<1>6. \A id \in DOMAIN communicators' : communicators'[id] \in {0, id}
  BY <1>3
<1>7. {communicators'[id] : id \in DOMAIN communicators'} \ {0} = {1}
  BY <1>2, <1>3
<1>8. CommunicatorsOwned'
  BY <1>1, <1>5, <1>6, <1>7 DEF CommunicatorsOwned
<1>9. inMpi = 0
  BY DEF IInv, RequestsOwned, BatchInv, NoBatch, TypeInv, releaseCommunicators
<1>10. TypeInv'
  <2>1. existing'[1] = existing[1] /\ existing[1].size \in 1 .. WorldSize
    BY <1>5 DEF releaseCommunicators, IInv, TypeInv
  <2>2. \A n \in DOMAIN existing' : existing'[n].size \in 1 .. WorldSize
    BY <1>5, <2>1
  <2> QED BY <1>1, <1>2, <1>3, <1>4, <2>2 DEF IInv, TypeInv
<1>11. BatchInv' /\ OwnsInv' /\ CallsInBounds' /\ RequestsOwned'
  BY <1>1, <1>9 DEF IInv, BatchInv, OwnsInv, CallsInBounds, RequestsOwned
<1> QED BY <1>8, <1>10, <1>11 DEF IInv

\* trackNative: the request and its owners move into the table, or the program ends.
LEMMA TrackStep ==
    ASSUME IInv, TrackNative
    PROVE  IInv'
<1>1. /\ life = "running" /\ call # Idle /\ call' = Idle /\ batch' = NoBatch
      /\ UNCHANGED <<communicators, existing, inMpi>>
  BY DEF TrackNative
<1>2. PICK room \in BOOLEAN :
        LET released == [batch EXCEPT !.owns = FALSE, !.lifetimes = {}]
        IN  /\ m_requests' = IF room /\ batch.active
                             THEN Append(m_requests, [uses |-> batch.uses, lifetimes |-> swapped(batch)])
                             ELSE m_requests
            /\ life' = destroyed(IF room THEN released ELSE batch)
  BY DEF TrackNative
<1>3. batch \in BatchType /\ m_requests \in Seq(RequestType) /\ inMpi \in Nat
  BY DEF IInv, TypeInv
<1>4. PICK owns \in BOOLEAN, active \in BOOLEAN, uses \in SUBSET Kept, lifetimes \in SUBSET Kept :
        /\ owns = batch.owns /\ active = batch.active /\ uses = batch.uses
        /\ lifetimes = batch.lifetimes
  BY <1>3 DEF BatchType
<1>5. uses \subseteq lifetimes /\ inMpi = Len(m_requests) + (IF owns /\ active THEN 1 ELSE 0)
  BY <1>1, <1>4 DEF IInv, RequestsOwned
<1>6. life' = IF room THEN "running" ELSE IF owns /\ active THEN "terminated" ELSE "running"
  <2>1. [batch EXCEPT !.owns = FALSE, !.lifetimes = {}].owns = FALSE
    BY <1>3 DEF BatchType
  <2> QED BY <1>2, <1>4, <2>1 DEF destroyed
<1> DEFINE request == [uses |-> uses, lifetimes |-> lifetimes]
<1>7. m_requests' = IF room /\ active THEN Append(m_requests, request) ELSE m_requests
  BY <1>2, <1>4 DEF swapped
<1>8. request \in RequestType /\ request.uses \subseteq request.lifetimes
  BY <1>4, <1>5 DEF RequestType
<1>9. owns = TRUE \/ ~active
  BY <1>1, <1>4 DEF IInv, BatchInv, OwnsInv
<1> HIDE DEF request
<1>10. m_requests' \in Seq(RequestType)
       /\ Len(m_requests') = Len(m_requests) + (IF room /\ active THEN 1 ELSE 0)
  BY <1>3, <1>7, <1>8
<1>11. \A i \in DOMAIN m_requests' : m_requests'[i].uses \subseteq m_requests'[i].lifetimes
  <2>1. \A i \in DOMAIN m_requests : m_requests[i].uses \subseteq m_requests[i].lifetimes
    BY <1>1 DEF IInv, RequestsOwned
  <2>2. CASE room /\ active
    BY <1>3, <1>7, <1>8, <2>1, <2>2
  <2>3. CASE ~(room /\ active)
    BY <1>7, <2>1, <2>3
  <2> QED BY <2>2, <2>3
<1>12. NoBatch \in BatchType /\ NoBatch.owns = FALSE /\ NoBatch.uses = {}
  BY DEF NoBatch, BatchType
<1>13. life' = "running" => inMpi = Len(m_requests')
  BY <1>3, <1>5, <1>6, <1>9, <1>10
<1>14. RequestsOwned'
  BY <1>1, <1>6, <1>11, <1>12, <1>13 DEF RequestsOwned
<1>15. TypeInv'
  BY <1>1, <1>6, <1>10, <1>12 DEF IInv, TypeInv
<1>16. CommunicatorsOwned'
  BY <1>1, <1>6 DEF IInv, CommunicatorsOwned
<1>17. BatchInv' /\ OwnsInv' /\ CallsInBounds'
  BY <1>1 DEF BatchInv, OwnsInv, CallsInBounds, NoBatch
<1> QED BY <1>14, <1>15, <1>16, <1>17 DEF IInv

\* progressRequests: what is left of the table stays in order.
LEMMA RetireStep ==
    ASSUME IInv, RetireRequest
    PROVE  IInv'
<1>1. life = "running" /\ call = Idle /\ UNCHANGED <<communicators, existing, call, batch, life>>
      /\ inMpi' = inMpi - 1
  BY DEF RetireRequest
<1>2. PICK i \in DOMAIN m_requests :
        m_requests' = [j \in 1 .. Len(m_requests) - 1 |-> m_requests[IF j < i THEN j ELSE j + 1]]
  BY DEF RetireRequest
<1>3. m_requests \in Seq(RequestType) /\ Len(m_requests) \in Nat
      /\ DOMAIN m_requests = 1 .. Len(m_requests)
  BY DEF IInv, TypeInv
<1>4. Len(m_requests) - 1 \in Nat
  BY <1>2, <1>3
<1>5. \A j \in 1 .. Len(m_requests) - 1 : (IF j < i THEN j ELSE j + 1) \in DOMAIN m_requests
  BY <1>3
<1>6. m_requests' \in Seq(RequestType) /\ Len(m_requests') = Len(m_requests) - 1
  BY <1>2, <1>3, <1>4, <1>5
<1>7. \A j \in DOMAIN m_requests' : m_requests'[j].uses \subseteq m_requests'[j].lifetimes
  BY <1>1, <1>2, <1>5 DEF IInv, RequestsOwned
<1>8. batch = NoBatch
  BY <1>1 DEF IInv, BatchInv
<1>9. inMpi = Len(m_requests)
  BY <1>1, <1>3, <1>8 DEF IInv, RequestsOwned, NoBatch
<1>10. RequestsOwned'
  BY <1>1, <1>3, <1>4, <1>6, <1>7, <1>8, <1>9 DEF RequestsOwned, NoBatch
<1>11. TypeInv'
  BY <1>1, <1>4, <1>6, <1>9 DEF IInv, TypeInv
<1> QED BY <1>1, <1>8, <1>10, <1>11 DEF IInv, BatchInv, OwnsInv, CallsInBounds, CommunicatorsOwned

-----------------------------------------------------------------------------
(* The specification.                                                      *)

\* The context starts with the world's communicator and no request.
LEMMA OperationsStart ==
    ASSUME OperationsInit
    PROVE  IInv
<1>1. PICK rank \in 0 .. WorldSize - 1 : existing = [n \in {1} |-> [size |-> WorldSize, rank |-> rank]]
  BY DEF OperationsInit
<1>2. WorldSize \in 1 .. WorldSize
  BY OperationsConstants
<1>3. communicators = <<1>> /\ m_requests = <<>> /\ batch = NoBatch /\ inMpi = 0 /\ call = Idle
      /\ life = "running"
  BY DEF OperationsInit
<1>4. NoBatch \in BatchType /\ NoBatch.owns = FALSE /\ NoBatch.active = FALSE /\ NoBatch.uses = {}
  BY DEF NoBatch, BatchType
<1>5. TypeInv
  BY <1>1, <1>2, <1>3, <1>4 DEF TypeInv
<1>6. CommunicatorsOwned
  BY <1>1, <1>3 DEF CommunicatorsOwned
<1>7. RequestsOwned
  BY <1>3, <1>4 DEF RequestsOwned
<1> QED BY <1>3, <1>4, <1>5, <1>6, <1>7 DEF IInv, BatchInv, OwnsInv, CallsInBounds

\* Every callback of the owner keeps the invariant.
LEMMA OwnerStep ==
    ASSUME IInv, OwnerCallback
    PROVE  IInv'
<1>1. life = "running" /\ call = Idle
  BY DEF OwnerCallback
<1>2. ASSUME NEW id \in Ids, StartNative(id) PROVE IInv'
  BY <1>1, <1>2, MessageStep, AllGatherStep, AllReduceStep, ReduceStep, GatherStep, GatherVStep,
     BarrierStep DEF StartNative
<1> QED BY <1>1, <1>2, InvokeStep, ReleaseStep DEF OwnerCallback

\* The inductive invariant holds.
THEOREM OperationsInvariance == OperationsSpec => []IInv
<1>1. OperationsInit => IInv
  BY OperationsStart
<1>2. IInv /\ [OperationsNext]_operations => IInv'
  <2> QED BY IdleStep, OwnerStep, TrackStep, RetireStep DEF OperationsNext, OperationsOver
<1> QED BY <1>1, <1>2, PTL DEF OperationsSpec

\* Whatever buffers, layouts, roots and communicators the callers pass, in any order, every
\* native call stays in its buffers with int arguments that did not lose bits, its sizes and
\* results do not wrap around, it uses a communicator that exists, and the owners of its
\* memory are kept until it is complete (mpi/operations.cpp, mpi/context.cpp).
THEOREM NativeCallsAreSound == OperationsSpec => []NativeCallsSound
<1>1. IInv => NativeCallsSound
  BY DEF IInv, NativeCallsSound
<1> QED BY <1>1, OperationsInvariance, PTL
=============================================================================
