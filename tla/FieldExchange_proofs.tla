------------------------ MODULE FieldExchange_proofs ------------------------
(***************************************************************************)
(* A communication moves the whole guard of its round and nothing of       *)
(* another: HaloExact for every topology whose neighbours are mutual,      *)
(* every set of exchanges, every number of rounds and every mode.          *)
(*                                                                         *)
(* The argument.  The rounds of one exchange advance one after the other   *)
(* (RoundInv): before a round leaves "spawned", all earlier rounds of the  *)
(* exchange are done and, in chained calls, the kernel before the round    *)
(* has run and that of the next has not.  A buffer is thus used by one     *)
(* round at a time and holds its number (BufferInv); the messages of a     *)
(* lane are the rounds sent and not yet received, in order (LaneInv); and  *)
(* additive receives of a round add one after the other (SumInv).          *)
(***************************************************************************)
EXTENDS FieldExchange, FiniteSetTheorems, SequenceTheorems, WellFoundedInduction, TLAPS

-----------------------------------------------------------------------------
(* The inductive invariant.                                                *)

Ranks == DOMAIN link

SendStages == {"idle", "spawned", "packed", "posted", "done"}

ReceiveStages == {"idle", "spawned", "posted", "arrived", "unpacked", "adding", "done"}

Stages == SendStages \cup ReceiveStages

\* The stages of a round that waits for its turn, and those of a message that has come.
Waiting == {"idle", "spawned"}

Come == {"arrived", "unpacked", "adding", "done"}

TypeInv ==
    /\ \E setup \in Setups : link = setup[1] /\ mode = setup[2]
    /\ phase \in {"construct", "run", "thrown"}
    /\ spawned \in [Ranks -> 0 .. Rounds] /\ computed \in [Ranks -> 0 .. Rounds]
    /\ stage \in [Ranks -> [Ways -> [Sides -> [1 .. Rounds -> Stages]]]]
    /\ field \in [Ranks -> [border : Nat, guard : [Sides -> Nat], sum : SUBSET (Sides \X Nat)]]
    /\ device \in [Ranks -> [Ways -> [Sides -> Nat]]]
    /\ staging \in [Ranks -> [Ways -> [Sides -> Nat]]]
    /\ held \in [Ranks -> [Sides -> SUBSET (Sides \X Nat)]]

\* The exchanges of a buffer: every tag is made of the buffer's and of the direction of the
\* send, the receive exchanges are the mirrored ones.
Paired(buffer) ==
    /\ buffer.tag \in Nat /\ buffer.hasOneExchange \in BOOLEAN
    /\ DOMAIN buffer.send \subseteq Sides /\ DOMAIN buffer.receive \subseteq Sides
    /\ DOMAIN buffer.send \cup DOMAIN buffer.receive # {} => buffer.hasOneExchange
    /\ \A ex \in Sides :
          ex \in DOMAIN buffer.send <=> getMirroredExchangeType(ex) \in DOMAIN buffer.receive
    /\ \A ex \in DOMAIN buffer.send : buffer.send[ex] = uniqCommunicationTag(buffer.tag, ex)
    /\ \A ex \in DOMAIN buffer.receive :
          buffer.receive[ex] = uniqCommunicationTag(buffer.tag, getMirroredExchangeType(ex))

GridInv ==
    /\ DOMAIN grids = {"field", "other"}
    /\ \A g \in DOMAIN grids : Paired(grids[g])

\* Nothing is spawned before the buffers are constructed.
QuietInv ==
    phase # "run" =>
        /\ \A r \in Ranks : spawned[r] = 0 /\ computed[r] = 0
        /\ \A r \in Ranks : \A kind \in Ways, ex \in Sides, k \in 1 .. Rounds :
              stage[r][kind][ex][k] = "idle"
        /\ \A r \in Ranks : \A ex \in Sides : field[r].guard[ex] = 0 /\ held[r][ex] = {}
        /\ \A r \in Ranks : field[r].border = 0 /\ field[r].sum = {}
        /\ DOMAIN wire = {}

\* The rounds of one exchange: those called are spawned; one that has left "spawned" comes
\* after rounds that are done, and after the kernel before it.
RoundsOf(r, kind, ex) ==
    \A k \in 1 .. Rounds :
        /\ stage[r][kind][ex][k] = "idle" <=> k > spawned[r]
        /\ stage[r][kind][ex][k] \notin Waiting =>
              /\ \A j \in 1 .. Rounds : j < k => stage[r][kind][ex][j] = "done"
              /\ mode.chained => computed[r] >= k
        /\ mode.chained /\ k < computed[r] => stage[r][kind][ex][k] = "done"

RoundInv ==
    /\ \A r \in Ranks : \A kind \in Ways : \A ex \in Sides :
          IF ex \in active(r, kind) THEN RoundsOf(r, kind, ex)
          ELSE \A k \in 1 .. Rounds : stage[r][kind][ex][k] = "idle"
    /\ \A r \in Ranks : computed[r] <= spawned[r] /\ (mode.chained => field[r].border = computed[r])

\* The stages each kind goes through, and what its buffers hold meanwhile.
SendBuffers(r, ex) ==
    \A k \in 1 .. Rounds :
        /\ stage[r]["send"][ex][k] \in IF mode.additive THEN SendStages ELSE SendStages \ {"packed"}
        /\ mode.additive /\ stage[r]["send"][ex][k] \in {"packed", "posted"} => device[r]["send"][ex] = k
        /\ staged /\ stage[r]["send"][ex][k] = "posted" => staging[r]["send"][ex] = k

ReceiveBuffers(r, ex) ==
    \A k \in 1 .. Rounds :
        /\ stage[r]["receive"][ex][k] \in
              IF mode.additive THEN ReceiveStages ELSE ReceiveStages \ {"unpacked", "adding"}
        /\ staged /\ stage[r]["receive"][ex][k] = "arrived" => staging[r]["receive"][ex] = k
        /\ /\ mode.additive
           /\ stage[r]["receive"][ex][k] \in {"unpacked", "adding"} \cup IF staged THEN {} ELSE {"arrived"}
           => device[r]["receive"][ex] = k

BufferInv ==
    \A r \in Ranks :
        /\ \A ex \in active(r, "send") : SendBuffers(r, ex)
        /\ \A ex \in active(r, "receive") : ReceiveBuffers(r, ex)

\* The stages in which a round has reached the guard.
InGuard == IF staged THEN {"done"} ELSE {"arrived", "done"}

\* The guard holds the last round that has reached it.
GuardInv ==
    ~mode.additive =>
        \A r \in Ranks : \A ex \in active(r, "receive") :
            /\ field[r].guard[ex] \in 0 .. Rounds
            /\ \A k \in 1 .. Rounds :
                  stage[r]["receive"][ex][k] \in InGuard <=> k <= field[r].guard[ex]

messages(w, to) == IF to \in DOMAIN w THEN w[to] ELSE <<>>

\* Of the rounds sent in a direction, the first a have come and the others are under way, in order.
LaneOf(r, ex, a, d) ==
    LET from  == link[r][ex]
        back  == getMirroredExchangeType(ex)
        under == messages(wire, lane(r, "receive", ex))
    IN  /\ \A k \in 1 .. Rounds : stage[from]["send"][back][k] = "done" <=> k <= d
        /\ \A k \in 1 .. Rounds : stage[r]["receive"][ex][k] \in Come <=> k <= a
        /\ under \in Seq(Nat) /\ Len(under) = d - a
        /\ \A i \in 1 .. Len(under) : under[i] = a + i

LaneInv ==
    \A r \in Ranks : \A ex \in active(r, "receive") :
        \E a, d \in 0 .. Rounds : a <= d /\ LaneOf(r, ex, a, d)

\* Additive receives of a round take turns; the sum is what has been added in this round, and a
\* kernel that adds has seen all of it.
SumInv ==
    mode.additive =>
        \A r \in Ranks :
            /\ \A one, two \in active(r, "receive") : \A k \in 1 .. Rounds :
                  one < two /\ stage[r]["receive"][two][k] \notin Waiting =>
                      stage[r]["receive"][one][k] = "done"
            /\ mode.chained =>
                  /\ \A ex \in Sides, k \in Nat :
                        <<ex, k>> \in field[r].sum <=>
                            /\ k = computed[r] /\ k > 0 /\ ex \in active(r, "receive")
                            /\ stage[r]["receive"][ex][k] = "done"
                  /\ \A ex \in active(r, "receive") : \A k \in 1 .. Rounds :
                        stage[r]["receive"][ex][k] = "adding" => held[r][ex] = field[r].sum

RunInv == phase = "run" => RoundInv /\ BufferInv /\ GuardInv /\ LaneInv /\ SumInv

Inv == TypeInv /\ GridInv /\ QuietInv /\ RunInv

-----------------------------------------------------------------------------
(* Directions.                                                             *)

\* The digits of a direction, and those of its mirror image.
LEMMA MirrorValue ==
    ASSUME NEW x \in 0 .. 2, NEW y \in 0 .. 2, NEW z \in 0 .. 2
    PROVE  getMirroredExchangeType(x + 3 * y + 9 * z) = ((3 - x) % 3) + 3 * ((3 - y) % 3) + 9 * ((3 - z) % 3)
<1> DEFINE ex == x + 3 * y + 9 * z
<1>1. ex \in Nat
  OBVIOUS
<1>2. ex % 3 = x /\ (ex \div 3) % 3 = y /\ (ex \div 9) % 3 = z /\ ex \div 1 = ex
  OBVIOUS
<1> HIDE DEF ex
<1>3. 3^(1 - 1) = 1 /\ 3^(2 - 1) = 3 /\ 3^(3 - 1) = 9
  OBVIOUS
<1>4. digit(ex, 1) = x /\ digit(ex, 2) = y /\ digit(ex, 3) = z
  BY <1>2, <1>3 DEF digit
<1>5. /\ contains(ex, RIGHT) <=> x = 1
      /\ contains(ex, LEFT) <=> x = 2
      /\ contains(ex, BOTTOM) <=> y = 1
      /\ contains(ex, TOP) <=> y = 2
      /\ contains(ex, BACK) <=> z = 1
      /\ contains(ex, FRONT) <=> z = 2
  BY <1>3, <1>4 DEF contains, RIGHT, LEFT, BOTTOM, TOP, BACK, FRONT
<1>6. getMirroredExchangeType(ex) = (IF x = 1 THEN 2 ELSE 0) + (IF x = 2 THEN 1 ELSE 0)
         + (IF y = 1 THEN 6 ELSE 0) + (IF y = 2 THEN 3 ELSE 0)
         + (IF z = 2 THEN 9 ELSE 0) + (IF z = 1 THEN 18 ELSE 0)
  BY <1>5 DEF getMirroredExchangeType, RIGHT, LEFT, BOTTOM, TOP, BACK, FRONT
<1> QED
  BY <1>6 DEF ex

\* Mirroring keeps to the directions and undoes itself.
LEMMA MirrorInvolution ==
    ASSUME NEW ex \in Directions3
    PROVE  /\ getMirroredExchangeType(ex) \in Directions3
           /\ getMirroredExchangeType(getMirroredExchangeType(ex)) = ex
<1>1. PICK x \in 0 .. 2, y \in 0 .. 2, z \in 0 .. 2 : ex = x + 3 * y + 9 * z
  <2>1. ex % 3 \in 0 .. 2 /\ (ex \div 3) % 3 \in 0 .. 2 /\ ex \div 9 \in 0 .. 2
    BY DEF Directions3
  <2>2. ex = (ex % 3) + 3 * ((ex \div 3) % 3) + 9 * (ex \div 9)
    BY DEF Directions3
  <2> QED
    BY <2>1, <2>2
<1> DEFINE u == (3 - x) % 3
           v == (3 - y) % 3
           w == (3 - z) % 3
<1>2. u \in 0 .. 2 /\ v \in 0 .. 2 /\ w \in 0 .. 2 /\ (3 - u) % 3 = x /\ (3 - v) % 3 = y /\ (3 - w) % 3 = z
  OBVIOUS
<1>3. u + 3 * v + 9 * w \in Directions3
  BY <1>1 DEF Directions3
<1>4. getMirroredExchangeType(ex) = u + 3 * v + 9 * w
  BY <1>1, MirrorValue
<1> HIDE DEF u, v, w
<1>5. getMirroredExchangeType(u + 3 * v + 9 * w) = x + 3 * y + 9 * z
  BY <1>2, MirrorValue
<1> QED
  BY <1>1, <1>3, <1>4, <1>5

\* The directions of the exchanges are directions, and their mirror images are among them.
LEMMA SidesMirrored ==
    /\ Sides \subseteq Directions3
    /\ \A ex \in Sides : /\ getMirroredExchangeType(ex) \in Sides
                         /\ getMirroredExchangeType(getMirroredExchangeType(ex)) = ex
<1>1. \A x \in Calls : x[2] \subseteq Directions3
  BY FieldConstants
<1>2. ASSUME NEW ex \in Sides
      PROVE  /\ ex \in Directions3
             /\ getMirroredExchangeType(ex) \in Sides
             /\ getMirroredExchangeType(getMirroredExchangeType(ex)) = ex
  <2>1. PICK x \in Calls : ex \in x[2] \cup {getMirroredExchangeType(e) : e \in x[2]}
    BY <1>2 DEF Sides
  <2>2. CASE ex \in x[2]
    BY <1>1, <2>1, <2>2, MirrorInvolution DEF Sides
  <2>3. CASE ex \in {getMirroredExchangeType(e) : e \in x[2]}
    <3>1. PICK e \in x[2] : ex = getMirroredExchangeType(e)
      BY <2>3
    <3>2. e \in Directions3
      BY <1>1, <2>1, <3>1
    <3>3. ex \in Directions3 /\ getMirroredExchangeType(ex) = e
      BY <3>1, <3>2, MirrorInvolution
    <3> QED
      BY <2>1, <3>1, <3>3 DEF Sides
  <2> QED
    BY <2>1, <2>2, <2>3
<1> QED
  BY <1>2

\* The tag of a buffer and a direction tells the direction.
LEMMA TagsTellDirections ==
    ASSUME NEW tag \in Nat, NEW one \in Directions3, NEW two \in Directions3,
           uniqCommunicationTag(tag, one) = uniqCommunicationTag(tag, two)
    PROVE  one = two
BY DEF uniqCommunicationTag, Directions3

\* A set of directions that is not empty has a last one.
LEMMA LastDirection ==
    ASSUME NEW S \in SUBSET Directions3, S # {}
    PROVE  \E last \in S : \A other \in S : other <= last
<1> DEFINE T == {26 - x : x \in S}
<1>1. \A x \in S : x \in 1 .. 26
  BY DEF Directions3
<1>2. \A u \in T : u \in Nat
  BY <1>1
<1>3. T # {}
  OBVIOUS
<1> DEFINE less == OpToRel(<, Nat)
<1>4. \A u, v \in Nat : <<u, v>> \notin less => ~(u < v)
  <2>1. less = {ss \in Nat \X Nat : ss[1] < ss[2]}
    BY Zenon DEF OpToRel
  <2> HIDE DEF less
  <2> QED
    BY <2>1
<1>5. PICK t \in T : \A u \in T : ~(<<u, t>> \in less)
  <2>1. IsWellFoundedOn(less, Nat)
    BY NatLessThanWellFounded
  <2> HIDE DEF T, less
  <2> QED
    BY <1>2, <1>3, <2>1, WFMin
<1> HIDE DEF less
<1>6. \A u \in T : t <= u
  <2> HIDE DEF T
  <2>1. \A u \in T : ~(u < t)
    BY <1>2, <1>4, <1>5, Zenon
  <2> QED
    BY <1>2, <2>1
<1>7. PICK x \in S : t = 26 - x
  OBVIOUS
<1>8. \A y \in S : 26 - x <= 26 - y
  BY <1>6, <1>7
<1> HIDE DEF T
<1> QED
  BY <1>1, <1>7, <1>8

-----------------------------------------------------------------------------
(* The two ends of an exchange.                                            *)

\* The modes are Booleans; a neighbour's neighbour in the mirrored direction is the rank.
LEMMA SetupFacts ==
    ASSUME TypeInv
    PROVE  /\ mutual(link)
           /\ mode.additive \in BOOLEAN /\ mode.mpiDirect \in BOOLEAN
           /\ mode.doubleBuffer \in BOOLEAN /\ mode.chained \in BOOLEAN
<1>1. PICK setup \in Setups : link = setup[1] /\ mode = setup[2]
  BY DEF TypeInv
<1>2. /\ mutual(setup[1])
      /\ setup[2] \in [additive : BOOLEAN, mpiDirect : BOOLEAN, doubleBuffer : BOOLEAN, chained : BOOLEAN]
  BY FieldConstants
<1> QED
  BY <1>1, <1>2

\* What a rank receives from a direction, its neighbour there sends in the mirrored one and
\* on the same lane.
LEMMA ReceiveEnds ==
    ASSUME TypeInv, GridInv, NEW r \in Ranks, NEW ex \in active(r, "receive")
    PROVE  /\ ex \in Sides /\ link[r][ex] \in Ranks
           /\ getMirroredExchangeType(ex) \in active(link[r][ex], "send")
           /\ link[link[r][ex]][getMirroredExchangeType(ex)] = r
           /\ lane(link[r][ex], "send", getMirroredExchangeType(ex)) = lane(r, "receive", ex)
<1> DEFINE back == getMirroredExchangeType(ex)
           buffer == grids["field"]
<1>1. Paired(buffer)
  BY DEF GridInv
<1>2. ex \in DOMAIN buffer.receive /\ ex \in DOMAIN link[r]
  BY DEF active
<1>3. ex \in Sides
  BY <1>1, <1>2 DEF Paired
<1>4. back \in Sides /\ getMirroredExchangeType(back) = ex
  BY <1>3, SidesMirrored
<1>5. back \in DOMAIN buffer.send /\ buffer.send[back] = uniqCommunicationTag(buffer.tag, back)
      /\ buffer.receive[ex] = uniqCommunicationTag(buffer.tag, back)
  BY <1>1, <1>2, <1>4 DEF Paired
<1>6. mutual(link)
  BY SetupFacts
<1>7. link[r][ex] \in Ranks /\ back \in DOMAIN link[link[r][ex]] /\ link[link[r][ex]][back] = r
  BY <1>2, <1>6 DEF mutual, Ranks
<1>8. back \in active(link[r][ex], "send")
  BY <1>5, <1>7 DEF active
<1>9. lane(link[r][ex], "send", back) = lane(r, "receive", ex)
  BY <1>5, <1>7 DEF lane, tagOf
<1> QED
  BY <1>3, <1>7, <1>8, <1>9

\* The same from the sender's side.
LEMMA SendEnds ==
    ASSUME TypeInv, GridInv, NEW r \in Ranks, NEW ex \in active(r, "send")
    PROVE  /\ ex \in Sides /\ link[r][ex] \in Ranks
           /\ getMirroredExchangeType(ex) \in active(link[r][ex], "receive")
           /\ getMirroredExchangeType(getMirroredExchangeType(ex)) = ex
           /\ link[link[r][ex]][getMirroredExchangeType(ex)] = r
           /\ lane(link[r][ex], "receive", getMirroredExchangeType(ex)) = lane(r, "send", ex)
<1> DEFINE back == getMirroredExchangeType(ex)
           buffer == grids["field"]
<1>1. Paired(buffer)
  BY DEF GridInv
<1>2. ex \in DOMAIN buffer.send /\ ex \in DOMAIN link[r]
  BY DEF active
<1>3. ex \in Sides
  BY <1>1, <1>2 DEF Paired
<1>4. back \in Sides /\ getMirroredExchangeType(back) = ex
  BY <1>3, SidesMirrored
<1>5. back \in DOMAIN buffer.receive /\ buffer.send[ex] = uniqCommunicationTag(buffer.tag, ex)
      /\ buffer.receive[back] = uniqCommunicationTag(buffer.tag, ex)
  BY <1>1, <1>2, <1>3, <1>4 DEF Paired
<1>6. mutual(link)
  BY SetupFacts
<1>7. link[r][ex] \in Ranks /\ back \in DOMAIN link[link[r][ex]] /\ link[link[r][ex]][back] = r
  BY <1>2, <1>6 DEF mutual, Ranks
<1>8. back \in active(link[r][ex], "receive")
  BY <1>5, <1>7 DEF active
<1>9. lane(link[r][ex], "receive", back) = lane(r, "send", ex)
  BY <1>5, <1>7 DEF lane, tagOf
<1> QED
  BY <1>3, <1>4, <1>7, <1>8, <1>9

\* Every receive exchange has a lane of its own.
LEMMA LanesDiffer ==
    ASSUME TypeInv, GridInv,
           NEW r \in Ranks, NEW ex \in active(r, "receive"),
           NEW s \in Ranks, NEW other \in active(s, "receive"),
           lane(r, "receive", ex) = lane(s, "receive", other)
    PROVE  r = s /\ ex = other
<1> DEFINE buffer == grids["field"]
<1>1. Paired(buffer)
  BY DEF GridInv
<1>2. r = s /\ buffer.receive[ex] = buffer.receive[other]
  BY DEF lane, tagOf
<1>3. ex \in DOMAIN buffer.receive /\ other \in DOMAIN buffer.receive
  BY DEF active
<1>4. ex \in Sides /\ other \in Sides
  BY <1>1, <1>3 DEF Paired
<1>5. uniqCommunicationTag(buffer.tag, getMirroredExchangeType(ex))
         = uniqCommunicationTag(buffer.tag, getMirroredExchangeType(other))
  BY <1>1, <1>2, <1>3 DEF Paired
<1>6. getMirroredExchangeType(ex) \in Directions3 /\ getMirroredExchangeType(other) \in Directions3
  BY <1>4, SidesMirrored
<1>7. buffer.tag \in Nat
  BY <1>1 DEF Paired
<1>8. getMirroredExchangeType(ex) = getMirroredExchangeType(other)
  BY <1>5, <1>6, <1>7, TagsTellDirections
<1> QED
  BY <1>2, <1>4, <1>8, SidesMirrored

\* The exchanges of a buffer are paired, and none shares its tag with another.
LEMMA PairedExchanges == GridInv => ExchangesPaired
<1> SUFFICES ASSUME GridInv, NEW g \in DOMAIN grids
             PROVE  /\ DOMAIN grids[g].receive = {getMirroredExchangeType(ex) : ex \in DOMAIN grids[g].send}
                    /\ \A ex \in DOMAIN grids[g].send :
                          grids[g].receive[getMirroredExchangeType(ex)] = grids[g].send[ex]
                    /\ \A one, two \in DOMAIN grids[g].send :
                          grids[g].send[one] = grids[g].send[two] => one = two
  BY DEF ExchangesPaired
<1> DEFINE buffer == grids[g]
<1>1. Paired(buffer)
  BY DEF GridInv
<1> HIDE DEF buffer
<1>2. DOMAIN buffer.send \subseteq Sides /\ DOMAIN buffer.receive \subseteq Sides /\ buffer.tag \in Nat
  BY <1>1 DEF Paired
<1>3. \A ex \in DOMAIN buffer.send : getMirroredExchangeType(ex) \in DOMAIN buffer.receive
  BY <1>1, <1>2 DEF Paired
<1>4. \A ex \in DOMAIN buffer.receive :
         /\ getMirroredExchangeType(ex) \in DOMAIN buffer.send
         /\ ex = getMirroredExchangeType(getMirroredExchangeType(ex))
  <2> TAKE ex \in DOMAIN buffer.receive
  <2>1. getMirroredExchangeType(ex) \in Sides /\ ex = getMirroredExchangeType(getMirroredExchangeType(ex))
    BY <1>2, SidesMirrored
  <2> QED
    BY <1>1, <2>1 DEF Paired
<1>5. DOMAIN buffer.receive = {getMirroredExchangeType(ex) : ex \in DOMAIN buffer.send}
  BY <1>3, <1>4
<1>6. ASSUME NEW ex \in DOMAIN buffer.send
      PROVE  buffer.receive[getMirroredExchangeType(ex)] = buffer.send[ex]
  <2>1. getMirroredExchangeType(getMirroredExchangeType(ex)) = ex
    BY <1>2, SidesMirrored
  <2> QED
    BY <1>1, <1>3, <2>1 DEF Paired
<1>7. ASSUME NEW one \in DOMAIN buffer.send, NEW two \in DOMAIN buffer.send, buffer.send[one] = buffer.send[two]
      PROVE  one = two
  <2>1. uniqCommunicationTag(buffer.tag, one) = uniqCommunicationTag(buffer.tag, two)
    BY <1>1, <1>7 DEF Paired
  <2> QED
    BY <1>2, <2>1, SidesMirrored, TagsTellDirections
<1> QED
  BY <1>5, <1>6, <1>7 DEF buffer

-----------------------------------------------------------------------------
(* Construction.                                                           *)

\* Nothing has been constructed or spawned.
LEMMA Initially == FieldInit => Inv
<1> SUFFICES ASSUME FieldInit PROVE Inv
  OBVIOUS
<1>1. Rounds \in Nat
  BY FieldConstants
<1>2. /\ spawned = [r \in Ranks |-> 0] /\ computed = [r \in Ranks |-> 0]
      /\ stage = [r \in Ranks |-> [kind \in Ways |-> [ex \in Sides |-> [k \in 1 .. Rounds |-> "idle"]]]]
      /\ field = [r \in Ranks |-> [border |-> 0, guard |-> [ex \in Sides |-> 0], sum |-> {}]]
      /\ device = [r \in Ranks |-> [kind \in Ways |-> [ex \in Sides |-> 0]]]
      /\ staging = [r \in Ranks |-> [kind \in Ways |-> [ex \in Sides |-> 0]]]
      /\ held = [r \in Ranks |-> [ex \in Sides |-> {}]]
      /\ DOMAIN wire = {}
  BY DEF FieldInit, FieldIdle, Ranks
<1>3. phase = "construct"
  BY DEF FieldInit
<1>4. TypeInv
  <2>1. \E setup \in Setups : link = setup[1] /\ mode = setup[2]
    BY DEF FieldInit, FieldIdle
  <2>2. spawned \in [Ranks -> 0 .. Rounds] /\ computed \in [Ranks -> 0 .. Rounds]
    BY <1>1, <1>2
  <2>3. stage \in [Ranks -> [Ways -> [Sides -> [1 .. Rounds -> Stages]]]]
    BY <1>2 DEF Stages, SendStages
  <2>4. field \in [Ranks -> [border : Nat, guard : [Sides -> Nat], sum : SUBSET (Sides \X Nat)]]
    BY <1>2
  <2>5. device \in [Ranks -> [Ways -> [Sides -> Nat]]] /\ staging \in [Ranks -> [Ways -> [Sides -> Nat]]]
    BY <1>2
  <2>6. held \in [Ranks -> [Sides -> SUBSET (Sides \X Nat)]]
    BY <1>2
  <2> QED
    BY <1>3, <2>1, <2>2, <2>3, <2>4, <2>5, <2>6 DEF TypeInv
<1>5. GridInv
  <2> DEFINE none == [tag |-> 0, hasOneExchange |-> FALSE, send |-> None, receive |-> None]
  <2>1. grids = [g \in {"field", "other"} |-> none]
    BY DEF FieldInit, FieldIdle
  <2>2. none.tag = 0 /\ none.hasOneExchange = FALSE /\ none.send = None /\ none.receive = None
    OBVIOUS
  <2>3. DOMAIN None = {}
    BY DEF None
  <2> HIDE DEF none
  <2>4. Paired(none)
    <3>1. none.tag \in Nat
      BY <2>2
    <3>2. none.hasOneExchange \in BOOLEAN
      BY <2>2, Zenon
    <3>3. DOMAIN none.send = {} /\ DOMAIN none.receive = {}
      BY <2>2, <2>3
    <3> QED
      BY <3>1, <3>2, <3>3, Zenon DEF Paired
  <2> QED
    BY <2>1, <2>4 DEF GridInv
<1>6. QuietInv
  BY <1>2 DEF QuietInv
<1>7. RunInv
  BY <1>3 DEF RunInv
<1> QED
  BY <1>4, <1>5, <1>6, <1>7 DEF Inv

\* What the types and the quiet state say of is unchanged.
LEMMA StillQuiet ==
    ASSUME TypeInv, QuietInv, phase # "run", phase' \in {"construct", "run", "thrown"},
           UNCHANGED <<link, mode, communication>>
    PROVE  /\ TypeInv'
           /\ phase' # "run" => QuietInv'
<1>1. /\ link' = link /\ mode' = mode /\ spawned' = spawned /\ computed' = computed /\ stage' = stage
      /\ field' = field /\ device' = device /\ staging' = staging /\ held' = held /\ wire' = wire
  BY DEF communication
<1>2. TypeInv'
  BY <1>1 DEF TypeInv, Ranks
<1>3. QuietInv'
  BY <1>1 DEF QuietInv, Ranks
<1> QED
  BY <1>2, <1>3

\* GridBuffer::addExchange adds both ends under the tag of the buffer, or throws.
LEMMA AddsExchange ==
    ASSUME Inv, NEW x \in Calls, addExchange(x[1], x[2], x[3])
    PROVE  Inv'
<1> DEFINE g      == x[1]
           mask   == x[2]
           tag    == x[3]
           buffer == grids[g]
           send   == {getMirroredExchangeType(ex) : ex \in mask}
           new    == [tag |-> tag, hasOneExchange |-> TRUE,
                      send |-> merge(buffer.send, [ex \in send |-> uniqCommunicationTag(tag, ex)]),
                      receive |-> merge(buffer.receive, receiveTags(tag, mask))]
<1>1. TypeInv /\ GridInv /\ QuietInv /\ phase = "construct" /\ phase' \in {"construct", "thrown"}
  BY DEF Inv, addExchange
<1>2. UNCHANGED <<link, mode, communication>>
  BY DEF addExchange
<1>3. TypeInv' /\ QuietInv' /\ RunInv'
  BY <1>1, <1>2, StillQuiet DEF RunInv
<1>4. g \in {"field", "other"} /\ tag \in Nat
  BY FieldConstants
<1>5. \/ grids' = grids
      \/ /\ grids' = [grids EXCEPT ![g] = new]
         /\ buffer.hasOneExchange => tag = buffer.tag
  BY Zenon DEF addExchange
<1>6. ASSUME grids' = [grids EXCEPT ![g] = new], buffer.hasOneExchange => tag = buffer.tag
      PROVE  GridInv'
  <2>1. Paired(buffer) /\ DOMAIN grids = {"field", "other"} /\ \A h \in DOMAIN grids : Paired(grids[h])
    BY <1>1, <1>4 DEF GridInv
  <2>2. mask \subseteq Sides /\ send \subseteq Sides
    BY DEF Sides
  <2>3. \A ex \in Sides : ex \in send <=> getMirroredExchangeType(ex) \in mask
    <3> TAKE ex \in Sides
    <3>1. getMirroredExchangeType(getMirroredExchangeType(ex)) = ex
      BY SidesMirrored
    <3>2. ASSUME ex \in send PROVE getMirroredExchangeType(ex) \in mask
      <4>1. PICK e \in mask : ex = getMirroredExchangeType(e)
        BY <3>2
      <4>2. getMirroredExchangeType(getMirroredExchangeType(e)) = e
        BY <2>2, <4>1, SidesMirrored
      <4> QED
        BY <4>1, <4>2
    <3>3. ASSUME getMirroredExchangeType(ex) \in mask PROVE ex \in send
      BY <3>1, <3>3
    <3> QED
      BY <3>2, <3>3
  <2>4. /\ new.tag = tag /\ new.hasOneExchange = TRUE
        /\ new.send = merge(buffer.send, [ex \in send |-> uniqCommunicationTag(tag, ex)])
        /\ new.receive = merge(buffer.receive, receiveTags(tag, mask))
    OBVIOUS
  <2> HIDE DEF new, send, mask, tag, buffer
  <2>5. /\ DOMAIN new.send = DOMAIN buffer.send \cup send
        /\ \A ex \in DOMAIN new.send : new.send[ex] = IF ex \in DOMAIN buffer.send THEN buffer.send[ex]
                                                      ELSE uniqCommunicationTag(tag, ex)
    BY <2>4 DEF merge
  <2>6. /\ DOMAIN new.receive = DOMAIN buffer.receive \cup mask
        /\ \A ex \in DOMAIN new.receive :
              new.receive[ex] = IF ex \in DOMAIN buffer.receive THEN buffer.receive[ex]
                                ELSE uniqCommunicationTag(tag, getMirroredExchangeType(ex))
    BY <2>4 DEF merge, receiveTags
  <2>7. (\E ex \in DOMAIN buffer.send \cup DOMAIN buffer.receive : TRUE) => tag = buffer.tag
    BY <1>6, <2>1 DEF Paired
  <2>8. Paired(new)
    <3>1. DOMAIN new.send \subseteq Sides /\ DOMAIN new.receive \subseteq Sides
      BY <2>1, <2>2, <2>5, <2>6 DEF Paired
    <3>2. \A ex \in Sides : ex \in DOMAIN new.send <=> getMirroredExchangeType(ex) \in DOMAIN new.receive
      BY <2>1, <2>3, <2>5, <2>6 DEF Paired
    <3>3. \A ex \in DOMAIN new.send : new.send[ex] = uniqCommunicationTag(tag, ex)
      BY <2>1, <2>5, <2>7 DEF Paired
    <3>4. \A ex \in DOMAIN new.receive :
             new.receive[ex] = uniqCommunicationTag(tag, getMirroredExchangeType(ex))
      BY <2>1, <2>6, <2>7 DEF Paired
    <3> QED
      BY <1>4, <2>4, <3>1, <3>2, <3>3, <3>4 DEF Paired
  <2>9. DOMAIN grids' = DOMAIN grids /\ \A h \in DOMAIN grids : grids'[h] = new \/ grids'[h] = grids[h]
    BY <1>6
  <2> QED
    BY <2>1, <2>8, <2>9 DEF GridInv
<1>7. ASSUME grids' = grids PROVE GridInv'
  BY <1>1, <1>7 DEF GridInv
<1> QED
  BY <1>3, <1>5, <1>6, <1>7 DEF Inv

-----------------------------------------------------------------------------
(* What a step leaves as it was.                                           *)

\* After construction, neither the topology nor the exchanges change.
Fixed == link' = link /\ mode' = mode /\ grids' = grids

\* So the exchanges of a rank, their lanes and the use of buffers stay.
LEMMA SamePlaces ==
    ASSUME Fixed
    PROVE  /\ Ranks' = Ranks
           /\ \A q, kind : active(q, kind)' = active(q, kind)
           /\ \A q, kind, e : lane(q, kind, e)' = lane(q, kind, e)
           /\ staged' <=> staged
           /\ InGuard' = InGuard
BY DEF Fixed, Ranks, active, lane, tagOf, staged, InGuard

\* The exchanges of a rank have directions of the model.
LEMMA ActiveSides ==
    ASSUME GridInv, NEW r, NEW kind \in Ways, NEW ex \in active(r, kind)
    PROVE  ex \in Sides
<1>1. Paired(grids["field"])
  BY DEF GridInv
<1>2. kind = "send" \/ kind = "receive"
  BY DEF Ways
<1>3. CASE kind = "send"
  BY <1>1, <1>3 DEF active, Paired
<1>4. CASE kind = "receive"
  BY <1>1, <1>4 DEF active, Paired
<1> QED
  BY <1>2, <1>3, <1>4

\* The lanes are kept by a step that completes no send and brings no message.
LEMMA LanesKept ==
    ASSUME LaneInv, TypeInv, GridInv, Fixed, wire' = wire,
           \A q \in Ranks : \A e \in Sides, j \in 1 .. Rounds :
               /\ stage'[q]["send"][e][j] = "done" <=> stage[q]["send"][e][j] = "done"
               /\ stage'[q]["receive"][e][j] \in Come <=> stage[q]["receive"][e][j] \in Come
    PROVE  LaneInv'
<1>1. /\ Ranks' = Ranks
      /\ \A q, kind : active(q, kind)' = active(q, kind)
      /\ \A q, kind, e : lane(q, kind, e)' = lane(q, kind, e)
  BY SamePlaces
<1>2. SUFFICES ASSUME NEW r \in Ranks, NEW ex \in active(r, "receive")
               PROVE  \E a, d \in 0 .. Rounds : a <= d /\ LaneOf(r, ex, a, d)'
  BY <1>1 DEF LaneInv
<1>3. PICK a \in 0 .. Rounds, d \in 0 .. Rounds : a <= d /\ LaneOf(r, ex, a, d)
  BY DEF LaneInv
<1>4. ex \in Sides /\ link[r][ex] \in Ranks /\ getMirroredExchangeType(ex) \in Sides
  BY ReceiveEnds, SidesMirrored
<1>5. messages(wire, lane(r, "receive", ex))' = messages(wire, lane(r, "receive", ex))
  BY <1>1 DEF messages
<1>6. link'[r][ex] = link[r][ex]
  BY DEF Fixed
<1>7. LaneOf(r, ex, a, d)'
  <2> DEFINE from  == link[r][ex]
             back  == getMirroredExchangeType(ex)
             under == messages(wire, lane(r, "receive", ex))
  <2>1. /\ \A k \in 1 .. Rounds : stage[from]["send"][back][k] = "done" <=> k <= d
        /\ \A k \in 1 .. Rounds : stage[r]["receive"][ex][k] \in Come <=> k <= a
        /\ under \in Seq(Nat) /\ Len(under) = d - a
        /\ \A i \in 1 .. Len(under) : under[i] = a + i
    BY <1>3 DEF LaneOf
  <2>2. \A k \in 1 .. Rounds : stage'[from]["send"][back][k] = "done" <=> k <= d
    BY <1>4, <2>1
  <2>3. \A k \in 1 .. Rounds : stage'[r]["receive"][ex][k] \in Come <=> k <= a
    BY <1>4, <2>1
  <2> HIDE DEF from, back, under
  <2> QED
    BY <1>5, <1>6, <2>1, <2>2, <2>3 DEF LaneOf, from, back, under
<1> QED
  BY <1>3, <1>7

\* The guards are kept by a step that brings no round there.
LEMMA GuardsKept ==
    ASSUME GuardInv, GridInv, Fixed,
           \A q \in Ranks : \A e \in Sides : field'[q].guard[e] = field[q].guard[e],
           \A q \in Ranks : \A e \in Sides, j \in 1 .. Rounds :
               stage'[q]["receive"][e][j] \in InGuard <=> stage[q]["receive"][e][j] \in InGuard
    PROVE  GuardInv'
<1>1. Ranks' = Ranks /\ InGuard' = InGuard /\ \A q, kind : active(q, kind)' = active(q, kind)
  BY SamePlaces
<1>2. SUFFICES ASSUME ~mode.additive, NEW r \in Ranks, NEW ex \in active(r, "receive")
               PROVE  /\ field'[r].guard[ex] \in 0 .. Rounds
                      /\ \A k \in 1 .. Rounds :
                            stage'[r]["receive"][ex][k] \in InGuard <=> k <= field'[r].guard[ex]
  BY <1>1 DEF GuardInv, Fixed
<1>3. ex \in Sides
  BY ActiveSides DEF Ways
<1> QED
  BY <1>2, <1>3 DEF GuardInv

\* The sums are kept by a step in which receives take turns and none starts to add or is done.
LEMMA AddsKept ==
    ASSUME SumInv, GridInv, Fixed, computed' = computed,
           \A q \in Ranks : field'[q].sum = field[q].sum,
           \A q \in Ranks : \A e \in Sides : held'[q][e] = held[q][e],
           \A q \in Ranks : \A e \in Sides, j \in 1 .. Rounds :
               /\ stage'[q]["receive"][e][j] = "done" <=> stage[q]["receive"][e][j] = "done"
               /\ stage'[q]["receive"][e][j] = "adding" => stage[q]["receive"][e][j] = "adding",
           computed \in [Ranks -> 0 .. Rounds],
           mode.additive => \A q \in Ranks : \A one, two \in active(q, "receive") : \A k \in 1 .. Rounds :
               one < two /\ stage'[q]["receive"][two][k] \notin Waiting => stage'[q]["receive"][one][k] = "done"
    PROVE  SumInv'
<1>1. Ranks' = Ranks /\ \A q, kind : active(q, kind)' = active(q, kind)
  BY SamePlaces
<1>2. SUFFICES ASSUME mode.additive, NEW r \in Ranks
               PROVE  /\ \A one, two \in active(r, "receive") : \A k \in 1 .. Rounds :
                            one < two /\ stage'[r]["receive"][two][k] \notin Waiting =>
                                stage'[r]["receive"][one][k] = "done"
                      /\ mode.chained =>
                            /\ \A ex \in Sides, k \in Nat :
                                  <<ex, k>> \in field'[r].sum <=>
                                      /\ k = computed[r] /\ k > 0 /\ ex \in active(r, "receive")
                                      /\ stage'[r]["receive"][ex][k] = "done"
                            /\ \A ex \in active(r, "receive") : \A k \in 1 .. Rounds :
                                  stage'[r]["receive"][ex][k] = "adding" => held'[r][ex] = field'[r].sum
  BY <1>1 DEF SumInv, Fixed
<1>3. \A ex \in active(r, "receive") : ex \in Sides
  BY ActiveSides DEF Ways
<1>4. \A one, two \in active(r, "receive") : \A k \in 1 .. Rounds :
         one < two /\ stage'[r]["receive"][two][k] \notin Waiting => stage'[r]["receive"][one][k] = "done"
  BY <1>2
<1>5. ASSUME mode.chained, NEW ex \in Sides, NEW k \in Nat
      PROVE  <<ex, k>> \in field'[r].sum <=>
                 /\ k = computed[r] /\ k > 0 /\ ex \in active(r, "receive")
                 /\ stage'[r]["receive"][ex][k] = "done"
  <2>1. computed[r] \in 0 .. Rounds /\ Rounds \in Nat
    BY FieldConstants
  <2>2. k = computed[r] /\ k > 0 => k \in 1 .. Rounds
    BY <2>1
  <2>3. <<ex, k>> \in field[r].sum <=>
            /\ k = computed[r] /\ k > 0 /\ ex \in active(r, "receive")
            /\ stage[r]["receive"][ex][k] = "done"
    BY <1>2, <1>5 DEF SumInv
  <2> QED
    BY <2>2, <2>3
<1>6. ASSUME mode.chained, NEW ex \in active(r, "receive"), NEW k \in 1 .. Rounds, stage'[r]["receive"][ex][k] = "adding"
      PROVE  held'[r][ex] = field'[r].sum
  <2>1. stage[r]["receive"][ex][k] = "adding" /\ ex \in Sides
    BY <1>3, <1>6
  <2>2. held[r][ex] = field[r].sum
    BY <1>2, <1>6, <2>1 DEF SumInv
  <2> QED
    BY <2>1, <2>2
<1> QED
  BY <1>4, <1>5, <1>6

\* The sums are kept by a step in which no receive takes its turn, starts to add or is done.
LEMMA SumsKept ==
    ASSUME SumInv, GridInv, Fixed, computed' = computed,
           \A q \in Ranks : field'[q].sum = field[q].sum,
           \A q \in Ranks : \A e \in Sides : held'[q][e] = held[q][e],
           \A q \in Ranks : \A e \in Sides, j \in 1 .. Rounds :
               /\ stage[q]["receive"][e][j] \in Waiting => stage'[q]["receive"][e][j] \in Waiting
               /\ stage'[q]["receive"][e][j] = "done" <=> stage[q]["receive"][e][j] = "done"
               /\ stage'[q]["receive"][e][j] = "adding" => stage[q]["receive"][e][j] = "adding",
           computed \in [Ranks -> 0 .. Rounds]
    PROVE  SumInv'
<1>1. ASSUME mode.additive, NEW q \in Ranks, NEW one \in active(q, "receive"), NEW two \in active(q, "receive"),
             NEW k \in 1 .. Rounds, one < two, stage'[q]["receive"][two][k] \notin Waiting
      PROVE  stage'[q]["receive"][one][k] = "done"
  <2>1. one \in Sides /\ two \in Sides
    BY ActiveSides DEF Ways
  <2>2. stage[q]["receive"][one][k] = "done"
    BY <1>1, <2>1 DEF SumInv
  <2> QED
    BY <2>1, <2>2
<1> QED
  BY <1>1, AddsKept

-----------------------------------------------------------------------------
(* The first call.                                                         *)

\* Before the first call every invariant of the calls holds.
LEMMA QuietRuns ==
    ASSUME TypeInv, GridInv, QuietInv, phase # "run"
    PROVE  RoundInv /\ BufferInv /\ GuardInv /\ LaneInv /\ SumInv
<1>1. /\ \A r \in Ranks : spawned[r] = 0 /\ computed[r] = 0
      /\ \A r \in Ranks : \A kind \in Ways, ex \in Sides, k \in 1 .. Rounds : stage[r][kind][ex][k] = "idle"
      /\ \A r \in Ranks : \A ex \in Sides : field[r].guard[ex] = 0 /\ held[r][ex] = {}
      /\ \A r \in Ranks : field[r].border = 0 /\ field[r].sum = {}
      /\ DOMAIN wire = {}
  BY DEF QuietInv
<1>2. Rounds \in Nat /\ "send" \in Ways /\ "receive" \in Ways
  BY FieldConstants DEF Ways
<1>3. \A r : \A kind \in Ways : \A ex \in active(r, kind) : ex \in Sides
  BY ActiveSides
<1>4. \A r \in Ranks : \A ex \in Sides, k \in 1 .. Rounds :
         stage[r]["send"][ex][k] = "idle" /\ stage[r]["receive"][ex][k] = "idle"
  BY <1>1, <1>2
<1>5. RoundInv
  <2>1. \A k \in 1 .. Rounds : k > 0 /\ ~(k < 0)
    BY <1>2
  <2>2. ASSUME NEW r \in Ranks, NEW kind \in Ways, NEW ex \in Sides PROVE RoundsOf(r, kind, ex)
    <3>1. spawned[r] = 0 /\ computed[r] = 0 /\ \A k \in 1 .. Rounds : stage[r][kind][ex][k] = "idle"
      BY <1>1
    <3> QED
      BY <2>1, <3>1 DEF RoundsOf, Waiting
  <2>3. \A r \in Ranks : computed[r] <= spawned[r] /\ field[r].border = computed[r]
    BY <1>1
  <2> QED
    BY <1>1, <2>2, <2>3 DEF RoundInv
<1>6. BufferInv
  <2>1. ASSUME NEW r \in Ranks, NEW ex \in Sides PROVE SendBuffers(r, ex) /\ ReceiveBuffers(r, ex)
    <3>1. \A k \in 1 .. Rounds : stage[r]["send"][ex][k] = "idle" /\ stage[r]["receive"][ex][k] = "idle"
      BY <1>4
    <3>2. SendBuffers(r, ex)
      BY <3>1 DEF SendBuffers, SendStages
    <3>3. ReceiveBuffers(r, ex)
      BY <3>1 DEF ReceiveBuffers, ReceiveStages
    <3> QED
      BY <3>2, <3>3
  <2> QED
    BY <1>2, <1>3, <2>1 DEF BufferInv
<1>7. GuardInv
  <2>1. "idle" \notin InGuard
    BY DEF InGuard
  <2> QED
    BY FieldConstants, <1>1, <1>2, <1>3, <1>4, <2>1 DEF GuardInv
<1>8. LaneInv
  <2> SUFFICES ASSUME NEW r \in Ranks, NEW ex \in active(r, "receive")
               PROVE  \E a, d \in 0 .. Rounds : a <= d /\ LaneOf(r, ex, a, d)
    BY DEF LaneInv
  <2>1. ex \in Sides /\ link[r][ex] \in Ranks /\ getMirroredExchangeType(ex) \in Sides
    BY ReceiveEnds, SidesMirrored
  <2>2. \A k \in 1 .. Rounds : ~(k <= 0)
    BY <1>2
  <2>3. messages(wire, lane(r, "receive", ex)) = <<>>
    BY <1>1 DEF messages
  <2>4. \A k \in 1 .. Rounds : stage[link[r][ex]]["send"][getMirroredExchangeType(ex)][k] # "done"
    BY <1>4, <2>1
  <2>5. \A k \in 1 .. Rounds : stage[r]["receive"][ex][k] \notin Come
    BY <1>4, <2>1 DEF Come
  <2>6. <<>> \in Seq(Nat) /\ Len(<<>>) = 0 - 0 /\ 1 .. Len(<<>>) = {}
    OBVIOUS
  <2>7. LaneOf(r, ex, 0, 0)
    BY <2>2, <2>3, <2>4, <2>5, <2>6 DEF LaneOf
  <2> QED
    BY <1>2, <2>7
<1>9. SumInv
  <2>1. \A r \in Ranks : field[r].sum = {} /\ computed[r] = 0
    BY <1>1
  <2> QED
    BY <1>4, <1>2, <1>3, <2>1 DEF SumInv, Waiting
<1> QED
  BY <1>5, <1>6, <1>7, <1>8, <1>9

\* The invariants say nothing of the phase.
LEMMA StaysTheSame ==
    ASSUME RoundInv /\ BufferInv /\ GuardInv /\ LaneInv /\ SumInv, Fixed, UNCHANGED communication
    PROVE  (RoundInv /\ BufferInv /\ GuardInv /\ LaneInv /\ SumInv)'
<1>1. /\ spawned' = spawned /\ computed' = computed /\ stage' = stage
      /\ field' = field /\ device' = device /\ staging' = staging /\ held' = held /\ wire' = wire
      /\ link' = link /\ mode' = mode /\ grids' = grids
  BY DEF communication, Fixed
<1>2. RoundInv' /\ BufferInv'
  BY <1>1 DEF RoundInv, RoundsOf, BufferInv, SendBuffers, ReceiveBuffers, active, Ranks, staged
<1>3. GuardInv'
  BY <1>1 DEF GuardInv, InGuard, active, Ranks, staged
<1>4. LaneInv'
  <2>1. \A r, ex : lane(r, "receive", ex)' = lane(r, "receive", ex) /\ link'[r][ex] = link[r][ex]
    BY <1>1 DEF lane, tagOf
  <2>2. ASSUME NEW r, NEW ex, NEW a, NEW d, LaneOf(r, ex, a, d) PROVE LaneOf(r, ex, a, d)'
    <3>1. messages(wire, lane(r, "receive", ex))' = messages(wire, lane(r, "receive", ex))
      BY <1>1, <2>1 DEF messages
    <3> QED
      BY <1>1, <2>1, <2>2, <3>1, Zenon DEF LaneOf
  <2>3. \A r, ex, a, d : LaneOf(r, ex, a, d) => LaneOf(r, ex, a, d)'
    BY <2>2
  <2>4. Ranks' = Ranks /\ \A r, kind : active(r, kind)' = active(r, kind)
    BY <1>1 DEF active, Ranks
  <2> QED
    BY <2>3, <2>4, Zenon DEF LaneInv
<1>5. SumInv'
  BY <1>1 DEF SumInv, active, Ranks
<1> QED
  BY <1>2, <1>3, <1>4, <1>5

\* The constructors are through; the first call may come.
LEMMA Runs ==
    ASSUME Inv, Run
    PROVE  Inv'
<1>1. TypeInv /\ GridInv /\ QuietInv /\ phase = "construct" /\ phase' = "run"
  BY DEF Inv, Run, ready
<1>2. UNCHANGED <<link, mode, grids, communication>> /\ Fixed
  BY DEF Run, Fixed
<1>3. TypeInv'
  BY <1>1, <1>2, StillQuiet DEF communication
<1>4. GridInv'
  BY <1>1, <1>2 DEF GridInv
<1>5. QuietInv'
  BY <1>1 DEF QuietInv
<1>6. RoundInv /\ BufferInv /\ GuardInv /\ LaneInv /\ SumInv
  BY <1>1, QuietRuns
<1>7. RunInv'
  BY <1>2, <1>6, StaysTheSame DEF RunInv, communication
<1> QED
  BY <1>3, <1>4, <1>5, <1>7 DEF Inv

-----------------------------------------------------------------------------
(* Calls and kernels.                                                      *)

\* Calling spawnCommunication makes the next round of every exchange of the rank spawned.
LEMMA Spawns ==
    ASSUME Inv, phase = "run", NEW r \in Ranks, spawnCommunication(r)
    PROVE  Inv'
<1> DEFINE n == spawned[r] + 1
<1>1. TypeInv /\ GridInv /\ RoundInv /\ BufferInv /\ GuardInv /\ LaneInv /\ SumInv
  BY DEF Inv, RunInv
<1>2. /\ Fixed /\ phase' = phase /\ computed' = computed /\ field' = field /\ device' = device
      /\ staging' = staging /\ held' = held /\ wire' = wire
  BY DEF spawnCommunication, Fixed
<1>3. /\ Ranks' = Ranks /\ \A q, kind : active(q, kind)' = active(q, kind)
      /\ staged' <=> staged
  BY <1>2, SamePlaces
<1>4. /\ spawned \in [Ranks -> 0 .. Rounds] /\ computed \in [Ranks -> 0 .. Rounds] /\ Rounds \in Nat
      /\ stage \in [Ranks -> [Ways -> [Sides -> [1 .. Rounds -> Stages]]]]
  BY <1>1, FieldConstants DEF TypeInv
<1>5. n \in 1 .. Rounds /\ spawned' = [spawned EXCEPT ![r] = n] /\ spawned'[r] = n
  BY <1>4 DEF spawnCommunication
<1>6. /\ \A q \in Ranks : q # r => stage'[q] = stage[q] /\ spawned'[q] = spawned[q]
      /\ stage'[r] = [kind \in Ways |-> [ex \in Sides |->
                        IF ex \in active(r, kind) THEN [stage[r][kind][ex] EXCEPT ![n] = "spawned"]
                        ELSE stage[r][kind][ex]]]
      /\ DOMAIN stage' = Ranks
  BY <1>4, <1>5 DEF spawnCommunication
<1>7. ASSUME NEW kind \in Ways, NEW ex \in Sides, NEW k \in 1 .. Rounds
      PROVE  stage'[r][kind][ex][k] = IF ex \in active(r, kind) /\ k = n THEN "spawned" ELSE stage[r][kind][ex][k]
  <2>1. stage[r][kind][ex] \in [1 .. Rounds -> Stages]
    BY <1>4
  <2>2. stage'[r][kind][ex] = IF ex \in active(r, kind) THEN [stage[r][kind][ex] EXCEPT ![n] = "spawned"]
                              ELSE stage[r][kind][ex]
    BY <1>6
  <2> QED
    BY <2>1, <2>2
<1>8. stage' \in [Ranks -> [Ways -> [Sides -> [1 .. Rounds -> Stages]]]]
  <2>1. \A kind \in Ways, ex \in Sides : stage[r][kind][ex] \in [1 .. Rounds -> Stages]
    BY <1>4
  <2>2. "spawned" \in Stages
    BY DEF Stages, SendStages
  <2>3. \A kind \in Ways, ex \in Sides : [stage[r][kind][ex] EXCEPT ![n] = "spawned"] \in [1 .. Rounds -> Stages]
    BY <2>1, <2>2
  <2>4. stage'[r] \in [Ways -> [Sides -> [1 .. Rounds -> Stages]]]
    BY <1>6, <2>1, <2>3
  <2>5. \A q \in Ranks : stage'[q] \in [Ways -> [Sides -> [1 .. Rounds -> Stages]]]
    BY <1>4, <1>6, <2>4
  <2>6. stage' = [q \in Ranks |-> stage'[q]]
    BY <1>4 DEF spawnCommunication
  <2> QED
    BY <2>5, <2>6
<1>9. ASSUME NEW kind \in Ways, NEW ex \in active(r, kind)
      PROVE  ex \in Sides /\ RoundsOf(r, kind, ex) /\ stage[r][kind][ex][n] = "idle"
  <2>1. ex \in Sides
    BY <1>1, ActiveSides
  <2>2. RoundsOf(r, kind, ex)
    BY <1>1, <2>1 DEF RoundInv
  <2>3. n > spawned[r]
    BY <1>4
  <2> QED
    BY <1>5, <2>1, <2>2, <2>3 DEF RoundsOf
<1>10. ASSUME NEW q \in Ranks, NEW kind \in Ways, NEW ex \in Sides, NEW k \in 1 .. Rounds
       PROVE  \/ stage'[q][kind][ex][k] = stage[q][kind][ex][k]
              \/ stage'[q][kind][ex][k] = "spawned" /\ stage[q][kind][ex][k] = "idle"
  <2>1. CASE q # r
    BY <1>6, <2>1
  <2>2. CASE q = r /\ ~(ex \in active(r, kind) /\ k = n)
    BY <1>7, <2>2
  <2>3. CASE q = r /\ ex \in active(r, kind) /\ k = n
    <3>1. stage'[r][kind][ex][k] = "spawned"
      BY <1>7, <2>3
    <3>2. stage[r][kind][ex][n] = "idle"
      BY <1>9, <2>3
    <3> QED
      BY <2>3, <3>1, <3>2
  <2> QED
    BY <2>1, <2>2, <2>3
<1>11. TypeInv'
  <2>1. spawned' \in [Ranks -> 0 .. Rounds]
    BY <1>4, <1>5
  <2> QED
    BY <1>1, <1>2, <1>3, <1>8, <2>1 DEF TypeInv, Fixed
<1>12. GridInv'
  BY <1>1, <1>2 DEF GridInv, Fixed
<1>13. QuietInv'
  BY <1>2 DEF QuietInv
<1> HIDE DEF n
<1>14. RoundInv'
  <2>1. ASSUME NEW q \in Ranks PROVE computed'[q] <= spawned'[q] /\ (mode'.chained => field'[q].border = computed'[q])
    <3>1. computed[q] <= spawned[q] /\ (mode.chained => field[q].border = computed[q])
      BY <1>1 DEF RoundInv
    <3>2. spawned[q] <= spawned'[q] /\ computed[q] \in Nat /\ spawned[q] \in Nat /\ spawned'[q] \in Nat
      BY <1>4, <1>5, <1>6 DEF n
    <3> QED
      BY <1>2, <3>1, <3>2 DEF Fixed
  <2>2. ASSUME NEW q \in Ranks, NEW kind \in Ways, NEW ex \in Sides
        PROVE  IF ex \in active(q, kind) THEN RoundsOf(q, kind, ex)'
               ELSE \A k \in 1 .. Rounds : stage'[q][kind][ex][k] = "idle"
    <3>1. IF ex \in active(q, kind) THEN RoundsOf(q, kind, ex)
          ELSE \A k \in 1 .. Rounds : stage[q][kind][ex][k] = "idle"
      BY <1>1 DEF RoundInv
    <3>2. CASE q # r
      <4>1. stage'[q] = stage[q] /\ spawned'[q] = spawned[q]
        BY <1>6, <3>2
      <4> QED
        BY <1>2, <3>1, <4>1 DEF RoundsOf, Fixed
    <3>3. CASE q = r /\ ex \notin active(r, kind)
      BY <1>7, <3>1, <3>3
    <3>4. CASE q = r /\ ex \in active(r, kind)
      <4>1. RoundsOf(r, kind, ex) /\ stage[r][kind][ex][n] = "idle"
        BY <1>9, <3>4
      <4>2. \A k \in 1 .. Rounds : stage'[r][kind][ex][k] = IF k = n THEN "spawned" ELSE stage[r][kind][ex][k]
        BY <1>7, <3>4
      <4>3. ASSUME NEW k \in 1 .. Rounds
            PROVE  /\ stage'[r][kind][ex][k] = "idle" <=> k > n
                   /\ stage'[r][kind][ex][k] \notin Waiting =>
                         /\ \A j \in 1 .. Rounds : j < k => stage'[r][kind][ex][j] = "done"
                         /\ mode.chained => computed[r] >= k
                   /\ mode.chained /\ k < computed[r] => stage'[r][kind][ex][k] = "done"
        <5>1. stage[r][kind][ex][k] = "idle" <=> k > spawned[r]
          BY <4>1 DEF RoundsOf
        <5>2. stage'[r][kind][ex][k] = "idle" <=> k > n
          <6>1. n = spawned[r] + 1 /\ spawned[r] \in Nat
            BY <1>4 DEF n
          <6>2. CASE k = n
            BY <4>2, <6>1, <6>2
          <6>3. CASE k # n
            <7>1. k > spawned[r] <=> k > n
              BY <6>1, <6>3
            <7> QED
              BY <4>2, <5>1, <6>3, <7>1
          <6> QED
            BY <6>2, <6>3
        <5>3. ASSUME stage'[r][kind][ex][k] \notin Waiting
              PROVE  /\ \A j \in 1 .. Rounds : j < k => stage'[r][kind][ex][j] = "done"
                     /\ mode.chained => computed[r] >= k
          <6>1. stage[r][kind][ex][k] \notin Waiting
            BY <4>2, <5>3 DEF Waiting
          <6>2. /\ \A j \in 1 .. Rounds : j < k => stage[r][kind][ex][j] = "done"
                /\ mode.chained => computed[r] >= k
            BY <4>1, <6>1 DEF RoundsOf
          <6> QED
            BY <4>1, <4>2, <6>2
        <5>4. mode.chained /\ k < computed[r] => stage[r][kind][ex][k] = "done"
          BY <4>1 DEF RoundsOf
        <5> QED
          BY <4>1, <4>2, <5>2, <5>3, <5>4
      <4> QED
        BY <1>2, <1>5, <3>4, <4>3 DEF RoundsOf, Fixed
    <3> QED
      BY <3>2, <3>3, <3>4
  <2> QED
    BY <1>3, <2>1, <2>2 DEF RoundInv
<1>15. BufferInv'
  <2>1. ASSUME NEW q \in Ranks, NEW ex \in active(q, "send") PROVE SendBuffers(q, ex)'
    <3>1. SendBuffers(q, ex) /\ ex \in Sides /\ "send" \in Ways
      BY <1>1, ActiveSides DEF BufferInv, Ways
    <3>2. \A k \in 1 .. Rounds : \/ stage'[q]["send"][ex][k] = stage[q]["send"][ex][k]
                                 \/ stage'[q]["send"][ex][k] = "spawned"
      BY <1>10, <3>1
    <3> QED
      BY <1>2, <1>3, <3>1, <3>2 DEF SendBuffers, SendStages, Fixed
  <2>2. ASSUME NEW q \in Ranks, NEW ex \in active(q, "receive") PROVE ReceiveBuffers(q, ex)'
    <3>1. ReceiveBuffers(q, ex) /\ ex \in Sides /\ "receive" \in Ways
      BY <1>1, ActiveSides DEF BufferInv, Ways
    <3>2. \A k \in 1 .. Rounds : \/ stage'[q]["receive"][ex][k] = stage[q]["receive"][ex][k]
                                 \/ stage'[q]["receive"][ex][k] = "spawned"
      BY <1>10, <3>1
    <3> QED
      BY <1>2, <1>3, <3>1, <3>2 DEF ReceiveBuffers, ReceiveStages, Fixed
  <2> QED
    BY <1>3, <2>1, <2>2 DEF BufferInv
<1>16. \A q \in Ranks : \A e \in Sides, j \in 1 .. Rounds :
          /\ \/ stage'[q]["send"][e][j] = stage[q]["send"][e][j]
             \/ stage'[q]["send"][e][j] = "spawned" /\ stage[q]["send"][e][j] = "idle"
          /\ \/ stage'[q]["receive"][e][j] = stage[q]["receive"][e][j]
             \/ stage'[q]["receive"][e][j] = "spawned" /\ stage[q]["receive"][e][j] = "idle"
  BY <1>10 DEF Ways
<1>17. LaneInv'
  BY <1>1, <1>2, <1>16, LanesKept DEF Come
<1>18. GuardInv'
  <2>1. "idle" \notin InGuard /\ "spawned" \notin InGuard
    BY DEF InGuard
  <2> QED
    BY <1>1, <1>2, <1>16, <2>1, GuardsKept
<1>19. SumInv'
  BY <1>1, <1>2, <1>4, <1>16, SumsKept DEF Waiting
<1> QED
  BY <1>11, <1>12, <1>13, <1>14, <1>15, <1>17, <1>18, <1>19 DEF Inv, RunInv

\* The kernel before the next round runs when this round's event is ready; every round up to
\* it is done.
LEMMA Computes ==
    ASSUME Inv, phase = "run", NEW r \in Ranks, compute(r)
    PROVE  Inv'
<1> DEFINE c == computed[r]
<1>1. TypeInv /\ GridInv /\ RoundInv /\ BufferInv /\ GuardInv /\ LaneInv /\ SumInv
  BY DEF Inv, RunInv
<1>2. /\ Fixed /\ phase' = phase /\ spawned' = spawned /\ stage' = stage /\ device' = device
      /\ staging' = staging /\ held' = held /\ wire' = wire
  BY DEF compute, Fixed
<1>3. /\ Ranks' = Ranks /\ \A q, kind : active(q, kind)' = active(q, kind)
      /\ staged' <=> staged
  BY <1>2, SamePlaces
<1>4. /\ spawned \in [Ranks -> 0 .. Rounds] /\ computed \in [Ranks -> 0 .. Rounds] /\ Rounds \in Nat
      /\ field \in [Ranks -> [border : Nat, guard : [Sides -> Nat], sum : SUBSET (Sides \X Nat)]]
  BY <1>1, FieldConstants DEF TypeInv
<1>5. mode.chained /\ c < spawned[r] /\ c \in Nat /\ c + 1 \in 0 .. Rounds /\ c + 1 <= spawned[r]
  BY <1>4 DEF compute
<1>6. /\ computed' = [computed EXCEPT ![r] = c + 1] /\ computed'[r] = c + 1
      /\ \A q \in Ranks : q # r => computed'[q] = computed[q] /\ field'[q] = field[q]
  BY <1>4 DEF compute
<1>7. /\ field'[r].border = c + 1 /\ field'[r].sum = {} /\ field'[r].guard = field[r].guard
      /\ field' \in [Ranks -> [border : Nat, guard : [Sides -> Nat], sum : SUBSET (Sides \X Nat)]]
  <2>1. field' = [field EXCEPT ![r].border = c + 1, ![r].sum = {}]
    BY <1>6 DEF compute
  <2>2. field[r] \in [border : Nat, guard : [Sides -> Nat], sum : SUBSET (Sides \X Nat)]
    BY <1>4
  <2>3. c + 1 \in Nat
    BY <1>5
  <2> HIDE DEF c
  <2> QED
    BY <1>4, <2>1, <2>2, <2>3
<1>8. ASSUME NEW kind \in Ways, NEW ex \in active(r, kind), c > 0 PROVE stage[r][kind][ex][c] = "done"
  BY <1>8 DEF compute, eventReady, finished
<1> HIDE DEF c
<1>9. TypeInv'
  <2>1. computed' \in [Ranks -> 0 .. Rounds]
    BY <1>4, <1>5, <1>6
  <2> QED
    BY <1>1, <1>2, <1>3, <1>7, <2>1 DEF TypeInv, Fixed
<1>10. GridInv' /\ QuietInv'
  BY <1>1, <1>2 DEF GridInv, QuietInv, Fixed
<1>11. \A kind \in Ways : \A ex \in active(r, kind) : ex \in Sides /\ RoundsOf(r, kind, ex)
  <2> TAKE kind \in Ways
  <2> TAKE ex \in active(r, kind)
  <2>1. ex \in Sides
    BY <1>1, ActiveSides
  <2> QED
    BY <1>1, <2>1 DEF RoundInv
<1>12. ASSUME NEW kind \in Ways, NEW ex \in active(r, kind), NEW k \in 1 .. Rounds
       PROVE  /\ k <= c => stage[r][kind][ex][k] = "done"
              /\ k > c => stage[r][kind][ex][k] \in Waiting
  <2>1. RoundsOf(r, kind, ex)
    BY <1>11
  <2>2. /\ k < c => stage[r][kind][ex][k] = "done"
        /\ stage[r][kind][ex][k] \notin Waiting => c >= k
    BY <1>5, <2>1 DEF RoundsOf, c
  <2>3. k = c => stage[r][kind][ex][k] = "done"
    <3> HAVE k = c
    <3>1. c > 0
      BY <1>5
    <3> QED
      BY <1>8, <3>1
  <2> QED
    BY <1>5, <2>2, <2>3
<1>13. RoundInv'
  <2>1. ASSUME NEW q \in Ranks PROVE computed'[q] <= spawned'[q] /\ (mode'.chained => field'[q].border = computed'[q])
    <3>1. computed[q] <= spawned[q] /\ (mode.chained => field[q].border = computed[q])
      BY <1>1 DEF RoundInv
    <3>2. CASE q = r
      BY <1>2, <1>5, <1>6, <1>7, <3>2
    <3>3. CASE q # r
      BY <1>2, <1>6, <3>1, <3>3 DEF Fixed
    <3> QED
      BY <3>2, <3>3
  <2>2. ASSUME NEW q \in Ranks, NEW kind \in Ways, NEW ex \in Sides
        PROVE  IF ex \in active(q, kind) THEN RoundsOf(q, kind, ex)'
               ELSE \A k \in 1 .. Rounds : stage'[q][kind][ex][k] = "idle"
    <3>1. IF ex \in active(q, kind) THEN RoundsOf(q, kind, ex)
          ELSE \A k \in 1 .. Rounds : stage[q][kind][ex][k] = "idle"
      BY <1>1 DEF RoundInv
    <3>2. CASE q # r
      <4>1. computed'[q] = computed[q]
        BY <1>6, <3>2
      <4> QED
        BY <1>2, <3>1, <4>1 DEF RoundsOf, Fixed
    <3>3. CASE q = r /\ ex \notin active(r, kind)
      BY <1>2, <3>1, <3>3
    <3>4. CASE q = r /\ ex \in active(r, kind)
      <4>1. ASSUME NEW k \in 1 .. Rounds
            PROVE  /\ stage[r][kind][ex][k] = "idle" <=> k > spawned[r]
                   /\ stage[r][kind][ex][k] \notin Waiting =>
                         /\ \A j \in 1 .. Rounds : j < k => stage[r][kind][ex][j] = "done"
                         /\ c + 1 >= k
                   /\ k < c + 1 => stage[r][kind][ex][k] = "done"
        <5>1. /\ stage[r][kind][ex][k] = "idle" <=> k > spawned[r]
              /\ stage[r][kind][ex][k] \notin Waiting =>
                    \A j \in 1 .. Rounds : j < k => stage[r][kind][ex][j] = "done"
          BY <3>1, <3>4 DEF RoundsOf
        <5>2. /\ k <= c => stage[r][kind][ex][k] = "done"
              /\ k > c => stage[r][kind][ex][k] \in Waiting
          BY <1>12, <3>4
        <5>3. (k <= c <=> k < c + 1) /\ (k <= c => c + 1 >= k) /\ (k <= c \/ k > c)
          BY <1>5
        <5> QED
          BY <5>1, <5>2, <5>3
      <4> QED
        BY <1>2, <1>6, <3>4, <4>1 DEF RoundsOf, Fixed
    <3> QED
      BY <3>2, <3>3, <3>4
  <2> QED
    BY <1>3, <2>1, <2>2 DEF RoundInv
<1>14. BufferInv'
  BY <1>1, <1>2, <1>3 DEF BufferInv, SendBuffers, ReceiveBuffers, Fixed
<1>15. LaneInv'
  BY <1>1, <1>2, LanesKept
<1>16. GuardInv'
  <2>1. \A q \in Ranks : \A e \in Sides : field'[q].guard[e] = field[q].guard[e]
    BY <1>6, <1>7
  <2> QED
    BY <1>1, <1>2, <2>1, GuardsKept
<1>17. SumInv'
  <2>1. SUFFICES ASSUME mode.additive, NEW q \in Ranks
                 PROVE  /\ \A one, two \in active(q, "receive") : \A k \in 1 .. Rounds :
                              one < two /\ stage[q]["receive"][two][k] \notin Waiting =>
                                  stage[q]["receive"][one][k] = "done"
                        /\ mode.chained =>
                              /\ \A ex \in Sides, k \in Nat :
                                    <<ex, k>> \in field'[q].sum <=>
                                        /\ k = computed'[q] /\ k > 0 /\ ex \in active(q, "receive")
                                        /\ stage[q]["receive"][ex][k] = "done"
                              /\ \A ex \in active(q, "receive") : \A k \in 1 .. Rounds :
                                    stage[q]["receive"][ex][k] = "adding" => held[q][ex] = field'[q].sum
    BY <1>2, <1>3 DEF SumInv, Fixed
  <2>2. \A one, two \in active(q, "receive") : \A k \in 1 .. Rounds :
           one < two /\ stage[q]["receive"][two][k] \notin Waiting => stage[q]["receive"][one][k] = "done"
    BY <1>1, <2>1 DEF SumInv
  <2>3. CASE q # r
    <3>1. computed'[q] = computed[q] /\ field'[q] = field[q]
      BY <1>6, <2>3
    <3> QED
      BY <1>1, <2>1, <2>2, <3>1 DEF SumInv
  <2>4. CASE q = r
    <3>1. "receive" \in Ways
      BY DEF Ways
    <3>2. ASSUME NEW ex \in active(r, "receive"), NEW k \in 1 .. Rounds, stage[r]["receive"][ex][k] = "adding"
          PROVE  FALSE
      <4>1. k <= c \/ k > c
        BY <1>5
      <4>2. stage[r]["receive"][ex][k] = "done" \/ stage[r]["receive"][ex][k] \in Waiting
        BY <1>12, <3>1, <4>1
      <4> QED
        BY <3>2, <4>2 DEF Waiting
    <3>3. ASSUME NEW ex \in active(r, "receive"), stage[r]["receive"][ex][c + 1] = "done"
          PROVE  FALSE
      <4>1. c + 1 \in 1 .. Rounds /\ c + 1 > c
        BY <1>4, <1>5
      <4>2. stage[r]["receive"][ex][c + 1] \in Waiting
        BY <1>12, <3>1, <4>1
      <4> QED
        BY <3>3, <4>2 DEF Waiting
    <3>4. field'[q].sum = {} /\ computed'[q] = c + 1
      BY <1>6, <1>7, <2>4
    <3> QED
      BY <2>2, <2>4, <3>2, <3>3, <3>4
  <2> QED
    BY <2>3, <2>4
<1> QED
  BY <1>9, <1>10, <1>2, <1>13, <1>14, <1>15, <1>16, <1>17 DEF Inv, RunInv

-----------------------------------------------------------------------------
(* One step of one round of an exchange.                                   *)

\* The round of an exchange whose turn it is: those before it are done, those after it wait,
\* and in chained calls the kernel before it is the last that has run.
Turn(r, kind, ex, k) ==
    /\ ex \in active(r, kind) /\ ex \in Sides /\ k \in 1 .. Rounds
    /\ stage[r][kind][ex][k] # "idle" /\ stage[r][kind][ex][k] # "done"
    /\ \A j \in 1 .. Rounds : j < k => stage[r][kind][ex][j] = "done"
    /\ \A j \in 1 .. Rounds : j > k => stage[r][kind][ex][j] \in Waiting
    /\ mode.chained => computed[r] = k

\* A round that has left "spawned", or is ready to, has its turn.
LEMMA HasTurn ==
    ASSUME TypeInv, RoundInv, NEW r \in Ranks, NEW kind \in Ways, NEW ex \in Sides, NEW k \in 1 .. Rounds,
           stage[r][kind][ex][k] # "idle", stage[r][kind][ex][k] # "done",
           stage[r][kind][ex][k] \notin Waiting \/ (finished(r, kind, ex, k - 1) /\ previous(r, k))
    PROVE  Turn(r, kind, ex, k)
<1>1. ex \in active(r, kind) /\ RoundsOf(r, kind, ex)
  BY DEF RoundInv
<1>2. Rounds \in Nat /\ computed[r] \in Nat
  BY FieldConstants DEF TypeInv
<1>3. /\ \A j \in 1 .. Rounds : j < k => stage[r][kind][ex][j] = "done"
      /\ mode.chained => computed[r] >= k
  <2>1. CASE stage[r][kind][ex][k] \notin Waiting
    BY <1>1, <2>1 DEF RoundsOf
  <2>2. CASE finished(r, kind, ex, k - 1) /\ previous(r, k)
    <3>1. mode.chained => computed[r] >= k
      BY <2>2 DEF previous
    <3>2. CASE k = 1
      BY <3>1, <3>2
    <3>3. CASE k # 1
      <4>1. k - 1 \in 1 .. Rounds /\ k - 1 > 0
        BY <1>2, <3>3
      <4>2. stage[r][kind][ex][k - 1] = "done"
        BY <2>2, <4>1 DEF finished
      <4>3. \A j \in 1 .. Rounds : j < k - 1 => stage[r][kind][ex][j] = "done"
        BY <1>1, <4>1, <4>2 DEF RoundsOf, Waiting
      <4>4. \A j \in 1 .. Rounds : j < k => j < k - 1 \/ j = k - 1
        OBVIOUS
      <4> QED
        BY <3>1, <4>2, <4>3, <4>4
    <3> QED
      BY <3>2, <3>3
  <2> QED
    BY <2>1, <2>2
<1>4. \A j \in 1 .. Rounds : j > k => stage[r][kind][ex][j] \in Waiting
  BY <1>1 DEF RoundsOf
<1>5. mode.chained => ~(k < computed[r])
  BY <1>1 DEF RoundsOf
<1>6. mode.chained => computed[r] = k
  BY <1>2, <1>3, <1>5
<1> QED
  BY <1>1, <1>3, <1>4, <1>6 DEF Turn

\* What advance changes.
LEMMA AdvanceFacts ==
    ASSUME TypeInv, NEW r \in Ranks, NEW kind \in Ways, NEW ex \in Sides, NEW k \in 1 .. Rounds,
           NEW to \in Stages, advance(r, kind, ex, k, to)
    PROVE  /\ stage' \in [Ranks -> [Ways -> [Sides -> [1 .. Rounds -> Stages]]]]
           /\ \A q \in Ranks, kd \in Ways, e \in Sides, j \in 1 .. Rounds :
                 stage'[q][kd][e][j] = IF q = r /\ kd = kind /\ e = ex /\ j = k THEN to ELSE stage[q][kd][e][j]
<1>1. stage \in [Ranks -> [Ways -> [Sides -> [1 .. Rounds -> Stages]]]]
  BY DEF TypeInv
<1>2. stage' = [stage EXCEPT ![r][kind][ex][k] = to]
  BY DEF advance
<1>3. stage[r][kind][ex] \in [1 .. Rounds -> Stages]
  BY <1>1
<1>4. /\ stage'[r][kind][ex] = [stage[r][kind][ex] EXCEPT ![k] = to]
      /\ \A e \in Sides : e # ex => stage'[r][kind][e] = stage[r][kind][e]
      /\ \A kd \in Ways : kd # kind => stage'[r][kd] = stage[r][kd]
      /\ \A q \in Ranks : q # r => stage'[q] = stage[q]
  BY <1>1, <1>2
<1>5. \A j \in 1 .. Rounds : stage'[r][kind][ex][j] = IF j = k THEN to ELSE stage[r][kind][ex][j]
  BY <1>3, <1>4
<1>6. stage' \in [Ranks -> [Ways -> [Sides -> [1 .. Rounds -> Stages]]]]
  BY <1>1, <1>2
<1>7. ASSUME NEW q \in Ranks, NEW kd \in Ways, NEW e \in Sides, NEW j \in 1 .. Rounds
      PROVE  stage'[q][kd][e][j] = IF q = r /\ kd = kind /\ e = ex /\ j = k THEN to ELSE stage[q][kd][e][j]
  <2>1. CASE q # r
    BY <1>4, <2>1
  <2>2. CASE q = r /\ kd # kind
    BY <1>4, <2>2
  <2>3. CASE q = r /\ kd = kind /\ e # ex
    BY <1>4, <2>3
  <2>4. CASE q = r /\ kd = kind /\ e = ex
    BY <1>5, <2>4
  <2> QED
    BY <2>1, <2>2, <2>3, <2>4
<1> QED
  BY <1>6, <1>7

\* What an assignment to one buffer changes.
LEMMA BufferUpdate ==
    ASSUME NEW f \in [Ranks -> [Ways -> [Sides -> Nat]]], NEW g,
           NEW r \in Ranks, NEW kind \in Ways, NEW ex \in Sides, NEW v \in Nat,
           g = [f EXCEPT ![r][kind][ex] = v]
    PROVE  /\ g \in [Ranks -> [Ways -> [Sides -> Nat]]]
           /\ g[r][kind][ex] = v
           /\ \A q \in Ranks, kd \in Ways, e \in Sides : q # r \/ kd # kind \/ e # ex => g[q][kd][e] = f[q][kd][e]
<1>1. g \in [Ranks -> [Ways -> [Sides -> Nat]]] /\ g[r][kind][ex] = v
  OBVIOUS
<1>2. /\ \A e \in Sides : e # ex => g[r][kind][e] = f[r][kind][e]
      /\ \A kd \in Ways : kd # kind => g[r][kd] = f[r][kd]
      /\ \A q \in Ranks : q # r => g[q] = f[q]
  OBVIOUS
<1> QED
  BY <1>1, <1>2

\* The rounds keep their order when the one whose turn it is advances.
LEMMA AdvanceRounds ==
    ASSUME TypeInv, RoundInv, Fixed, NEW r \in Ranks, NEW kind \in Ways, NEW ex, NEW k,
           Turn(r, kind, ex, k), NEW to \in Stages \ Waiting, advance(r, kind, ex, k, to),
           spawned' = spawned, computed' = computed, \A q \in Ranks : field'[q].border = field[q].border
    PROVE  RoundInv'
<1>1. /\ Ranks' = Ranks /\ \A q, kd : active(q, kd)' = active(q, kd)
  BY SamePlaces
<1>2. ex \in active(r, kind) /\ ex \in Sides /\ k \in 1 .. Rounds
  BY DEF Turn
<1>3. \A q \in Ranks, kd \in Ways, e \in Sides, j \in 1 .. Rounds :
         stage'[q][kd][e][j] = IF q = r /\ kd = kind /\ e = ex /\ j = k THEN to ELSE stage[q][kd][e][j]
  BY <1>2, AdvanceFacts
<1>4. ASSUME NEW q \in Ranks, NEW kd \in Ways, NEW e \in Sides
      PROVE  IF e \in active(q, kd) THEN RoundsOf(q, kd, e)'
             ELSE \A j \in 1 .. Rounds : stage'[q][kd][e][j] = "idle"
  <2>1. IF e \in active(q, kd) THEN RoundsOf(q, kd, e)
        ELSE \A j \in 1 .. Rounds : stage[q][kd][e][j] = "idle"
    BY DEF RoundInv
  <2>2. CASE ~(q = r /\ kd = kind /\ e = ex)
    <3>1. \A j \in 1 .. Rounds : stage'[q][kd][e][j] = stage[q][kd][e][j]
      BY <1>3, <2>2
    <3> QED
      BY <2>1, <3>1 DEF RoundsOf, Fixed
  <2>3. CASE q = r /\ kd = kind /\ e = ex
    <3>1. RoundsOf(r, kind, ex)
      BY <1>2, <2>1, <2>3
    <3>2. \A j \in 1 .. Rounds : stage'[r][kind][ex][j] = IF j = k THEN to ELSE stage[r][kind][ex][j]
      BY <1>2, <1>3
    <3>3. ASSUME NEW j \in 1 .. Rounds
          PROVE  /\ stage'[r][kind][ex][j] = "idle" <=> j > spawned[r]
                 /\ stage'[r][kind][ex][j] \notin Waiting =>
                       /\ \A i \in 1 .. Rounds : i < j => stage'[r][kind][ex][i] = "done"
                       /\ mode.chained => computed[r] >= j
                 /\ mode.chained /\ j < computed[r] => stage'[r][kind][ex][j] = "done"
      <4>1. CASE j = k
        <5>1. stage'[r][kind][ex][j] = to /\ to # "idle"
          BY <3>2, <4>1 DEF Waiting
        <5>2. ~(j > spawned[r])
          BY <3>1, <4>1 DEF RoundsOf, Turn
        <5>3. \A i \in 1 .. Rounds : i < j => stage'[r][kind][ex][i] = "done"
          BY <3>2, <4>1 DEF Turn
        <5>4. mode.chained => computed[r] = j
          BY <4>1 DEF Turn
        <5> QED
          BY <5>1, <5>2, <5>3, <5>4
      <4>2. CASE j # k
        <5>1. stage'[r][kind][ex][j] = stage[r][kind][ex][j]
          BY <3>2, <4>2
        <5>2. stage[r][kind][ex][j] \notin Waiting => ~(j > k)
          BY DEF Turn
        <5>3. stage[r][kind][ex][j] \notin Waiting => \A i \in 1 .. Rounds : i < j => i # k
          BY <1>2, <5>2
        <5>4. /\ stage[r][kind][ex][j] = "idle" <=> j > spawned[r]
              /\ stage[r][kind][ex][j] \notin Waiting =>
                    /\ \A i \in 1 .. Rounds : i < j => stage[r][kind][ex][i] = "done"
                    /\ mode.chained => computed[r] >= j
              /\ mode.chained /\ j < computed[r] => stage[r][kind][ex][j] = "done"
          BY <3>1 DEF RoundsOf
        <5> QED
          BY <3>2, <5>1, <5>3, <5>4
      <4> QED
        BY <4>1, <4>2
    <3> QED
      BY <1>2, <2>3, <3>3 DEF RoundsOf, Fixed
  <2> QED
    BY <2>2, <2>3
<1>5. \A q \in Ranks : computed'[q] <= spawned'[q] /\ (mode'.chained => field'[q].border = computed'[q])
  BY DEF RoundInv, Fixed
<1> QED
  BY <1>1, <1>4, <1>5 DEF RoundInv

-----------------------------------------------------------------------------
(* Sends.                                                                  *)

\* A step of a send: its buffers hold the round, nothing else changes but the wire.
SendStep(r, ex, k, to) ==
    /\ Turn(r, "send", ex, k) /\ advance(r, "send", ex, k, to) /\ to \in {"packed", "posted", "done"}
    /\ Fixed /\ phase' = phase /\ spawned' = spawned /\ computed' = computed /\ field' = field /\ held' = held
    /\ device' \in [Ranks -> [Ways -> [Sides -> Nat]]] /\ staging' \in [Ranks -> [Ways -> [Sides -> Nat]]]
    /\ \A q \in Ranks, kd \in Ways, e \in Sides :
          q # r \/ kd # "send" \/ e # ex =>
              device'[q][kd][e] = device[q][kd][e] /\ staging'[q][kd][e] = staging[q][kd][e]
    /\ to = "packed" => mode.additive
    /\ mode.additive /\ to \in {"packed", "posted"} => device'[r]["send"][ex] = k
    /\ staged /\ to = "posted" => staging'[r]["send"][ex] = k

\* Such a step keeps all invariants but that of the lanes.
LEMMA SendKeeps ==
    ASSUME Inv, phase = "run", NEW r \in Ranks, NEW ex \in Sides, NEW k \in 1 .. Rounds, NEW to,
           SendStep(r, ex, k, to)
    PROVE  TypeInv' /\ GridInv' /\ QuietInv' /\ RoundInv' /\ BufferInv' /\ GuardInv' /\ SumInv'
<1>1. TypeInv /\ GridInv /\ RoundInv /\ BufferInv /\ GuardInv /\ SumInv
  BY DEF Inv, RunInv
<1>2. /\ Fixed /\ phase' = phase /\ spawned' = spawned /\ computed' = computed /\ field' = field /\ held' = held
      /\ device' \in [Ranks -> [Ways -> [Sides -> Nat]]] /\ staging' \in [Ranks -> [Ways -> [Sides -> Nat]]]
      /\ Turn(r, "send", ex, k) /\ advance(r, "send", ex, k, to) /\ to \in {"packed", "posted", "done"}
  BY DEF SendStep
<1>3. /\ Ranks' = Ranks /\ \A q, kind : active(q, kind)' = active(q, kind)
      /\ staged' <=> staged
  BY <1>2, SamePlaces
<1>4. "send" \in Ways /\ "receive" \in Ways /\ to \in Stages /\ to \in Stages \ Waiting
  BY <1>2 DEF Ways, Stages, SendStages, Waiting
<1>5. /\ stage' \in [Ranks -> [Ways -> [Sides -> [1 .. Rounds -> Stages]]]]
      /\ \A q \in Ranks, kd \in Ways, e \in Sides, j \in 1 .. Rounds :
            stage'[q][kd][e][j] = IF q = r /\ kd = "send" /\ e = ex /\ j = k THEN to ELSE stage[q][kd][e][j]
  BY <1>1, <1>2, <1>4, AdvanceFacts
<1>6. TypeInv'
  BY <1>1, <1>2, <1>3, <1>5 DEF TypeInv, Fixed
<1>7. GridInv' /\ QuietInv'
  BY <1>1, <1>2 DEF GridInv, QuietInv, Fixed
<1>8. RoundInv'
  BY <1>1, <1>2, <1>4, AdvanceRounds
<1>9. \A q \in Ranks : \A e \in Sides, j \in 1 .. Rounds : stage'[q]["receive"][e][j] = stage[q]["receive"][e][j]
  BY <1>4, <1>5
<1>10. BufferInv'
  <2>1. ASSUME NEW q \in Ranks, NEW e \in active(q, "send") PROVE SendBuffers(q, e)'
    <3>1. SendBuffers(q, e) /\ e \in Sides
      BY <1>1, <1>4, ActiveSides DEF BufferInv
    <3>2. CASE q # r \/ e # ex
      <4>1. device'[q]["send"][e] = device[q]["send"][e] /\ staging'[q]["send"][e] = staging[q]["send"][e]
        BY <1>4, <3>1, <3>2 DEF SendStep
      <4>2. \A j \in 1 .. Rounds : stage'[q]["send"][e][j] = stage[q]["send"][e][j]
        BY <1>4, <1>5, <3>1, <3>2
      <4> QED
        BY <1>2, <1>3, <3>1, <4>1, <4>2 DEF SendBuffers, Fixed
    <3>3. CASE q = r /\ e = ex
      <4>1. \A j \in 1 .. Rounds : stage'[r]["send"][ex][j] = IF j = k THEN to ELSE stage[r]["send"][ex][j]
        BY <1>4, <1>5
      <4>2. \A j \in 1 .. Rounds : j # k => stage[r]["send"][ex][j] \in {"idle", "spawned", "done"}
        <5> TAKE j \in 1 .. Rounds
        <5>1. j # k => j < k \/ j > k
          OBVIOUS
        <5> QED
          BY <1>2, <5>1 DEF Turn, Waiting
      <4>3. ASSUME NEW j \in 1 .. Rounds
            PROVE  /\ stage'[r]["send"][ex][j] \in IF mode.additive THEN SendStages ELSE SendStages \ {"packed"}
                   /\ mode.additive /\ stage'[r]["send"][ex][j] \in {"packed", "posted"} => device'[r]["send"][ex] = j
                   /\ staged /\ stage'[r]["send"][ex][j] = "posted" => staging'[r]["send"][ex] = j
        <5>1. CASE j = k
          <6>1. stage'[r]["send"][ex][j] = to
            BY <4>1, <5>1
          <6>2. to \in IF mode.additive THEN SendStages ELSE SendStages \ {"packed"}
            BY <1>2 DEF SendStep, SendStages
          <6> QED
            BY <5>1, <6>1, <6>2 DEF SendStep
        <5>2. CASE j # k
          <6>1. stage'[r]["send"][ex][j] \in {"idle", "spawned", "done"}
            BY <4>1, <4>2, <5>2
          <6> QED
            BY <6>1 DEF SendStages
        <5> QED
          BY <5>1, <5>2
      <4> QED
        BY <1>2, <1>3, <3>3, <4>3 DEF SendBuffers, Fixed
    <3> QED
      BY <3>2, <3>3
  <2>2. ASSUME NEW q \in Ranks, NEW e \in active(q, "receive") PROVE ReceiveBuffers(q, e)'
    <3>1. ReceiveBuffers(q, e) /\ e \in Sides
      BY <1>1, <1>4, ActiveSides DEF BufferInv
    <3>2. device'[q]["receive"][e] = device[q]["receive"][e] /\ staging'[q]["receive"][e] = staging[q]["receive"][e]
      BY <1>4, <3>1 DEF SendStep
    <3>3. \A j \in 1 .. Rounds : stage'[q]["receive"][e][j] = stage[q]["receive"][e][j]
      BY <1>9, <3>1
    <3> QED
      BY <1>2, <1>3, <3>1, <3>2, <3>3 DEF ReceiveBuffers, Fixed
  <2> QED
    BY <1>3, <2>1, <2>2 DEF BufferInv
<1>11. GuardInv'
  BY <1>1, <1>2, <1>9, GuardsKept, SMTT(30)
<1>12. SumInv'
  <2>1. computed \in [Ranks -> 0 .. Rounds]
    BY <1>1 DEF TypeInv
  <2> QED
    BY <1>1, <1>2, <1>9, <2>1, SumsKept
<1> QED
  BY <1>6, <1>7, <1>8, <1>10, <1>11, <1>12

\* And the lanes, unless the send completes.
LEMMA SendKeepsLanes ==
    ASSUME Inv, phase = "run", NEW r \in Ranks, NEW ex \in Sides, NEW k \in 1 .. Rounds, NEW to,
           SendStep(r, ex, k, to), to # "done", wire' = wire
    PROVE  Inv'
<1>1. TypeInv /\ GridInv /\ LaneInv /\ Fixed /\ phase' = "run"
  BY DEF Inv, RunInv, SendStep
<1>2. "send" \in Ways /\ "receive" \in Ways /\ to \in Stages
  BY DEF SendStep, Ways, Stages, SendStages
<1>3. \A q \in Ranks, kd \in Ways, e \in Sides, j \in 1 .. Rounds :
         stage'[q][kd][e][j] = IF q = r /\ kd = "send" /\ e = ex /\ j = k THEN to ELSE stage[q][kd][e][j]
  <2>1. advance(r, "send", ex, k, to)
    BY DEF SendStep
  <2> QED
    BY <1>1, <1>2, <2>1, AdvanceFacts
<1>4. stage[r]["send"][ex][k] # "done"
  BY DEF SendStep, Turn
<1>5. \A q \in Ranks : \A e \in Sides, j \in 1 .. Rounds :
         /\ stage'[q]["send"][e][j] = "done" <=> stage[q]["send"][e][j] = "done"
         /\ stage'[q]["receive"][e][j] \in Come <=> stage[q]["receive"][e][j] \in Come
  BY <1>2, <1>3, <1>4
<1>6. LaneInv'
  BY <1>1, <1>5, LanesKept
<1> QED
  BY <1>6, SendKeeps DEF Inv, RunInv

\* What a kernel has written to the border before round k is called k.
LEMMA WrittenRound ==
    ASSUME TypeInv, RoundInv, NEW r \in Ranks, NEW kind \in Ways, NEW ex, NEW k, Turn(r, kind, ex, k)
    PROVE  written(r, k) = k /\ k \in Nat
<1>1. mode.chained => field[r].border = computed[r]
  BY DEF RoundInv
<1> QED
  BY <1>1 DEF Turn, written

\* CopyGuardToExchange fills the exchange's device buffer.
LEMMA PacksSend ==
    ASSUME Inv, phase = "run", NEW r \in Ranks, NEW ex \in Sides, NEW k \in 1 .. Rounds, packSend(r, ex, k)
    PROVE  Inv'
<1>1. TypeInv /\ RoundInv /\ "send" \in Ways
  BY DEF Inv, RunInv, Ways
<1>2. stage[r]["send"][ex][k] = "spawned" /\ mode.additive /\ finished(r, "send", ex, k - 1) /\ previous(r, k)
  BY DEF packSend, sendReady
<1>3. Turn(r, "send", ex, k)
  BY <1>1, <1>2, HasTurn
<1>4. written(r, k) = k /\ k \in Nat
  BY <1>1, <1>3, WrittenRound
<1>5. /\ Fixed /\ phase' = phase /\ spawned' = spawned /\ computed' = computed /\ field' = field /\ held' = held
      /\ staging' = staging /\ wire' = wire /\ advance(r, "send", ex, k, "packed")
  BY DEF packSend, Fixed
<1>6. device' = [device EXCEPT ![r]["send"][ex] = k]
  BY <1>4 DEF packSend
<1>7. device \in [Ranks -> [Ways -> [Sides -> Nat]]] /\ staging \in [Ranks -> [Ways -> [Sides -> Nat]]]
  BY <1>1 DEF TypeInv
<1>8. /\ device' \in [Ranks -> [Ways -> [Sides -> Nat]]]
      /\ device'[r]["send"][ex] = k
      /\ \A q \in Ranks, kd \in Ways, e \in Sides :
            q # r \/ kd # "send" \/ e # ex => device'[q][kd][e] = device[q][kd][e]
  BY <1>1, <1>4, <1>6, <1>7, BufferUpdate
<1>9. SendStep(r, ex, k, "packed")
  BY <1>2, <1>3, <1>5, <1>7, <1>8 DEF SendStep
<1> QED
  BY <1>5, <1>9, SendKeepsLanes

\* The copy to the staging buffer and the post of the send.
LEMMA PostsSend ==
    ASSUME Inv, phase = "run", NEW r \in Ranks, NEW ex \in Sides, NEW k \in 1 .. Rounds, postSend(r, ex, k)
    PROVE  Inv'
<1>1. TypeInv /\ RoundInv /\ BufferInv /\ "send" \in Ways
  BY DEF Inv, RunInv, Ways
<1>2. Turn(r, "send", ex, k)
  <2>1. CASE mode.additive
    <3>1. stage[r]["send"][ex][k] = "packed"
      BY <2>1 DEF postSend
    <3> QED
      BY <1>1, <3>1, HasTurn DEF Waiting
  <2>2. CASE ~mode.additive
    <3>1. stage[r]["send"][ex][k] = "spawned" /\ finished(r, "send", ex, k - 1) /\ previous(r, k)
      BY <2>2 DEF postSend, sendReady
    <3> QED
      BY <1>1, <3>1, HasTurn
  <2> QED
    BY <2>1, <2>2
<1>3. written(r, k) = k /\ k \in Nat
  BY <1>1, <1>2, WrittenRound
<1>4. /\ Fixed /\ phase' = phase /\ spawned' = spawned /\ computed' = computed /\ field' = field /\ held' = held
      /\ device' = device /\ wire' = wire /\ advance(r, "send", ex, k, "posted")
  BY DEF postSend, Fixed
<1>5. mode.additive => device[r]["send"][ex] = k
  <2> HAVE mode.additive
  <2>1. stage[r]["send"][ex][k] = "packed" /\ SendBuffers(r, ex)
    BY <1>1, <1>2 DEF postSend, BufferInv, Turn
  <2> QED
    BY <2>1 DEF SendBuffers
<1>6. \/ ~staged /\ staging' = staging
      \/ staging' = [staging EXCEPT ![r]["send"][ex] = k]
  BY <1>3, <1>5 DEF postSend
<1>7. device \in [Ranks -> [Ways -> [Sides -> Nat]]] /\ staging \in [Ranks -> [Ways -> [Sides -> Nat]]]
  BY <1>1 DEF TypeInv
<1>8. /\ staging' \in [Ranks -> [Ways -> [Sides -> Nat]]]
      /\ staged => staging'[r]["send"][ex] = k
      /\ \A q \in Ranks, kd \in Ways, e \in Sides :
            q # r \/ kd # "send" \/ e # ex => staging'[q][kd][e] = staging[q][kd][e]
  <2>1. CASE ~staged /\ staging' = staging
    BY <1>7, <2>1
  <2>2. CASE staging' = [staging EXCEPT ![r]["send"][ex] = k]
    BY <1>1, <1>3, <1>7, <2>2, BufferUpdate
  <2> QED
    BY <1>6, <2>1, <2>2
<1>9. SendStep(r, ex, k, "posted")
  BY <1>2, <1>4, <1>5, <1>7, <1>8 DEF SendStep
<1> QED
  BY <1>4, <1>9, SendKeepsLanes

\* MPI has read the buffer: the round is the next one of its lane.
LEMMA Departs ==
    ASSUME Inv, phase = "run", NEW r \in Ranks, NEW ex \in Sides, NEW k \in 1 .. Rounds, depart(r, ex, k)
    PROVE  Inv'
<1>1. TypeInv /\ GridInv /\ RoundInv /\ BufferInv /\ LaneInv /\ "send" \in Ways /\ "receive" \in Ways
  BY DEF Inv, RunInv, Ways
<1>2. stage[r]["send"][ex][k] = "posted"
  BY DEF depart
<1>3. Turn(r, "send", ex, k)
  BY <1>1, <1>2, HasTurn DEF Waiting
<1>4. written(r, k) = k /\ k \in Nat
  BY <1>1, <1>3, WrittenRound
<1>5. /\ Fixed /\ phase' = phase /\ spawned' = spawned /\ computed' = computed /\ field' = field /\ held' = held
      /\ device' = device /\ staging' = staging /\ advance(r, "send", ex, k, "done")
  BY DEF depart, Fixed
<1>6. device \in [Ranks -> [Ways -> [Sides -> Nat]]] /\ staging \in [Ranks -> [Ways -> [Sides -> Nat]]]
  BY <1>1 DEF TypeInv
<1>7. SendStep(r, ex, k, "done")
  BY <1>3, <1>5, <1>6 DEF SendStep
<1>8. TypeInv' /\ GridInv' /\ QuietInv' /\ RoundInv' /\ BufferInv' /\ GuardInv' /\ SumInv'
  BY <1>7, SendKeeps
<1> DEFINE s    == link[r][ex]
           back == getMirroredExchangeType(ex)
           to   == lane(r, "send", ex)
           content == CASE staged -> staging[r]["send"][ex] [] ~staged /\ mode.additive -> device[r]["send"][ex]
                        [] OTHER -> written(r, k)
<1>9. content = k
  <2>1. ex \in active(r, "send")
    BY <1>3 DEF Turn
  <2>2. SendBuffers(r, ex)
    BY <1>1, <2>1 DEF BufferInv
  <2>3. staged => staging[r]["send"][ex] = k
    BY <1>2, <2>2 DEF SendBuffers
  <2>4. mode.additive => device[r]["send"][ex] = k
    BY <1>2, <2>2 DEF SendBuffers
  <2>5. staged \in BOOLEAN /\ mode.additive \in BOOLEAN
    BY <1>1, SetupFacts DEF staged
  <2> QED
    BY <1>4, <2>3, <2>4, <2>5
<1>10. wire' = IF to \in DOMAIN wire THEN [wire EXCEPT ![to] = Append(@, content)]
               ELSE [x \in DOMAIN wire \cup {to} |-> IF x = to THEN <<content>> ELSE wire[x]]
  BY DEF depart
<1>11. /\ s \in Ranks /\ back \in active(s, "receive") /\ getMirroredExchangeType(back) = ex
       /\ link[s][back] = r /\ lane(s, "receive", back) = to /\ ex \in active(r, "send") /\ back \in Sides
  BY <1>1, <1>3, SendEnds, SidesMirrored DEF Turn
<1> HIDE DEF s, back, to, content
<1>12. /\ \A x : x # to => messages(wire', x) = messages(wire, x)
       /\ messages(wire', to) = Append(messages(wire, to), k)
  <2>1. CASE to \in DOMAIN wire
    BY <1>9, <1>10, <2>1 DEF messages
  <2>2. CASE to \notin DOMAIN wire
    <3>1. messages(wire, to) = <<>> /\ messages(wire', to) = <<k>>
      BY <1>9, <1>10, <2>2 DEF messages
    <3>2. Append(<<>>, k) = <<k>>
      OBVIOUS
    <3>3. \A x : x # to => messages(wire', x) = messages(wire, x)
      BY <1>10, <2>2 DEF messages
    <3> QED
      BY <3>1, <3>2, <3>3
  <2> QED
    BY <2>1, <2>2
<1>13. \A q \in Ranks, kd \in Ways, e \in Sides, j \in 1 .. Rounds :
          stage'[q][kd][e][j] = IF q = r /\ kd = "send" /\ e = ex /\ j = k THEN "done" ELSE stage[q][kd][e][j]
  <2>1. "done" \in Stages
    BY DEF Stages, SendStages
  <2> QED
    BY <1>1, <1>5, <2>1, AdvanceFacts
<1>14. LaneInv'
  <2>1. /\ Ranks' = Ranks /\ \A q, kind : active(q, kind)' = active(q, kind)
        /\ \A q, kind, e : lane(q, kind, e)' = lane(q, kind, e)
    BY <1>5, SamePlaces
  <2>2. SUFFICES ASSUME NEW q \in Ranks, NEW e \in active(q, "receive")
                 PROVE  \E a, d \in 0 .. Rounds : a <= d /\ LaneOf(q, e, a, d)'
    BY <2>1 DEF LaneInv
  <2>3. PICK a \in 0 .. Rounds, d \in 0 .. Rounds : a <= d /\ LaneOf(q, e, a, d)
    BY <1>1 DEF LaneInv
  <2> DEFINE from  == link[q][e]
             there == getMirroredExchangeType(e)
             under == messages(wire, lane(q, "receive", e))
             later == messages(wire', lane(q, "receive", e))
  <2>4. /\ \A j \in 1 .. Rounds : stage[from]["send"][there][j] = "done" <=> j <= d
        /\ \A j \in 1 .. Rounds : stage[q]["receive"][e][j] \in Come <=> j <= a
        /\ under \in Seq(Nat) /\ Len(under) = d - a
        /\ \A i \in 1 .. Len(under) : under[i] = a + i
    BY <2>3 DEF LaneOf
  <2>5. /\ e \in Sides /\ from \in Ranks /\ there \in Sides /\ link[from][there] = q
        /\ getMirroredExchangeType(there) = e
    BY <1>1, ReceiveEnds, SidesMirrored
  <2> HIDE DEF from, there, under, later
  <2>6. \A j \in 1 .. Rounds : stage'[q]["receive"][e][j] \in Come <=> j <= a
    <3>1. \A j \in 1 .. Rounds : stage'[q]["receive"][e][j] = stage[q]["receive"][e][j]
      BY <1>1, <1>13, <2>5
    <3> QED
      BY <2>4, <3>1
  <2>7. ASSUME NEW b \in 0 .. Rounds,
               \A j \in 1 .. Rounds : stage'[from]["send"][there][j] = "done" <=> j <= b,
               later \in Seq(Nat), Len(later) = b - a, \A i \in 1 .. Len(later) : later[i] = a + i
        PROVE  LaneOf(q, e, a, b)'
    <3>1. link'[q][e] = from
      BY <1>5 DEF Fixed, from
    <3>2. messages(wire, lane(q, "receive", e))' = later
      BY <2>1 DEF later
    <3> QED
      BY <2>6, <2>7, <3>1, <3>2 DEF LaneOf, there
  <2>8. CASE q = s /\ e = back
    <3>1. from = r /\ there = ex /\ under = messages(wire, to) /\ later = Append(under, k)
      BY <1>11, <1>12, <2>8 DEF from, there, under, later
    <3>2. d = k - 1
      <4>1. ~(k <= d)
        BY <1>2, <2>4, <3>1
      <4>2. k # 1 => k - 1 <= d
        <5> HAVE k # 1
        <5>1. k - 1 \in 1 .. Rounds /\ k - 1 < k
          BY FieldConstants
        <5>2. stage[r]["send"][ex][k - 1] = "done"
          BY <1>3, <5>1 DEF Turn
        <5> QED
          BY <2>4, <3>1, <5>1, <5>2
      <4> QED
        BY <4>1, <4>2
    <3>3. \A j \in 1 .. Rounds : stage'[from]["send"][there][j] = "done" <=> j <= k
      <4> TAKE j \in 1 .. Rounds
      <4>1. stage'[r]["send"][ex][j] = IF j = k THEN "done" ELSE stage[r]["send"][ex][j]
        BY <1>1, <1>13
      <4>2. j # k => (stage[r]["send"][ex][j] = "done" <=> j <= k)
        BY <2>4, <3>1, <3>2
      <4> QED
        BY <3>1, <4>1, <4>2
    <3>4. /\ later \in Seq(Nat) /\ Len(later) = Len(under) + 1
          /\ \A i \in 1 .. Len(under) : later[i] = under[i]
          /\ later[Len(under) + 1] = k
      BY <1>4, <2>4, <3>1, AppendProperties
    <3>5. Len(later) = k - a /\ Len(under) = k - 1 - a
      BY <2>4, <3>2, <3>4
    <3>6. \A i \in 1 .. Len(later) : later[i] = a + i
      <4> TAKE i \in 1 .. Len(later)
      <4>1. i \in 1 .. Len(under) \/ i = Len(under) + 1
        BY <3>5
      <4>2. CASE i \in 1 .. Len(under)
        BY <2>4, <3>4, <4>2
      <4>3. CASE i = Len(under) + 1
        <5>1. later[i] = k
          BY <3>4, <4>3
        <5>2. a + i = k
          BY <3>5, <4>3
        <5> QED
          BY <5>1, <5>2
      <4> QED
        BY <4>1, <4>2, <4>3
    <3>7. k \in 0 .. Rounds /\ a <= k
      BY <2>3, <3>2
    <3> QED
      BY <2>7, <3>3, <3>4, <3>5, <3>6, <3>7
  <2>9. CASE ~(q = s /\ e = back)
    <3>1. lane(q, "receive", e) # to
      BY <1>1, <1>11, <2>9, LanesDiffer
    <3>2. later = under
      BY <1>12, <3>1 DEF later, under
    <3>3. ~(from = r /\ there = ex)
      BY <2>5, <2>9 DEF s, back
    <3>4. \A j \in 1 .. Rounds : stage'[from]["send"][there][j] = "done" <=> j <= d
      <4>1. \A j \in 1 .. Rounds : stage'[from]["send"][there][j] = stage[from]["send"][there][j]
        BY <1>1, <1>13, <2>5, <3>3
      <4> QED
        BY <2>4, <4>1
    <3>5. LaneOf(q, e, a, d)'
      BY <2>4, <2>7, <3>2, <3>4
    <3> QED
      BY <2>3, <3>5
  <2> QED
    BY <2>8, <2>9
<1> QED
  BY <1>5, <1>8, <1>14 DEF Inv, RunInv

-----------------------------------------------------------------------------
(* Receives.                                                               *)

\* A step of a receive: its buffers hold the round; the guard, the sum and what is held of
\* it change as the step says.
ReceiveStep(r, ex, k, to) ==
    /\ Turn(r, "receive", ex, k) /\ advance(r, "receive", ex, k, to)
    /\ to \in {"posted", "arrived", "unpacked", "adding", "done"}
    /\ Fixed /\ phase' = phase /\ spawned' = spawned /\ computed' = computed
    /\ field' \in [Ranks -> [border : Nat, guard : [Sides -> Nat], sum : SUBSET (Sides \X Nat)]]
    /\ held' \in [Ranks -> [Sides -> SUBSET (Sides \X Nat)]]
    /\ \A q \in Ranks : field'[q].border = field[q].border
    /\ device' \in [Ranks -> [Ways -> [Sides -> Nat]]] /\ staging' \in [Ranks -> [Ways -> [Sides -> Nat]]]
    /\ \A q \in Ranks, kd \in Ways, e \in Sides :
          q # r \/ kd # "receive" \/ e # ex =>
              device'[q][kd][e] = device[q][kd][e] /\ staging'[q][kd][e] = staging[q][kd][e]
    /\ to \in {"unpacked", "adding"} => mode.additive
    /\ staged /\ to = "arrived" => staging'[r]["receive"][ex] = k
    /\ mode.additive /\ to \in {"unpacked", "adding"} \cup (IF staged THEN {} ELSE {"arrived"}) =>
          device'[r]["receive"][ex] = k

\* Such a step keeps the types, the order of the rounds and what the buffers hold.
LEMMA ReceiveKeeps ==
    ASSUME Inv, phase = "run", NEW r \in Ranks, NEW ex \in Sides, NEW k \in 1 .. Rounds, NEW to,
           ReceiveStep(r, ex, k, to)
    PROVE  /\ TypeInv' /\ GridInv' /\ QuietInv' /\ RoundInv' /\ BufferInv'
           /\ \A q \in Ranks, kd \in Ways, e \in Sides, j \in 1 .. Rounds :
                 stage'[q][kd][e][j] = IF q = r /\ kd = "receive" /\ e = ex /\ j = k THEN to ELSE stage[q][kd][e][j]
<1>1. TypeInv /\ GridInv /\ RoundInv /\ BufferInv
  BY DEF Inv, RunInv
<1>2. /\ Fixed /\ phase' = phase /\ spawned' = spawned /\ computed' = computed
      /\ field' \in [Ranks -> [border : Nat, guard : [Sides -> Nat], sum : SUBSET (Sides \X Nat)]]
      /\ held' \in [Ranks -> [Sides -> SUBSET (Sides \X Nat)]]
      /\ \A q \in Ranks : field'[q].border = field[q].border
      /\ device' \in [Ranks -> [Ways -> [Sides -> Nat]]] /\ staging' \in [Ranks -> [Ways -> [Sides -> Nat]]]
      /\ Turn(r, "receive", ex, k) /\ advance(r, "receive", ex, k, to)
      /\ to \in {"posted", "arrived", "unpacked", "adding", "done"}
  BY DEF ReceiveStep
<1>3. /\ Ranks' = Ranks /\ \A q, kind : active(q, kind)' = active(q, kind)
      /\ staged' <=> staged
  BY <1>2, SamePlaces
<1>4. "send" \in Ways /\ "receive" \in Ways /\ to \in Stages /\ to \in Stages \ Waiting
  BY <1>2 DEF Ways, Stages, ReceiveStages, Waiting
<1>5. /\ stage' \in [Ranks -> [Ways -> [Sides -> [1 .. Rounds -> Stages]]]]
      /\ \A q \in Ranks, kd \in Ways, e \in Sides, j \in 1 .. Rounds :
            stage'[q][kd][e][j] = IF q = r /\ kd = "receive" /\ e = ex /\ j = k THEN to ELSE stage[q][kd][e][j]
  BY <1>1, <1>2, <1>4, AdvanceFacts, SMTT(30)
<1>6. TypeInv'
  BY <1>1, <1>2, <1>3, <1>5 DEF TypeInv, Fixed
<1>7. GridInv' /\ QuietInv'
  BY <1>1, <1>2 DEF GridInv, QuietInv, Fixed
<1>8. RoundInv'
  BY <1>1, <1>2, <1>4, AdvanceRounds
<1>9. BufferInv'
  <2>1. ASSUME NEW q \in Ranks, NEW e \in active(q, "receive") PROVE ReceiveBuffers(q, e)'
    <3>1. ReceiveBuffers(q, e) /\ e \in Sides
      BY <1>1, <1>4, ActiveSides DEF BufferInv
    <3>2. CASE q # r \/ e # ex
      <4>1. device'[q]["receive"][e] = device[q]["receive"][e] /\ staging'[q]["receive"][e] = staging[q]["receive"][e]
        BY <1>4, <3>1, <3>2 DEF ReceiveStep
      <4>2. \A j \in 1 .. Rounds : stage'[q]["receive"][e][j] = stage[q]["receive"][e][j]
        BY <1>4, <1>5, <3>1, <3>2
      <4> QED
        BY <1>2, <1>3, <3>1, <4>1, <4>2 DEF ReceiveBuffers, Fixed
    <3>3. CASE q = r /\ e = ex
      <4>1. \A j \in 1 .. Rounds : stage'[r]["receive"][ex][j] = IF j = k THEN to ELSE stage[r]["receive"][ex][j]
        BY <1>4, <1>5
      <4>2. \A j \in 1 .. Rounds : j # k => stage[r]["receive"][ex][j] \in {"idle", "spawned", "done"}
        <5> TAKE j \in 1 .. Rounds
        <5>1. j # k => j < k \/ j > k
          OBVIOUS
        <5> QED
          BY <1>2, <5>1 DEF Turn, Waiting
      <4>3. ASSUME NEW j \in 1 .. Rounds
            PROVE  /\ stage'[r]["receive"][ex][j] \in
                         IF mode.additive THEN ReceiveStages ELSE ReceiveStages \ {"unpacked", "adding"}
                   /\ staged /\ stage'[r]["receive"][ex][j] = "arrived" => staging'[r]["receive"][ex] = j
                   /\ /\ mode.additive
                      /\ stage'[r]["receive"][ex][j] \in {"unpacked", "adding"} \cup IF staged THEN {} ELSE {"arrived"}
                      => device'[r]["receive"][ex] = j
        <5>1. CASE j = k
          <6>1. stage'[r]["receive"][ex][j] = to
            BY <4>1, <5>1
          <6>2. to \in IF mode.additive THEN ReceiveStages ELSE ReceiveStages \ {"unpacked", "adding"}
            BY <1>2 DEF ReceiveStep, ReceiveStages
          <6> QED
            BY <5>1, <6>1, <6>2 DEF ReceiveStep
        <5>2. CASE j # k
          <6>1. stage'[r]["receive"][ex][j] \in {"idle", "spawned", "done"}
            BY <4>1, <4>2, <5>2
          <6> QED
            BY <6>1 DEF ReceiveStages
        <5> QED
          BY <5>1, <5>2
      <4> QED
        BY <1>2, <1>3, <3>3, <4>3 DEF ReceiveBuffers, Fixed
    <3> QED
      BY <3>2, <3>3
  <2>2. ASSUME NEW q \in Ranks, NEW e \in active(q, "send") PROVE SendBuffers(q, e)'
    <3>1. SendBuffers(q, e) /\ e \in Sides
      BY <1>1, <1>4, ActiveSides DEF BufferInv
    <3>2. device'[q]["send"][e] = device[q]["send"][e] /\ staging'[q]["send"][e] = staging[q]["send"][e]
      BY <1>4, <3>1 DEF ReceiveStep
    <3>3. \A j \in 1 .. Rounds : stage'[q]["send"][e][j] = stage[q]["send"][e][j]
      BY <1>4, <1>5, <3>1
    <3> QED
      BY <1>2, <1>3, <3>1, <3>2, <3>3 DEF SendBuffers, Fixed
  <2> QED
    BY <1>3, <2>1, <2>2 DEF BufferInv
<1> QED
  BY <1>5, <1>6, <1>7, <1>8, <1>9

\* The lanes are kept unless a message comes.
LEMMA ReceiveKeepsLanes ==
    ASSUME Inv, phase = "run", NEW r \in Ranks, NEW ex \in Sides, NEW k \in 1 .. Rounds, NEW to,
           ReceiveStep(r, ex, k, to), wire' = wire, to \in Come <=> stage[r]["receive"][ex][k] \in Come
    PROVE  LaneInv'
<1>1. TypeInv /\ GridInv /\ LaneInv /\ Fixed /\ "send" \in Ways /\ "receive" \in Ways
  BY DEF Inv, RunInv, ReceiveStep, Ways
<1>2. \A q \in Ranks, kd \in Ways, e \in Sides, j \in 1 .. Rounds :
         stage'[q][kd][e][j] = IF q = r /\ kd = "receive" /\ e = ex /\ j = k THEN to ELSE stage[q][kd][e][j]
  BY ReceiveKeeps
<1>3. \A q \in Ranks : \A e \in Sides, j \in 1 .. Rounds :
         /\ stage'[q]["send"][e][j] = "done" <=> stage[q]["send"][e][j] = "done"
         /\ stage'[q]["receive"][e][j] \in Come <=> stage[q]["receive"][e][j] \in Come
  BY <1>1, <1>2
<1> QED
  BY <1>1, <1>3, LanesKept

\* The fields of the ranks.
Fields == [Ranks -> [border : Nat, guard : [Sides -> Nat], sum : SUBSET (Sides \X Nat)]]

\* The fields after an assignment to the guard of a direction.
WithGuard(f, r, ex, v) == [f EXCEPT ![r].guard[ex] = v]

\* What this changes.
LEMMA GuardUpdate ==
    ASSUME NEW f \in Fields,
           NEW r \in Ranks, NEW ex \in Sides, NEW v \in Nat
    PROVE  /\ WithGuard(f, r, ex, v) \in Fields
           /\ WithGuard(f, r, ex, v)[r].guard[ex] = v
           /\ \A q \in Ranks, e \in Sides : q # r \/ e # ex => WithGuard(f, r, ex, v)[q].guard[e] = f[q].guard[e]
           /\ \A q \in Ranks : WithGuard(f, r, ex, v)[q].border = f[q].border /\ WithGuard(f, r, ex, v)[q].sum = f[q].sum
<1> DEFINE g == WithGuard(f, r, ex, v)
<1>1. f[r] \in [border : Nat, guard : [Sides -> Nat], sum : SUBSET (Sides \X Nat)] /\ f[r].guard \in [Sides -> Nat]
  BY DEF Fields
<1>2. g[r] = [f[r] EXCEPT !.guard[ex] = v] /\ \A q \in Ranks : q # r => g[q] = f[q]
  BY DEF WithGuard, Fields
<1>3. g[r].border = f[r].border /\ g[r].sum = f[r].sum /\ g[r].guard = [f[r].guard EXCEPT ![ex] = v]
  BY <1>1, <1>2
<1>4. g[r] \in [border : Nat, guard : [Sides -> Nat], sum : SUBSET (Sides \X Nat)]
  BY <1>1, <1>2
<1>5. g \in Fields
  BY <1>2, <1>4 DEF WithGuard, Fields
<1>6. g[r].guard[ex] = v /\ \A e \in Sides : e # ex => g[r].guard[e] = f[r].guard[e]
  BY <1>1, <1>3
<1> QED
  BY <1>2, <1>3, <1>5, <1>6

\* What an assignment to the sum changes of the fields.
LEMMA SumUpdate ==
    ASSUME NEW f \in Fields, NEW g,
           NEW r \in Ranks, NEW v \in SUBSET (Sides \X Nat), g = [f EXCEPT ![r].sum = v]
    PROVE  /\ g \in Fields
           /\ g[r].sum = v
           /\ \A q \in Ranks : q # r => g[q].sum = f[q].sum
           /\ \A q \in Ranks : g[q].border = f[q].border /\ g[q].guard = f[q].guard
<1>1. f[r] \in [border : Nat, guard : [Sides -> Nat], sum : SUBSET (Sides \X Nat)]
  BY DEF Fields
<1>2. g[r] = [f[r] EXCEPT !.sum = v] /\ \A q \in Ranks : q # r => g[q] = f[q]
  BY DEF Fields
<1>3. g[r].border = f[r].border /\ g[r].guard = f[r].guard /\ g[r].sum = v
  BY <1>1, <1>2
<1>4. g[r] \in [border : Nat, guard : [Sides -> Nat], sum : SUBSET (Sides \X Nat)]
  BY <1>1, <1>2
<1>5. g \in Fields
  BY <1>2, <1>4 DEF Fields
<1> QED
  BY <1>2, <1>3, <1>5

\* What a receive stores, in the guard or in the device buffer of the exchange.
LEMMA Stores ==
    ASSUME TypeInv, NEW r \in Ranks, NEW ex \in Sides, NEW k \in Nat, stored(r, ex, k)
    PROVE  /\ field' \in Fields
           /\ \A q \in Ranks : field'[q].border = field[q].border /\ field'[q].sum = field[q].sum
           /\ device' \in [Ranks -> [Ways -> [Sides -> Nat]]]
           /\ \A q \in Ranks, kd \in Ways, e \in Sides :
                 q # r \/ kd # "receive" \/ e # ex => device'[q][kd][e] = device[q][kd][e]
           /\ mode.additive => device'[r]["receive"][ex] = k
           /\ ~mode.additive =>
                 /\ field'[r].guard[ex] = k
                 /\ \A q \in Ranks, e \in Sides : q # r \/ e # ex => field'[q].guard[e] = field[q].guard[e]
<1>1. /\ field \in Fields
      /\ device \in [Ranks -> [Ways -> [Sides -> Nat]]] /\ "receive" \in Ways
  BY DEF TypeInv, Ways, Fields
<1>2. CASE mode.additive
  <2>1. device' = [device EXCEPT ![r]["receive"][ex] = k] /\ field' = field
    BY <1>2 DEF stored
  <2>2. /\ device' \in [Ranks -> [Ways -> [Sides -> Nat]]]
        /\ device'[r]["receive"][ex] = k
        /\ \A q \in Ranks, kd \in Ways, e \in Sides :
              q # r \/ kd # "receive" \/ e # ex => device'[q][kd][e] = device[q][kd][e]
    BY <1>1, <2>1, BufferUpdate
  <2>3. field' \in Fields
    BY <1>1, <2>1
  <2> QED
    BY <1>2, <2>1, <2>2, <2>3
<1>3. CASE ~mode.additive
  <2>1. field' = WithGuard(field, r, ex, k) /\ device' = device
    BY <1>3 DEF stored, WithGuard
  <2>2. field' \in Fields
    BY <1>1, <2>1, GuardUpdate
  <2>3. device' \in [Ranks -> [Ways -> [Sides -> Nat]]]
    BY <1>1, <2>1
  <2>4. \A q \in Ranks, kd \in Ways, e \in Sides :
           q # r \/ kd # "receive" \/ e # ex => device'[q][kd][e] = device[q][kd][e]
    BY <2>1
  <2>5. field'[r].guard[ex] = k
    BY <1>1, <2>1, GuardUpdate
  <2>6. \A q \in Ranks, e \in Sides : q # r \/ e # ex => field'[q].guard[e] = field[q].guard[e]
    <3>1. \A q \in Ranks, e \in Sides :
             q # r \/ e # ex => WithGuard(field, r, ex, k)[q].guard[e] = field[q].guard[e]
      BY <1>1, GuardUpdate
    <3> QED
      BY <2>1, <3>1
  <2>7. \A q \in Ranks : field'[q].border = field[q].border /\ field'[q].sum = field[q].sum
    BY <1>1, <2>1, GuardUpdate
  <2> QED
    BY <1>3, <2>2, <2>3, <2>4, <2>5, <2>6, <2>7
<1> QED
  BY <1>2, <1>3

\* A round that reaches the guard is the last that has.
LEMMA GuardReached ==
    ASSUME Inv, phase = "run", NEW r \in Ranks, NEW ex \in Sides, NEW k \in 1 .. Rounds, NEW to,
           ReceiveStep(r, ex, k, to), to \in InGuard, field'[r].guard[ex] = k,
           \A q \in Ranks, e \in Sides : q # r \/ e # ex => field'[q].guard[e] = field[q].guard[e]
    PROVE  GuardInv'
<1>1. GuardInv /\ GridInv /\ Fixed /\ "receive" \in Ways /\ Turn(r, "receive", ex, k) /\ Rounds \in Nat
  BY FieldConstants DEF Inv, RunInv, ReceiveStep, Ways
<1>2. \A q \in Ranks, kd \in Ways, e \in Sides, j \in 1 .. Rounds :
         stage'[q][kd][e][j] = IF q = r /\ kd = "receive" /\ e = ex /\ j = k THEN to ELSE stage[q][kd][e][j]
  BY ReceiveKeeps
<1>3. Ranks' = Ranks /\ InGuard' = InGuard /\ \A q, kind : active(q, kind)' = active(q, kind)
  BY <1>1, SamePlaces
<1>4. SUFFICES ASSUME ~mode.additive, NEW q \in Ranks, NEW e \in active(q, "receive")
               PROVE  /\ field'[q].guard[e] \in 0 .. Rounds
                      /\ \A j \in 1 .. Rounds :
                            stage'[q]["receive"][e][j] \in InGuard <=> j <= field'[q].guard[e]
  BY <1>1, <1>3 DEF GuardInv, Fixed
<1>5. e \in Sides
  BY <1>1, ActiveSides
<1>6. CASE q # r \/ e # ex
  <2>1. field'[q].guard[e] = field[q].guard[e]
    BY <1>5, <1>6
  <2>2. \A j \in 1 .. Rounds : stage'[q]["receive"][e][j] = stage[q]["receive"][e][j]
    BY <1>1, <1>2, <1>5, <1>6
  <2> QED
    BY <1>1, <1>4, <2>1, <2>2 DEF GuardInv
<1>7. CASE q = r /\ e = ex
  <2> SUFFICES ASSUME NEW j \in 1 .. Rounds
               PROVE  stage'[r]["receive"][ex][j] \in InGuard <=> j <= k
    BY <1>1, <1>7
  <2>1. "done" \in InGuard /\ "idle" \notin InGuard /\ "spawned" \notin InGuard
    BY DEF InGuard
  <2>2. stage'[r]["receive"][ex][j] = IF j = k THEN to ELSE stage[r]["receive"][ex][j]
    BY <1>1, <1>2
  <2>3. CASE j = k
    BY <2>2, <2>3
  <2>4. CASE j < k
    <3>1. stage[r]["receive"][ex][j] = "done"
      BY <1>1, <2>4 DEF Turn
    <3> QED
      BY <2>1, <2>2, <2>4, <3>1
  <2>5. CASE j > k
    <3>1. stage[r]["receive"][ex][j] \in Waiting
      BY <1>1, <2>5 DEF Turn
    <3> QED
      BY <2>1, <2>2, <2>5, <3>1 DEF Waiting
  <2> QED
    BY <2>3, <2>4, <2>5
<1> QED
  BY <1>6, <1>7

\* The post of a receive: additive ones after the last direction before theirs.
LEMMA PostsReceive ==
    ASSUME Inv, phase = "run", NEW r \in Ranks, NEW ex \in Sides, NEW k \in 1 .. Rounds, postReceive(r, ex, k)
    PROVE  Inv'
<1> DEFINE before == {other \in active(r, "receive") : other < ex}
           last   == CHOOSE x \in before : \A other \in before : other <= x
<1>1. TypeInv /\ GridInv /\ RoundInv /\ BufferInv /\ GuardInv /\ LaneInv /\ SumInv /\ "receive" \in Ways
  BY DEF Inv, RunInv, Ways
<1>2. stage[r]["receive"][ex][k] = "spawned" /\ finished(r, "receive", ex, k - 1)
  BY DEF postReceive, receiveReady
<1>3. IF mode.additive /\ before # {} THEN finished(r, "receive", last, k) ELSE previous(r, k)
  BY DEF postReceive, receiveReady
<1>4. \A other \in active(r, "receive") : other \in Sides /\ other \in Directions3
  BY <1>1, ActiveSides, SidesMirrored
<1>5. before # {} => last \in before /\ \A other \in before : other <= last
  <2> HAVE before # {}
  <2>1. before \in SUBSET Directions3
    BY <1>4
  <2>2. \E x \in before : \A other \in before : other <= x
    <3> HIDE DEF before
    <3> QED
      BY <2>1, LastDirection
  <2> HIDE DEF before
  <2> QED
    BY <2>2
<1>6. mode.additive /\ before # {} => stage[r]["receive"][last][k] = "done" /\ last \in active(r, "receive")
  <2> HAVE mode.additive /\ before # {}
  <2>1. last \in before
    BY <1>5
  <2>2. finished(r, "receive", last, k) /\ k > 0
    BY <1>3
  <2> HIDE DEF last
  <2> QED
    BY <2>1, <2>2 DEF finished
<1> HIDE DEF last
<1>7. previous(r, k)
  <2>1. CASE mode.additive /\ before # {}
    <3>1. stage[r]["receive"][last][k] = "done" /\ last \in active(r, "receive")
      BY <1>6, <2>1
    <3>2. RoundsOf(r, "receive", last)
      BY <1>1, <1>4, <3>1 DEF RoundInv
    <3> QED
      BY <3>1, <3>2 DEF RoundsOf, Waiting, previous
  <2>2. CASE ~(mode.additive /\ before # {})
    BY <1>3, <2>2
  <2> QED
    BY <2>1, <2>2
<1>8. Turn(r, "receive", ex, k)
  BY <1>1, <1>2, <1>7, HasTurn
<1>9. /\ Fixed /\ phase' = phase /\ spawned' = spawned /\ computed' = computed /\ field' = field /\ held' = held
      /\ device' = device /\ staging' = staging /\ wire' = wire /\ advance(r, "receive", ex, k, "posted")
  BY DEF postReceive, Fixed
<1>10. /\ field \in [Ranks -> [border : Nat, guard : [Sides -> Nat], sum : SUBSET (Sides \X Nat)]]
       /\ held \in [Ranks -> [Sides -> SUBSET (Sides \X Nat)]] /\ computed \in [Ranks -> 0 .. Rounds]
       /\ device \in [Ranks -> [Ways -> [Sides -> Nat]]] /\ staging \in [Ranks -> [Ways -> [Sides -> Nat]]]
  BY <1>1 DEF TypeInv
<1>11. ReceiveStep(r, ex, k, "posted")
  BY <1>8, <1>9, <1>10 DEF ReceiveStep
<1>12. /\ TypeInv' /\ GridInv' /\ QuietInv' /\ RoundInv' /\ BufferInv'
       /\ \A q \in Ranks, kd \in Ways, e \in Sides, j \in 1 .. Rounds :
             stage'[q][kd][e][j] = IF q = r /\ kd = "receive" /\ e = ex /\ j = k THEN "posted"
                                   ELSE stage[q][kd][e][j]
  BY <1>11, ReceiveKeeps
<1>13. \A q \in Ranks : \A e \in Sides, j \in 1 .. Rounds :
          stage'[q]["receive"][e][j] = IF q = r /\ e = ex /\ j = k THEN "posted" ELSE stage[q]["receive"][e][j]
  BY <1>1, <1>12
<1>14. LaneInv'
  BY <1>2, <1>9, <1>11, ReceiveKeepsLanes DEF Come
<1>15. GuardInv'
  <2>1. "posted" \notin InGuard /\ "spawned" \notin InGuard
    BY DEF InGuard
  <2>2. \A q \in Ranks : \A e \in Sides, j \in 1 .. Rounds :
           stage'[q]["receive"][e][j] \in InGuard <=> stage[q]["receive"][e][j] \in InGuard
    BY <1>2, <1>13, <2>1
  <2> QED
    BY <1>1, <1>9, <2>2, GuardsKept
<1>16. SumInv'
  <2>1. ASSUME mode.additive, NEW q \in Ranks, NEW one \in active(q, "receive"), NEW two \in active(q, "receive"),
               NEW j \in 1 .. Rounds, one < two, stage'[q]["receive"][two][j] \notin Waiting
        PROVE  stage'[q]["receive"][one][j] = "done"
    <3>1. one \in Sides /\ two \in Sides /\ one \in Int /\ two \in Int
      <4>1. one \in Sides /\ two \in Sides
        BY <1>1, ActiveSides
      <4>2. one \in Directions3 /\ two \in Directions3
        BY <4>1, SidesMirrored
      <4> QED
        BY <4>1, <4>2 DEF Directions3
    <3>2. stage[q]["receive"][one][j] = "done"
      <4>1. CASE ~(q = r /\ two = ex /\ j = k)
        <5>1. stage[q]["receive"][two][j] \notin Waiting
          BY <1>13, <2>1, <3>1, <4>1
        <5> QED
          BY <1>1, <2>1, <5>1 DEF SumInv
      <4>2. CASE q = r /\ two = ex /\ j = k
        <5>1. one \in before
          BY <2>1, <4>2
        <5>2. stage[r]["receive"][last][k] = "done" /\ last \in active(r, "receive") /\ one <= last
          BY <1>5, <1>6, <2>1, <5>1
        <5>3. CASE one = last
          BY <4>2, <5>2, <5>3
        <5>4. CASE one < last
          <6>1. "done" \notin Waiting
            BY DEF Waiting
          <6> QED
            BY <1>1, <2>1, <4>2, <5>2, <5>4, <6>1 DEF SumInv
        <5>5. last \in Int
          BY <1>4, <5>2 DEF Directions3
        <5> QED
          BY <3>1, <5>2, <5>3, <5>4, <5>5
      <4> QED
        BY <4>1, <4>2
    <3>3. ~(q = r /\ one = ex /\ j = k)
      BY <1>2, <3>2
    <3> QED
      BY <1>13, <3>1, <3>2, <3>3
  <2>2. \A q \in Ranks : \A e \in Sides, j \in 1 .. Rounds :
           /\ stage'[q]["receive"][e][j] = "done" <=> stage[q]["receive"][e][j] = "done"
           /\ stage'[q]["receive"][e][j] = "adding" => stage[q]["receive"][e][j] = "adding"
    BY <1>2, <1>13
  <2>3. mode.additive => \A q \in Ranks : \A one, two \in active(q, "receive") : \A j \in 1 .. Rounds :
           one < two /\ stage'[q]["receive"][two][j] \notin Waiting => stage'[q]["receive"][one][j] = "done"
    BY <2>1
  <2> QED
    BY <1>1, <1>9, <1>10, <2>2, <2>3, AddsKept
<1> QED
  BY <1>9, <1>12, <1>14, <1>15, <1>16 DEF Inv, RunInv

\* A message comes: the first of its lane, which is this round.
LEMMA Arrives ==
    ASSUME Inv, phase = "run", NEW r \in Ranks, NEW ex \in Sides, NEW k \in 1 .. Rounds, arrive(r, ex, k)
    PROVE  Inv'
<1> DEFINE from  == lane(r, "receive", ex)
           under == messages(wire, from)
<1>1. /\ TypeInv /\ GridInv /\ RoundInv /\ BufferInv /\ GuardInv /\ LaneInv /\ SumInv
      /\ "receive" \in Ways /\ "send" \in Ways
  BY DEF Inv, RunInv, Ways
<1>2. stage[r]["receive"][ex][k] = "posted"
  BY DEF arrive
<1>3. Turn(r, "receive", ex, k) /\ ex \in active(r, "receive") /\ k \in Nat /\ Rounds \in Nat
  <2>1. Turn(r, "receive", ex, k)
    BY <1>1, <1>2, HasTurn DEF Waiting
  <2> QED
    BY <2>1, FieldConstants DEF Turn
<1>4. /\ Fixed /\ phase' = phase /\ spawned' = spawned /\ computed' = computed /\ held' = held
      /\ advance(r, "receive", ex, k, "arrived")
  BY DEF arrive, Fixed
<1>5. from \in DOMAIN wire /\ wire[from] # <<>> /\ wire' = [wire EXCEPT ![from] = Tail(@)]
  BY DEF arrive
<1>6. IF staged THEN staging' = [staging EXCEPT ![r]["receive"][ex] = Head(wire[from])] /\ field' = field /\ device' = device
      ELSE stored(r, ex, Head(wire[from])) /\ staging' = staging
  BY DEF arrive
<1>7. PICK a \in 0 .. Rounds, d \in 0 .. Rounds : a <= d /\ LaneOf(r, ex, a, d)
  BY <1>1, <1>3 DEF LaneInv
<1>8. under = wire[from]
  BY <1>5 DEF messages
<1> HIDE DEF from, under
<1>9. /\ \A j \in 1 .. Rounds : stage[link[r][ex]]["send"][getMirroredExchangeType(ex)][j] = "done" <=> j <= d
      /\ \A j \in 1 .. Rounds : stage[r]["receive"][ex][j] \in Come <=> j <= a
      /\ under \in Seq(Nat) /\ Len(under) = d - a
      /\ \A i \in 1 .. Len(under) : under[i] = a + i
  BY <1>7 DEF LaneOf, under, from
<1>10. a = k - 1
  <2>1. ~(k <= a)
    BY <1>2, <1>9 DEF Come
  <2>2. k # 1 => k - 1 <= a
    <3> HAVE k # 1
    <3>1. k - 1 \in 1 .. Rounds /\ k - 1 < k
      BY <1>3
    <3>2. stage[r]["receive"][ex][k - 1] = "done"
      BY <1>3, <3>1 DEF Turn
    <3> QED
      BY <1>9, <3>1, <3>2 DEF Come
  <2> QED
    BY <1>3, <2>1, <2>2
<1>11. /\ Head(under) = k /\ Tail(under) \in Seq(Nat) /\ Len(Tail(under)) = d - k /\ k <= d
       /\ \A i \in 1 .. Len(Tail(under)) : Tail(under)[i] = k + i
  <2>1. Len(under) > 0
    BY <1>5, <1>8, <1>9
  <2>2. Head(under) = under[1] /\ under[1] = a + 1
    BY <1>9, <2>1
  <2>3. /\ Tail(under) \in Seq(Nat) /\ Len(Tail(under)) = Len(under) - 1
        /\ \A i \in 1 .. Len(Tail(under)) : Tail(under)[i] = under[i + 1]
    BY <1>9, <2>1
  <2>4. Len(Tail(under)) = d - k /\ k <= d
    BY <1>9, <1>10, <2>1, <2>3
  <2>5. ASSUME NEW i \in 1 .. Len(Tail(under)) PROVE Tail(under)[i] = k + i
    <3>1. i + 1 \in 1 .. Len(under)
      BY <1>9, <2>3
    <3>2. under[i + 1] = a + (i + 1)
      BY <1>9, <3>1
    <3>3. Tail(under)[i] = under[i + 1]
      BY <2>3
    <3> QED
      BY <1>10, <3>2, <3>3
  <2> QED
    BY <1>10, <2>2, <2>3, <2>4, <2>5
<1>12. /\ field \in Fields /\ held \in [Ranks -> [Sides -> SUBSET (Sides \X Nat)]] /\ computed \in [Ranks -> 0 .. Rounds]
       /\ device \in [Ranks -> [Ways -> [Sides -> Nat]]] /\ staging \in [Ranks -> [Ways -> [Sides -> Nat]]]
  BY <1>1 DEF TypeInv, Fields
<1>13. /\ field' \in Fields /\ \A q \in Ranks : field'[q].border = field[q].border /\ field'[q].sum = field[q].sum
       /\ device' \in [Ranks -> [Ways -> [Sides -> Nat]]] /\ staging' \in [Ranks -> [Ways -> [Sides -> Nat]]]
       /\ \A q \in Ranks, kd \in Ways, e \in Sides :
             q # r \/ kd # "receive" \/ e # ex =>
                 device'[q][kd][e] = device[q][kd][e] /\ staging'[q][kd][e] = staging[q][kd][e]
       /\ staged => staging'[r]["receive"][ex] = k /\ field' = field
       /\ ~staged /\ mode.additive => device'[r]["receive"][ex] = k
       /\ ~staged /\ ~mode.additive =>
             /\ field'[r].guard[ex] = k
             /\ \A q \in Ranks, e \in Sides : q # r \/ e # ex => field'[q].guard[e] = field[q].guard[e]
  <2>1. CASE staged
    <3>1. staging' = [staging EXCEPT ![r]["receive"][ex] = k] /\ field' = field /\ device' = device
      BY <1>6, <1>8, <1>11, <2>1
    <3>2. /\ staging' \in [Ranks -> [Ways -> [Sides -> Nat]]]
          /\ staging'[r]["receive"][ex] = k
          /\ \A q \in Ranks, kd \in Ways, e \in Sides :
                q # r \/ kd # "receive" \/ e # ex => staging'[q][kd][e] = staging[q][kd][e]
      BY <1>1, <1>3, <1>12, <3>1, BufferUpdate
    <3> QED
      BY <1>12, <2>1, <3>1, <3>2
  <2>2. CASE ~staged
    <3>1. stored(r, ex, k) /\ staging' = staging
      BY <1>6, <1>8, <1>11, <2>2
    <3>2. /\ field' \in Fields /\ device' \in [Ranks -> [Ways -> [Sides -> Nat]]]
          /\ \A q \in Ranks : field'[q].border = field[q].border /\ field'[q].sum = field[q].sum
      BY <1>1, <1>3, <3>1, Stores
    <3>3. \A q \in Ranks, kd \in Ways, e \in Sides :
             q # r \/ kd # "receive" \/ e # ex => device'[q][kd][e] = device[q][kd][e]
      BY <1>1, <1>3, <3>1, Stores
    <3>4. /\ mode.additive => device'[r]["receive"][ex] = k
          /\ ~mode.additive => field'[r].guard[ex] = k
      BY <1>1, <1>3, <3>1, Stores
    <3>5. ~mode.additive =>
             \A q \in Ranks, e \in Sides : q # r \/ e # ex => field'[q].guard[e] = field[q].guard[e]
      BY <1>1, <1>3, <3>1, Stores
    <3> QED
      BY <1>12, <2>2, <3>1, <3>2, <3>3, <3>4, <3>5
  <2> QED
    BY <2>1, <2>2
<1>14. ReceiveStep(r, ex, k, "arrived")
  BY <1>3, <1>4, <1>12, <1>13 DEF ReceiveStep, Fields
<1>15. /\ TypeInv' /\ GridInv' /\ QuietInv' /\ RoundInv' /\ BufferInv'
       /\ \A q \in Ranks, kd \in Ways, e \in Sides, j \in 1 .. Rounds :
             stage'[q][kd][e][j] = IF q = r /\ kd = "receive" /\ e = ex /\ j = k THEN "arrived"
                                   ELSE stage[q][kd][e][j]
  BY <1>14, ReceiveKeeps
<1>16. \A q \in Ranks : \A e \in Sides, j \in 1 .. Rounds :
          /\ stage'[q]["receive"][e][j] = IF q = r /\ e = ex /\ j = k THEN "arrived" ELSE stage[q]["receive"][e][j]
          /\ stage'[q]["send"][e][j] = stage[q]["send"][e][j]
  BY <1>1, <1>15
<1>17. LaneInv'
  <2>1. /\ Ranks' = Ranks /\ \A q, kind : active(q, kind)' = active(q, kind)
        /\ \A q, kind, e : lane(q, kind, e)' = lane(q, kind, e)
    BY <1>4, SamePlaces
  <2>2. SUFFICES ASSUME NEW q \in Ranks, NEW e \in active(q, "receive")
                 PROVE  \E b, c \in 0 .. Rounds : b <= c /\ LaneOf(q, e, b, c)'
    BY <2>1 DEF LaneInv
  <2>3. e \in Sides /\ link[q][e] \in Ranks /\ getMirroredExchangeType(e) \in Sides /\ link'[q][e] = link[q][e]
    BY <1>1, <1>4, ReceiveEnds, SidesMirrored DEF Fixed
  <2>4. CASE q = r /\ e = ex
    <3>1. messages(wire, lane(r, "receive", ex))' = Tail(under)
      <4>1. messages(wire', from) = Tail(wire[from])
        BY <1>5 DEF messages
      <4> QED
        BY <1>8, <2>1, <4>1 DEF from
    <3>2. \A j \in 1 .. Rounds : stage'[r]["receive"][ex][j] \in Come <=> j <= k
      <4> TAKE j \in 1 .. Rounds
      <4>1. j # k => (stage[r]["receive"][ex][j] \in Come <=> j <= k)
        BY <1>3, <1>9, <1>10
      <4>2. stage'[r]["receive"][ex][j] = IF j = k THEN "arrived" ELSE stage[r]["receive"][ex][j]
        BY <1>16
      <4> QED
        BY <4>1, <4>2 DEF Come
    <3>3. \A j \in 1 .. Rounds : stage'[link[r][ex]]["send"][getMirroredExchangeType(ex)][j] = "done" <=> j <= d
      <4>1. link[r][ex] \in Ranks /\ getMirroredExchangeType(ex) \in Sides
        BY <2>3, <2>4
      <4>2. \A j \in 1 .. Rounds : stage'[link[r][ex]]["send"][getMirroredExchangeType(ex)][j]
                                   = stage[link[r][ex]]["send"][getMirroredExchangeType(ex)][j]
        BY <1>16, <4>1
      <4> QED
        BY <1>9, <4>2
    <3>4. LaneOf(r, ex, k, d)'
      BY <1>11, <2>3, <2>4, <3>1, <3>2, <3>3 DEF LaneOf
    <3> QED
      BY <1>11, <2>4, <3>4
  <2>5. CASE ~(q = r /\ e = ex)
    <3>1. PICK b \in 0 .. Rounds, c \in 0 .. Rounds : b <= c /\ LaneOf(q, e, b, c)
      BY <1>1 DEF LaneInv
    <3>2. lane(q, "receive", e) # from
      BY <1>1, <1>3, <2>5, LanesDiffer DEF from
    <3>3. messages(wire', lane(q, "receive", e)) = messages(wire, lane(q, "receive", e))
      <4> DEFINE x == lane(q, "receive", e)
      <4> HIDE DEF x
      <4>1. x # from => messages(wire', x) = messages(wire, x)
        BY <1>5 DEF messages
      <4> QED
        BY <3>2, <4>1 DEF x
    <3>4. messages(wire, lane(q, "receive", e))' = messages(wire, lane(q, "receive", e))
      BY <2>1, <3>3
    <3>5. \A j \in 1 .. Rounds :
             /\ stage'[q]["receive"][e][j] = stage[q]["receive"][e][j]
             /\ stage'[link[q][e]]["send"][getMirroredExchangeType(e)][j]
                   = stage[link[q][e]]["send"][getMirroredExchangeType(e)][j]
      BY <1>16, <2>3, <2>5
    <3>6. LaneOf(q, e, b, c)'
      BY <2>3, <3>1, <3>4, <3>5 DEF LaneOf
    <3> QED
      BY <3>1, <3>6
  <2> QED
    BY <2>4, <2>5
<1>18. GuardInv'
  <2>1. CASE mode.additive
    BY <1>4, <2>1 DEF GuardInv, Fixed
  <2>2. CASE ~mode.additive /\ ~staged
    <3>1. "arrived" \in InGuard
      BY <2>2 DEF InGuard
    <3> QED
      BY <1>13, <1>14, <2>2, <3>1, GuardReached
  <2>3. CASE staged
    <3>1. "posted" \notin InGuard /\ "arrived" \notin InGuard
      BY <2>3 DEF InGuard
    <3>2. \A q \in Ranks : \A e \in Sides, j \in 1 .. Rounds :
             stage'[q]["receive"][e][j] \in InGuard <=> stage[q]["receive"][e][j] \in InGuard
      BY <1>2, <1>16, <3>1
    <3> QED
      BY <1>1, <1>4, <1>13, <2>3, <3>2, GuardsKept
  <2> QED
    BY <2>1, <2>2, <2>3
<1>19. SumInv'
  <2>1. \A q \in Ranks : \A e \in Sides, j \in 1 .. Rounds :
           /\ stage[q]["receive"][e][j] \in Waiting => stage'[q]["receive"][e][j] \in Waiting
           /\ stage'[q]["receive"][e][j] = "done" <=> stage[q]["receive"][e][j] = "done"
           /\ stage'[q]["receive"][e][j] = "adding" => stage[q]["receive"][e][j] = "adding"
    BY <1>2, <1>16 DEF Waiting
  <2> QED
    BY <1>1, <1>4, <1>12, <1>13, <2>1, SumsKept
<1> QED
  BY <1>4, <1>15, <1>17, <1>18, <1>19 DEF Inv, RunInv

\* The copy from the staging buffer; a round that is not added is done with it.
LEMMA Unpacks ==
    ASSUME Inv, phase = "run", NEW r \in Ranks, NEW ex \in Sides, NEW k \in 1 .. Rounds, unpack(r, ex, k)
    PROVE  Inv'
<1> DEFINE to == IF mode.additive THEN "unpacked" ELSE "done"
<1>1. /\ TypeInv /\ GridInv /\ RoundInv /\ BufferInv /\ GuardInv /\ LaneInv /\ SumInv /\ "receive" \in Ways
  BY DEF Inv, RunInv, Ways
<1>2. stage[r]["receive"][ex][k] = "arrived"
  BY DEF unpack
<1>3. Turn(r, "receive", ex, k) /\ ex \in active(r, "receive") /\ k \in Nat
  <2>1. Turn(r, "receive", ex, k)
    BY <1>1, <1>2, HasTurn DEF Waiting
  <2> QED
    BY <2>1 DEF Turn
<1>4. /\ Fixed /\ phase' = phase /\ spawned' = spawned /\ computed' = computed /\ held' = held
      /\ staging' = staging /\ wire' = wire /\ advance(r, "receive", ex, k, to)
  BY DEF unpack, Fixed
<1>5. /\ staged => staging[r]["receive"][ex] = k
      /\ ~staged /\ mode.additive => device[r]["receive"][ex] = k
  <2>1. ReceiveBuffers(r, ex)
    BY <1>1, <1>3 DEF BufferInv
  <2>2. staged => staging[r]["receive"][ex] = k
    BY <1>2, <2>1 DEF ReceiveBuffers
  <2>3. ~staged /\ mode.additive => device[r]["receive"][ex] = k
    BY <1>2, <2>1 DEF ReceiveBuffers
  <2> QED
    BY <2>2, <2>3
<1>6. IF staged THEN stored(r, ex, k) ELSE field' = field /\ device' = device
  BY <1>5 DEF unpack
<1>7. /\ field \in Fields /\ held \in [Ranks -> [Sides -> SUBSET (Sides \X Nat)]] /\ computed \in [Ranks -> 0 .. Rounds]
      /\ device \in [Ranks -> [Ways -> [Sides -> Nat]]] /\ staging \in [Ranks -> [Ways -> [Sides -> Nat]]]
  BY <1>1 DEF TypeInv, Fields
<1> HIDE DEF to
<1>8. /\ field' \in Fields /\ \A q \in Ranks : field'[q].border = field[q].border /\ field'[q].sum = field[q].sum
      /\ device' \in [Ranks -> [Ways -> [Sides -> Nat]]]
      /\ \A q \in Ranks, kd \in Ways, e \in Sides :
            q # r \/ kd # "receive" \/ e # ex => device'[q][kd][e] = device[q][kd][e]
      /\ mode.additive => device'[r]["receive"][ex] = k
      /\ staged /\ ~mode.additive =>
            /\ field'[r].guard[ex] = k
            /\ \A q \in Ranks, e \in Sides : q # r \/ e # ex => field'[q].guard[e] = field[q].guard[e]
      /\ ~staged => field' = field
  <2>1. CASE ~staged
    BY <1>5, <1>6, <1>7, <2>1
  <2>2. CASE staged
    <3>1. stored(r, ex, k)
      BY <1>6, <2>2
    <3>2. /\ field' \in Fields /\ device' \in [Ranks -> [Ways -> [Sides -> Nat]]]
          /\ \A q \in Ranks : field'[q].border = field[q].border /\ field'[q].sum = field[q].sum
      BY <1>1, <1>3, <3>1, Stores
    <3>3. \A q \in Ranks, kd \in Ways, e \in Sides :
             q # r \/ kd # "receive" \/ e # ex => device'[q][kd][e] = device[q][kd][e]
      BY <1>1, <1>3, <3>1, Stores
    <3>4. /\ mode.additive => device'[r]["receive"][ex] = k
          /\ ~mode.additive => field'[r].guard[ex] = k
      BY <1>1, <1>3, <3>1, Stores
    <3>5. ~mode.additive =>
             \A q \in Ranks, e \in Sides : q # r \/ e # ex => field'[q].guard[e] = field[q].guard[e]
      BY <1>1, <1>3, <3>1, Stores
    <3> QED
      BY <2>2, <3>2, <3>3, <3>4, <3>5
  <2> QED
    BY <2>1, <2>2
<1>9. /\ to \in {"unpacked", "done"} /\ to \in {"posted", "arrived", "unpacked", "adding", "done"}
      /\ to \in {"unpacked", "adding"} => mode.additive /\ to # "arrived"
      /\ ~mode.additive => to = "done"
      /\ mode.additive => to = "unpacked"
  BY DEF to
<1>10. ReceiveStep(r, ex, k, to)
  BY <1>3, <1>4, <1>7, <1>8, <1>9 DEF ReceiveStep, Fields
<1>11. /\ TypeInv' /\ GridInv' /\ QuietInv' /\ RoundInv' /\ BufferInv'
       /\ \A q \in Ranks, kd \in Ways, e \in Sides, j \in 1 .. Rounds :
             stage'[q][kd][e][j] = IF q = r /\ kd = "receive" /\ e = ex /\ j = k THEN to ELSE stage[q][kd][e][j]
  BY <1>10, ReceiveKeeps
<1>12. \A q \in Ranks : \A e \in Sides, j \in 1 .. Rounds :
          stage'[q]["receive"][e][j] = IF q = r /\ e = ex /\ j = k THEN to ELSE stage[q]["receive"][e][j]
  BY <1>1, <1>11
<1>13. LaneInv'
  <2>1. to \in Come <=> stage[r]["receive"][ex][k] \in Come
    BY <1>2, <1>9 DEF Come
  <2> QED
    BY <1>4, <1>10, <2>1, ReceiveKeepsLanes
<1>14. GuardInv'
  <2>1. CASE mode.additive
    BY <1>4, <2>1 DEF GuardInv, Fixed
  <2>2. CASE ~mode.additive /\ staged
    <3>1. to \in InGuard
      BY <1>9, <2>2 DEF InGuard
    <3> QED
      BY <1>8, <1>10, <2>2, <3>1, GuardReached
  <2>3. CASE ~mode.additive /\ ~staged
    <3>1. to \in InGuard /\ "arrived" \in InGuard
      BY <1>9, <2>3 DEF InGuard
    <3>2. \A q \in Ranks : \A e \in Sides, j \in 1 .. Rounds :
             stage'[q]["receive"][e][j] \in InGuard <=> stage[q]["receive"][e][j] \in InGuard
      BY <1>2, <1>12, <3>1
    <3> QED
      BY <1>1, <1>4, <1>8, <2>3, <3>2, GuardsKept
  <2> QED
    BY <2>1, <2>2, <2>3
<1>15. SumInv'
  <2>1. CASE ~mode.additive
    BY <1>4, <2>1 DEF SumInv, Fixed
  <2>2. CASE mode.additive
    <3>1. \A q \in Ranks : \A e \in Sides, j \in 1 .. Rounds :
             /\ stage[q]["receive"][e][j] \in Waiting => stage'[q]["receive"][e][j] \in Waiting
             /\ stage'[q]["receive"][e][j] = "done" <=> stage[q]["receive"][e][j] = "done"
             /\ stage'[q]["receive"][e][j] = "adding" => stage[q]["receive"][e][j] = "adding"
      BY <1>2, <1>9, <1>12, <2>2 DEF Waiting
    <3> QED
      BY <1>1, <1>4, <1>7, <1>8, <3>1, SumsKept
  <2> QED
    BY <2>1, <2>2
<1> QED
  BY <1>4, <1>11, <1>13, <1>14, <1>15 DEF Inv, RunInv

\* The kernel that adds a round starts from the sum so far.
LEMMA BeginsAdd ==
    ASSUME Inv, phase = "run", NEW r \in Ranks, NEW ex \in Sides, NEW k \in 1 .. Rounds, beginAdd(r, ex, k)
    PROVE  Inv'
<1>1. /\ TypeInv /\ GridInv /\ RoundInv /\ BufferInv /\ GuardInv /\ LaneInv /\ SumInv /\ "receive" \in Ways
  BY DEF Inv, RunInv, Ways
<1>2. stage[r]["receive"][ex][k] = "unpacked"
  BY DEF beginAdd
<1>3. Turn(r, "receive", ex, k) /\ ex \in active(r, "receive")
  <2>1. Turn(r, "receive", ex, k)
    BY <1>1, <1>2, HasTurn DEF Waiting
  <2> QED
    BY <2>1 DEF Turn
<1>4. /\ Fixed /\ phase' = phase /\ spawned' = spawned /\ computed' = computed /\ field' = field /\ device' = device
      /\ staging' = staging /\ wire' = wire /\ advance(r, "receive", ex, k, "adding")
      /\ held' = [held EXCEPT ![r][ex] = field[r].sum]
  BY DEF beginAdd, Fixed
<1>5. mode.additive /\ device[r]["receive"][ex] = k
  <2>1. ReceiveBuffers(r, ex)
    BY <1>1, <1>3 DEF BufferInv
  <2>2. mode.additive
    BY <1>2, <2>1 DEF ReceiveBuffers
  <2> QED
    BY <1>2, <2>1, <2>2 DEF ReceiveBuffers
<1>6. /\ field \in Fields /\ held \in [Ranks -> [Sides -> SUBSET (Sides \X Nat)]] /\ computed \in [Ranks -> 0 .. Rounds]
      /\ device \in [Ranks -> [Ways -> [Sides -> Nat]]] /\ staging \in [Ranks -> [Ways -> [Sides -> Nat]]]
      /\ field[r].sum \in SUBSET (Sides \X Nat)
  BY <1>1 DEF TypeInv, Fields
<1>7. /\ held' \in [Ranks -> [Sides -> SUBSET (Sides \X Nat)]]
      /\ held'[r][ex] = field[r].sum
      /\ \A q \in Ranks, e \in Sides : q # r \/ e # ex => held'[q][e] = held[q][e]
  <2> DEFINE v == field[r].sum
  <2>1. v \in SUBSET (Sides \X Nat) /\ held' = [held EXCEPT ![r][ex] = v]
    BY <1>4, <1>6
  <2> HIDE DEF v
  <2>2. held' \in [Ranks -> [Sides -> SUBSET (Sides \X Nat)]] /\ held'[r][ex] = v
    BY <1>6, <2>1
  <2>3. /\ \A e \in Sides : e # ex => held'[r][e] = held[r][e]
        /\ \A q \in Ranks : q # r => held'[q] = held[q]
    BY <1>6, <2>1
  <2> QED
    BY <2>2, <2>3 DEF v
<1>8. ReceiveStep(r, ex, k, "adding")
  BY <1>3, <1>4, <1>5, <1>6, <1>7 DEF ReceiveStep, Fields
<1>9. /\ TypeInv' /\ GridInv' /\ QuietInv' /\ RoundInv' /\ BufferInv'
      /\ \A q \in Ranks, kd \in Ways, e \in Sides, j \in 1 .. Rounds :
            stage'[q][kd][e][j] = IF q = r /\ kd = "receive" /\ e = ex /\ j = k THEN "adding"
                                  ELSE stage[q][kd][e][j]
  BY <1>8, ReceiveKeeps
<1>10. \A q \in Ranks : \A e \in Sides, j \in 1 .. Rounds :
          stage'[q]["receive"][e][j] = IF q = r /\ e = ex /\ j = k THEN "adding" ELSE stage[q]["receive"][e][j]
  BY <1>1, <1>9
<1>11. LaneInv'
  BY <1>2, <1>4, <1>8, ReceiveKeepsLanes DEF Come
<1>12. GuardInv'
  BY <1>4, <1>5 DEF GuardInv, Fixed
<1>13. SumInv'
  <2>1. /\ Ranks' = Ranks /\ \A q, kind : active(q, kind)' = active(q, kind)
    BY <1>4, SamePlaces
  <2>2. SUFFICES ASSUME NEW q \in Ranks
                 PROVE  /\ \A one, two \in active(q, "receive") : \A j \in 1 .. Rounds :
                              one < two /\ stage'[q]["receive"][two][j] \notin Waiting =>
                                  stage'[q]["receive"][one][j] = "done"
                        /\ mode.chained =>
                              /\ \A e \in Sides, j \in Nat :
                                    <<e, j>> \in field[q].sum <=>
                                        /\ j = computed[q] /\ j > 0 /\ e \in active(q, "receive")
                                        /\ stage'[q]["receive"][e][j] = "done"
                              /\ \A e \in active(q, "receive") : \A j \in 1 .. Rounds :
                                    stage'[q]["receive"][e][j] = "adding" => held'[q][e] = field[q].sum
    BY <1>4, <2>1 DEF SumInv, Fixed
  <2>3. \A e \in active(q, "receive") : e \in Sides
    BY <1>1, ActiveSides
  <2>4. ASSUME NEW one \in active(q, "receive"), NEW two \in active(q, "receive"), NEW j \in 1 .. Rounds,
               one < two, stage'[q]["receive"][two][j] \notin Waiting
        PROVE  stage'[q]["receive"][one][j] = "done"
    <3>1. stage[q]["receive"][two][j] \notin Waiting
      BY <1>2, <1>10, <2>3, <2>4 DEF Waiting
    <3>2. stage[q]["receive"][one][j] = "done"
      BY <1>1, <1>5, <2>4, <3>1 DEF SumInv
    <3> QED
      BY <1>2, <1>10, <2>3, <3>2
  <2>5. ASSUME mode.chained, NEW e \in Sides, NEW j \in Nat
        PROVE  <<e, j>> \in field[q].sum <=>
                   /\ j = computed[q] /\ j > 0 /\ e \in active(q, "receive")
                   /\ stage'[q]["receive"][e][j] = "done"
    <3>1. j = computed[q] /\ j > 0 => j \in 1 .. Rounds
      BY <1>6, FieldConstants
    <3>2. j \in 1 .. Rounds => (stage'[q]["receive"][e][j] = "done" <=> stage[q]["receive"][e][j] = "done")
      BY <1>2, <1>10
    <3>3. <<e, j>> \in field[q].sum <=>
              /\ j = computed[q] /\ j > 0 /\ e \in active(q, "receive")
              /\ stage[q]["receive"][e][j] = "done"
      BY <1>1, <1>5, <2>5 DEF SumInv
    <3> QED
      BY <3>1, <3>2, <3>3
  <2>6. ASSUME mode.chained, NEW e \in active(q, "receive"), NEW j \in 1 .. Rounds,
               stage'[q]["receive"][e][j] = "adding"
        PROVE  held'[q][e] = field[q].sum
    <3>1. CASE q = r /\ e = ex
      BY <1>7, <3>1
    <3>2. CASE ~(q = r /\ e = ex)
      <4>1. stage[q]["receive"][e][j] = "adding" /\ held'[q][e] = held[q][e]
        BY <1>7, <1>10, <2>3, <2>6, <3>2
      <4> QED
        BY <1>1, <1>5, <2>6, <4>1 DEF SumInv
    <3> QED
      BY <3>1, <3>2
  <2> QED
    BY <2>4, <2>5, <2>6
<1> QED
  BY <1>4, <1>9, <1>11, <1>12, <1>13 DEF Inv, RunInv

\* The kernel writes back what it has read with this round added; no other has added meanwhile.
LEMMA EndsAdd ==
    ASSUME Inv, phase = "run", NEW r \in Ranks, NEW ex \in Sides, NEW k \in 1 .. Rounds, endAdd(r, ex, k)
    PROVE  Inv'
<1>1. /\ TypeInv /\ GridInv /\ RoundInv /\ BufferInv /\ GuardInv /\ LaneInv /\ SumInv /\ "receive" \in Ways
  BY DEF Inv, RunInv, Ways
<1>2. stage[r]["receive"][ex][k] = "adding"
  BY DEF endAdd
<1>3. Turn(r, "receive", ex, k) /\ ex \in active(r, "receive") /\ k \in Nat /\ k > 0
  <2>1. Turn(r, "receive", ex, k)
    BY <1>1, <1>2, HasTurn DEF Waiting
  <2> QED
    BY <2>1 DEF Turn
<1>4. mode.additive /\ device[r]["receive"][ex] = k
  <2>1. ReceiveBuffers(r, ex)
    BY <1>1, <1>3 DEF BufferInv
  <2>2. mode.additive
    BY <1>2, <2>1 DEF ReceiveBuffers
  <2> QED
    BY <1>2, <2>1, <2>2 DEF ReceiveBuffers
<1> DEFINE total == held[r][ex] \cup {<<ex, k>>}
<1>5. /\ Fixed /\ phase' = phase /\ spawned' = spawned /\ computed' = computed /\ device' = device
      /\ staging' = staging /\ wire' = wire /\ advance(r, "receive", ex, k, "done")
      /\ held' = [held EXCEPT ![r][ex] = {}] /\ field' = [field EXCEPT ![r].sum = total]
  BY <1>4 DEF endAdd, Fixed
<1>6. /\ field \in Fields /\ held \in [Ranks -> [Sides -> SUBSET (Sides \X Nat)]] /\ computed \in [Ranks -> 0 .. Rounds]
      /\ device \in [Ranks -> [Ways -> [Sides -> Nat]]] /\ staging \in [Ranks -> [Ways -> [Sides -> Nat]]]
  BY <1>1 DEF TypeInv, Fields
<1>7. total \in SUBSET (Sides \X Nat)
  BY <1>3, <1>6
<1>8. /\ held' \in [Ranks -> [Sides -> SUBSET (Sides \X Nat)]]
      /\ \A q \in Ranks, e \in Sides : q # r \/ e # ex => held'[q][e] = held[q][e]
  <2>1. held' \in [Ranks -> [Sides -> SUBSET (Sides \X Nat)]]
    BY <1>5, <1>6
  <2>2. /\ \A e \in Sides : e # ex => held'[r][e] = held[r][e]
        /\ \A q \in Ranks : q # r => held'[q] = held[q]
    BY <1>5, <1>6
  <2> QED
    BY <2>1, <2>2
<1> HIDE DEF total
<1>9. /\ field' \in Fields /\ field'[r].sum = total
      /\ \A q \in Ranks : q # r => field'[q].sum = field[q].sum
      /\ \A q \in Ranks : field'[q].border = field[q].border
  <2>1. field' \in Fields
    BY <1>5, <1>6, <1>7, SumUpdate
  <2>2. field'[r].sum = total
    <3>1. field[r] \in [border : Nat, guard : [Sides -> Nat], sum : SUBSET (Sides \X Nat)]
      BY <1>6 DEF Fields
    <3>2. field'[r] = [field[r] EXCEPT !.sum = total]
      BY <1>5, <1>6 DEF Fields
    <3> QED
      BY <3>1, <3>2
  <2>3. \A q \in Ranks : q # r => field'[q].sum = field[q].sum
    BY <1>5, <1>6, <1>7, SumUpdate
  <2>4. \A q \in Ranks : field'[q].border = field[q].border
    BY <1>5, <1>6, <1>7, SumUpdate
  <2> QED
    BY <2>1, <2>2, <2>3, <2>4
<1>10. ReceiveStep(r, ex, k, "done")
  BY <1>3, <1>5, <1>6, <1>8, <1>9 DEF ReceiveStep, Fields
<1>11. /\ TypeInv' /\ GridInv' /\ QuietInv' /\ RoundInv' /\ BufferInv'
       /\ \A q \in Ranks, kd \in Ways, e \in Sides, j \in 1 .. Rounds :
             stage'[q][kd][e][j] = IF q = r /\ kd = "receive" /\ e = ex /\ j = k THEN "done"
                                   ELSE stage[q][kd][e][j]
  BY <1>10, ReceiveKeeps
<1>12. \A q \in Ranks : \A e \in Sides, j \in 1 .. Rounds :
          stage'[q]["receive"][e][j] = IF q = r /\ e = ex /\ j = k THEN "done" ELSE stage[q]["receive"][e][j]
  BY <1>1, <1>11
<1>13. LaneInv'
  BY <1>2, <1>5, <1>10, ReceiveKeepsLanes DEF Come
<1>14. GuardInv'
  BY <1>4, <1>5 DEF GuardInv, Fixed
<1>15. SumInv'
  <2>1. /\ Ranks' = Ranks /\ \A q, kind : active(q, kind)' = active(q, kind)
    BY <1>5, SamePlaces
  <2>2. SUFFICES ASSUME NEW q \in Ranks
                 PROVE  /\ \A one, two \in active(q, "receive") : \A j \in 1 .. Rounds :
                              one < two /\ stage'[q]["receive"][two][j] \notin Waiting =>
                                  stage'[q]["receive"][one][j] = "done"
                        /\ mode.chained =>
                              /\ \A e \in Sides, j \in Nat :
                                    <<e, j>> \in field'[q].sum <=>
                                        /\ j = computed[q] /\ j > 0 /\ e \in active(q, "receive")
                                        /\ stage'[q]["receive"][e][j] = "done"
                              /\ \A e \in active(q, "receive") : \A j \in 1 .. Rounds :
                                    stage'[q]["receive"][e][j] = "adding" => held'[q][e] = field'[q].sum
    BY <1>5, <2>1 DEF SumInv, Fixed
  <2>3. ASSUME NEW e \in active(q, "receive") PROVE e \in Sides /\ e \in Int
    <3>1. e \in Sides
      BY <1>1, ActiveSides
    <3>2. e \in Directions3
      BY <3>1, SidesMirrored
    <3> QED
      BY <3>1, <3>2 DEF Directions3
  <2>4. ASSUME NEW one \in active(q, "receive"), NEW two \in active(q, "receive"), NEW j \in 1 .. Rounds,
               one < two, stage'[q]["receive"][two][j] \notin Waiting
        PROVE  stage'[q]["receive"][one][j] = "done"
    <3>1. stage[q]["receive"][two][j] \notin Waiting
      BY <1>2, <1>12, <2>3, <2>4 DEF Waiting
    <3>2. stage[q]["receive"][one][j] = "done"
      BY <1>1, <1>4, <2>4, <3>1 DEF SumInv
    <3> QED
      BY <1>12, <2>3, <3>2
  <2>5. ASSUME mode.chained, NEW e \in Sides, NEW j \in Nat
        PROVE  <<e, j>> \in field'[q].sum <=>
                   /\ j = computed[q] /\ j > 0 /\ e \in active(q, "receive")
                   /\ stage'[q]["receive"][e][j] = "done"
    <3>1. j = computed[q] /\ j > 0 => j \in 1 .. Rounds
      BY <1>6, FieldConstants
    <3>2. <<e, j>> \in field[q].sum <=>
              /\ j = computed[q] /\ j > 0 /\ e \in active(q, "receive")
              /\ stage[q]["receive"][e][j] = "done"
      BY <1>1, <1>4, <2>5 DEF SumInv
    <3>3. CASE q # r
      <4>1. j \in 1 .. Rounds => stage'[q]["receive"][e][j] = stage[q]["receive"][e][j]
        BY <1>12, <3>3
      <4>2. field'[q].sum = field[q].sum
        BY <1>9, <3>3
      <4> QED
        BY <3>1, <3>2, <4>1, <4>2
    <3>4. CASE q = r
      <4>1. held[r][ex] = field[r].sum
        BY <1>1, <1>2, <1>3, <1>4, <2>5 DEF SumInv
      <4>2. field'[r].sum = field[r].sum \cup {<<ex, k>>}
        BY <1>9, <4>1 DEF total
      <4>3. computed[r] = k
        BY <1>3, <2>5 DEF Turn
      <4>4. CASE e = ex /\ j = k
        <5>1. <<e, j>> \in field'[q].sum
          BY <3>4, <4>2, <4>4
        <5>2. stage'[q]["receive"][e][j] = "done"
          BY <1>12, <3>4, <4>4
        <5> QED
          BY <1>3, <3>4, <4>3, <4>4, <5>1, <5>2
      <4>5. CASE ~(e = ex /\ j = k)
        <5>1. <<e, j>> \in field'[q].sum <=> <<e, j>> \in field[q].sum
          BY <3>4, <4>2, <4>5
        <5>2. j \in 1 .. Rounds => stage'[q]["receive"][e][j] = stage[q]["receive"][e][j]
          BY <1>12, <3>4, <4>5
        <5> QED
          BY <3>1, <3>2, <5>1, <5>2
      <4> QED
        BY <4>4, <4>5
    <3> QED
      BY <3>3, <3>4
  <2>6. ASSUME mode.chained, NEW e \in active(q, "receive"), NEW j \in 1 .. Rounds,
               stage'[q]["receive"][e][j] = "adding"
        PROVE  held'[q][e] = field'[q].sum
    <3>1. CASE q # r
      <4>1. stage[q]["receive"][e][j] = "adding" /\ held'[q][e] = held[q][e] /\ field'[q].sum = field[q].sum
        BY <1>8, <1>9, <1>12, <2>3, <2>6, <3>1
      <4> QED
        BY <1>1, <1>4, <2>6, <4>1 DEF SumInv
    <3>2. CASE q = r /\ e = ex
      <4>1. j # k /\ stage[r]["receive"][ex][j] = "adding"
        BY <1>12, <2>6, <3>2
      <4>2. j < k \/ j > k
        BY <1>3, <4>1
      <4> QED
        BY <1>3, <4>1, <4>2 DEF Turn, Waiting
    <3>3. CASE q = r /\ e # ex
      <4>1. stage[r]["receive"][e][j] = "adding" /\ e \in Sides
        BY <1>12, <2>3, <2>6, <3>3
      <4>2. j = k
        <5>1. Turn(r, "receive", e, j)
          BY <1>1, <4>1, HasTurn DEF Waiting
        <5> QED
          BY <1>3, <2>6, <5>1 DEF Turn
      <4>3. e < ex \/ ex < e
        BY <1>3, <2>3, <3>3
      <4> QED
        BY <1>1, <1>2, <1>3, <1>4, <2>6, <3>3, <4>1, <4>2, <4>3 DEF SumInv, Waiting
    <3> QED
      BY <3>1, <3>2, <3>3
  <2> QED
    BY <2>4, <2>5, <2>6
<1> QED
  BY <1>5, <1>11, <1>13, <1>14, <1>15 DEF Inv, RunInv

-----------------------------------------------------------------------------
(* The theorems.                                                           *)

\* A rank steps only while the communications run.
LEMMA StepsWhileRunning ==
    ASSUME Inv, NEW r \in Ranks, rankStep(r)
    PROVE  phase = "run"
<1> SUFFICES ASSUME phase # "run" PROVE FALSE
  OBVIOUS
<1>1. /\ spawned[r] = 0 /\ computed[r] = 0
      /\ \A kind \in Ways, ex \in Sides, k \in 1 .. Rounds : stage[r][kind][ex][k] = "idle"
      /\ "send" \in Ways /\ "receive" \in Ways
  BY DEF Inv, QuietInv, Ways
<1>2. \A ex \in Sides, k \in 1 .. Rounds :
         stage[r]["send"][ex][k] = "idle" /\ stage[r]["receive"][ex][k] = "idle"
  BY <1>1
<1>3. ~spawnCommunication(r)
  BY DEF spawnCommunication
<1>4. ~compute(r)
  BY <1>1 DEF compute
<1>5. ASSUME NEW ex \in Sides, NEW k \in 1 .. Rounds PROVE ~sendStep(r, ex, k) /\ ~receiveStep(r, ex, k)
  <2>1. stage[r]["send"][ex][k] = "idle" /\ stage[r]["receive"][ex][k] = "idle"
    BY <1>2
  <2>2. ~sendStep(r, ex, k)
    BY <2>1 DEF sendStep, packSend, postSend, depart
  <2>3. ~receiveStep(r, ex, k)
    BY <2>1 DEF receiveStep, postReceive, arrive, unpack, beginAdd, endAdd
  <2> QED
    BY <2>2, <2>3
<1> QED
  BY <1>3, <1>4, <1>5 DEF rankStep

\* Every step keeps the invariant.
LEMMA Steps == Inv /\ [FieldNext]_exchanges => Inv'
<1> SUFFICES ASSUME Inv, [FieldNext]_exchanges PROVE Inv'
  OBVIOUS
<1>1. CASE UNCHANGED exchanges
  <2>1. /\ link' = link /\ mode' = mode /\ grids' = grids /\ phase' = phase /\ Fixed
        /\ UNCHANGED communication
        /\ spawned' = spawned /\ computed' = computed /\ stage' = stage /\ field' = field
        /\ device' = device /\ staging' = staging /\ held' = held /\ wire' = wire
    BY <1>1 DEF exchanges, communication, Fixed
  <2>2. TypeInv' /\ QuietInv'
    BY <2>1 DEF Inv, TypeInv, QuietInv, Ranks
  <2>3. GridInv'
    BY <2>1 DEF Inv, GridInv
  <2>4. RunInv'
    BY <2>1, StaysTheSame DEF Inv, RunInv
  <2> QED
    BY <2>2, <2>3, <2>4 DEF Inv
<1>2. CASE construct
  BY <1>2, AddsExchange DEF construct
<1>3. CASE Run
  BY <1>3, Runs
<1>4. ASSUME NEW r \in DOMAIN link, rankStep(r) PROVE Inv'
  <2>1. phase = "run" /\ r \in Ranks
    BY <1>4, StepsWhileRunning DEF Ranks
  <2>2. CASE spawnCommunication(r)
    BY <2>1, <2>2, Spawns
  <2>3. CASE compute(r)
    BY <2>1, <2>3, Computes
  <2>4. ASSUME NEW ex \in Sides, NEW k \in 1 .. Rounds, sendStep(r, ex, k) PROVE Inv'
    BY <2>1, <2>4, PacksSend, PostsSend, Departs DEF sendStep
  <2>5. ASSUME NEW ex \in Sides, NEW k \in 1 .. Rounds, receiveStep(r, ex, k) PROVE Inv'
    BY <2>1, <2>5, PostsReceive, Arrives, Unpacks, BeginsAdd, EndsAdd DEF receiveStep
  <2> QED
    BY <1>4, <2>2, <2>3, <2>4, <2>5 DEF rankStep
<1>5. CASE FieldOver
  BY <1>1, <1>5 DEF FieldOver
<1> QED
  BY <1>1, <1>2, <1>3, <1>4, <1>5 DEF FieldNext

\* The inductive invariant holds in every state of the exchanges.
THEOREM ExchangeInvariance == FieldSpec => []Inv
BY Initially, Steps, PTL DEF FieldSpec

\* The invariant implies that guards and sums are those of their round.
LEMMA InvHalo == Inv => HaloExact
<1> SUFFICES ASSUME Inv PROVE HaloExact
  OBVIOUS
<1>1. TypeInv /\ GridInv /\ Rounds \in Nat
  BY FieldConstants DEF Inv
<1>2. GuardsInStep
  <2> SUFFICES ASSUME phase = "run", ~mode.additive, NEW r \in DOMAIN link, NEW ex \in active(r, "receive")
               PROVE  field[r].guard[ex] =
                        Cardinality({k \in 1 .. Rounds : stage[r]["receive"][ex][k] \in
                                        IF staged THEN {"done"} ELSE {"arrived", "done"}})
    BY DEF GuardsInStep
  <2> DEFINE g == field[r].guard[ex]
             reached == {k \in 1 .. Rounds : stage[r]["receive"][ex][k] \in InGuard}
  <2>1. GuardInv /\ r \in Ranks /\ ex \in Sides
    BY <1>1, ActiveSides DEF Inv, RunInv, Ranks, Ways
  <2>2. g \in 0 .. Rounds /\ \A k \in 1 .. Rounds : stage[r]["receive"][ex][k] \in InGuard <=> k <= g
    BY <2>1 DEF GuardInv
  <2> HIDE DEF g
  <2>3. reached = 1 .. g
    BY <1>1, <2>2
  <2>4. Cardinality(1 .. g) = g
    BY <1>1, <2>2, FS_Interval
  <2> QED
    BY <2>3, <2>4 DEF g, InGuard
<1>3. SumsComplete
  <2> SUFFICES ASSUME mode.additive, mode.chained, NEW r \in DOMAIN link,
                      computed[r] > 0, eventReady(r, computed[r])
               PROVE  field[r].sum = {<<ex, computed[r]>> : ex \in active(r, "receive")}
    BY DEF SumsComplete
  <2>1. r \in Ranks /\ "receive" \in Ways
    BY DEF Ranks, Ways
  <2>2. computed[r] \in 0 .. Rounds /\ computed[r] \in Nat /\ field[r].sum \subseteq Sides \X Nat
    BY <1>1, <2>1 DEF TypeInv
  <2>3. phase = "run"
    BY <2>1, <2>2 DEF Inv, QuietInv
  <2>4. \A ex \in active(r, "receive") : ex \in Sides /\ stage[r]["receive"][ex][computed[r]] = "done"
    BY <1>1, <2>1, ActiveSides DEF eventReady, finished
  <2>5. \A ex \in Sides, k \in Nat :
           <<ex, k>> \in field[r].sum <=>
               /\ k = computed[r] /\ k > 0 /\ ex \in active(r, "receive")
               /\ stage[r]["receive"][ex][k] = "done"
    BY <2>1, <2>3 DEF Inv, RunInv, SumInv
  <2>6. ASSUME NEW x \in field[r].sum PROVE x \in {<<ex, computed[r]>> : ex \in active(r, "receive")}
    <3>1. PICK ex \in Sides, k \in Nat : x = <<ex, k>>
      BY <2>2
    <3> QED
      BY <2>5, <3>1
  <2>7. ASSUME NEW ex \in active(r, "receive") PROVE <<ex, computed[r]>> \in field[r].sum
    BY <2>2, <2>4, <2>5
  <2> QED
    BY <2>6, <2>7
<1>4. ExchangesPaired
  BY <1>1, PairedExchanges
<1> QED
  BY <1>2, <1>3, <1>4 DEF HaloExact

\* Whatever the topology, the exchanges and the order in which queues and MPI finish, a guard
\* holds what the neighbour had in its border in the same round, an additive border has every
\* contribution of its round once, and every exchange has its other end (spawnCommunication,
\* Exchange::send and Exchange::receive).
THEOREM HalosExact == FieldSpec => []HaloExact
BY ExchangeInvariance, InvHalo, PTL
=============================================================================
