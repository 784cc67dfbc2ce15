--------------------------- MODULE FieldExchange ----------------------------
(***************************************************************************)
(* A field's guard exchanged between the ranks: the exchanges of a         *)
(* GridBuffer and their tags, and the sends and receives two calls of      *)
(* spawnCommunication leave running, over the staging buffers of Exchange  *)
(* and MPI (memory/buffers/GridBuffer.hpp, memory/buffers/Exchange.hpp,    *)
(* fields/Communication.hpp).                                              *)
(*                                                                         *)
(* The content of a buffer is the round its sender wrote it in.  A kernel  *)
(* between two communications writes the field; it follows the event of    *)
(* the one and the other follows its event.                                *)
(***************************************************************************)
EXTENDS Mappings

CONSTANTS
    Setups,    \* <<by rank and direction, the neighbour (CommunicatorMPI::ranks),
               \*   how the field is exchanged: [additive, mpiDirect, doubleBuffer, chained]>>
    Rounds,    \* bound: calls of spawnCommunication
    Calls      \* <<buffer, receive mask, communication tag>> addExchange may be called with

\* Exchange types of up to three dimensions.
Directions3 == 1 .. 26

\* A rank's neighbour has it as the neighbour of the mirrored direction (CommunicatorMPI::ranks).
mutual(neighbours) ==
    \A r \in DOMAIN neighbours : \A ex \in DOMAIN neighbours[r] :
        LET other == neighbours[r][ex]
            back  == getMirroredExchangeType(ex)
        IN  /\ ex \in Directions3 /\ other \in DOMAIN neighbours
            /\ back \in DOMAIN neighbours[other] /\ neighbours[other][back] = r

ASSUME FieldConstants ==
    /\ Rounds \in Nat
    /\ \A x \in Calls : x[1] \in {"field", "other"} /\ x[2] \subseteq Directions3 /\ x[3] \in Nat
    /\ \A setup \in Setups :
          /\ mutual(setup[1])
          /\ setup[2] \in [additive : BOOLEAN, mpiDirect : BOOLEAN, doubleBuffer : BOOLEAN, chained : BOOLEAN]

VARIABLES
    link,      \* the topology
    mode,
    grids,     \* two GridBuffers, alike on every rank: tag, hasOneExchange, send and receive exchanges
    uniquTag,  \* UniquTag::tags
    phase,     \* "construct", "run" or "thrown"
    spawned,   \* by rank, the rounds spawned
    computed,  \* by rank, the kernels that have run
    stage,     \* by rank, kind, direction and round
    field,     \* by rank: border, guard by direction, sum of what was added to the border
    device,    \* by rank, kind and direction, the device buffer of an additive exchange
    staging,   \* by rank, kind and direction, the host or device buffer MPI uses
    held,      \* by rank and direction, what an add kernel has read of the sum
    wire       \* by sender, receiver and tag, the messages under way

exchanges == <<link, mode, grids, uniquTag, phase, spawned, computed, stage, field, device, staging, held, wire>>

communication == <<spawned, computed, stage, field, device, staging, held, wire>>

Ways == {"send", "receive"}

\* The directions of the send and receive exchanges.
Sides == UNION {x[2] \cup {getMirroredExchangeType(ex) : ex \in x[2]} : x \in Calls}

None == [ex \in {} |-> 0]

\* Nothing has been constructed or spawned.
FieldIdle ==
    /\ \E setup \in Setups : link = setup[1] /\ mode = setup[2]
    /\ grids = [g \in {"field", "other"} |->
                  [tag |-> 0, hasOneExchange |-> FALSE, send |-> None, receive |-> None]]
    /\ uniquTag = {}
    /\ spawned = [r \in DOMAIN link |-> 0] /\ computed = spawned
    /\ stage = [r \in DOMAIN link |-> [kind \in Ways |-> [ex \in Sides |-> [k \in 1 .. Rounds |-> "idle"]]]]
    /\ field = [r \in DOMAIN link |-> [border |-> 0, guard |-> [ex \in Sides |-> 0], sum |-> {}]]
    /\ device = [r \in DOMAIN link |-> [kind \in Ways |-> [ex \in Sides |-> 0]]]
    /\ staging = device /\ held = [r \in DOMAIN link |-> [ex \in Sides |-> {}]]
    /\ wire = [x \in {} |-> <<>>]

FieldInit == FieldIdle /\ phase = "construct"

-----------------------------------------------------------------------------
(* GridBuffer::addExchange, called alike on every rank.                    *)

uniqCommunicationTag(tag, ex) == tag * 32 + ex

\* The receive exchange takes the tag of the send exchange it was made with.
receiveTags(tag, mask) == [ex \in mask |-> uniqCommunicationTag(tag, getMirroredExchangeType(ex))]

merge(f, g) == [ex \in DOMAIN f \cup DOMAIN g |-> IF ex \in DOMAIN f THEN f[ex] ELSE g[ex]]

\* Only the first direction of a buffer is looked up in UniquTag and registered there.
addExchange(g, mask, tag) ==
    LET buffer == grids[g]
        send   == {getMirroredExchangeType(ex) : ex \in mask}
        first  == uniqCommunicationTag(tag, CHOOSE ex \in send : \A other \in send : ex <= other)
        throws == \/ buffer.hasOneExchange /\ tag # buffer.tag
                  \/ ~buffer.hasOneExchange /\ first \in uniquTag
                  \/ send \cap DOMAIN buffer.send # {}
    IN  /\ phase = "construct"
        /\ phase' = IF throws THEN "thrown" ELSE phase
        /\ uniquTag' = IF buffer.hasOneExchange THEN uniquTag ELSE uniquTag \cup {first}
        /\ grids' = IF throws THEN grids
                    ELSE [grids EXCEPT ![g] =
                            [tag |-> tag, hasOneExchange |-> TRUE,
                             send |-> merge(buffer.send, [ex \in send |-> uniqCommunicationTag(tag, ex)]),
                             receive |-> merge(buffer.receive, receiveTags(tag, mask))]]
        /\ UNCHANGED <<link, mode, communication>>

ready == phase = "construct" /\ \A g \in DOMAIN grids : grids[g].hasOneExchange

Run == ready /\ phase' = "run" /\ UNCHANGED <<link, mode, grids, uniquTag, communication>>

-----------------------------------------------------------------------------
(* spawnCommunication.                                                     *)

\* hasSendExchange and hasReceiveExchange: made, and with a neighbour.
active(r, kind) == DOMAIN grids["field"][kind] \cap DOMAIN link[r]

finished(r, kind, ex, k) == k > 0 => stage[r][kind][ex][k] = "done"

\* The event of round k's call: the event given and every branch.
eventReady(r, k) ==
    /\ mode.chained => computed[r] >= k
    /\ \A kind \in Ways : \A ex \in active(r, kind) : finished(r, kind, ex, k)

spawnCommunication(r) ==
    /\ phase = "run" /\ spawned[r] < Rounds
    /\ spawned' = [spawned EXCEPT ![r] = @ + 1]
    /\ stage' = [stage EXCEPT ![r] =
                   [kind \in Ways |-> [ex \in Sides |->
                      IF ex \in active(r, kind) THEN [@[kind][ex] EXCEPT ![spawned'[r]] = "spawned"]
                      ELSE @[kind][ex]]]]
    /\ UNCHANGED <<link, mode, grids, uniquTag, phase, computed, field, device, staging, held, wire>>

\* The kernel before round k; it has read the guard, and the sum, of the round before.
compute(r) ==
    /\ mode.chained /\ computed[r] < spawned[r] /\ eventReady(r, computed[r])
    /\ computed' = [computed EXCEPT ![r] = @ + 1]
    /\ field' = [field EXCEPT ![r].border = computed'[r], ![r].sum = {}]
    /\ UNCHANGED <<link, mode, grids, uniquTag, phase, spawned, stage, device, staging, held, wire>>

previous(r, k) == mode.chained => computed[r] >= k

\* Mutant: a send does not wait for the last one of its exchange.
sendReady_Unordered(r, ex, k) == previous(r, k)

sendReady(r, ex, k) == previous(r, k) /\ finished(r, "send", ex, k - 1)

\* Mutant: additive receives wait for all the others of their round.
receiveReady_Cyclic(r, ex, k) ==
    /\ finished(r, "receive", ex, k - 1)
    /\ IF mode.additive /\ active(r, "receive") # {ex}
       THEN \A other \in active(r, "receive") \ {ex} : finished(r, "receive", other, k)
       ELSE previous(r, k)

\* Additive receives wait for each other in the order of the directions.
receiveReady(r, ex, k) ==
    LET before == {other \in active(r, "receive") : other < ex}
    IN  /\ finished(r, "receive", ex, k - 1)
        /\ IF mode.additive /\ before # {}
           THEN finished(r, "receive", CHOOSE last \in before : \A other \in before : other <= last, k)
           ELSE previous(r, k)

-----------------------------------------------------------------------------
(* Exchange::send and Exchange::receive.                                   *)

\* Whether MPI uses another buffer than the exchange's own.
staged == ~mode.mpiDirect \/ mode.doubleBuffer

\* Unchained, a round only differs from another by its number.
written(r, k) == IF mode.chained THEN field[r].border ELSE k

advance(r, kind, ex, k, to) == stage' = [stage EXCEPT ![r][kind][ex][k] = to]

\* sendExchange of fields/Communication.hpp: CopyGuardToExchange before the send.
packSend(r, ex, k) ==
    /\ stage[r]["send"][ex][k] = "spawned" /\ mode.additive /\ sendReady(r, ex, k)
    /\ device' = [device EXCEPT ![r]["send"][ex] = written(r, k)]
    /\ advance(r, "send", ex, k, "packed")
    /\ UNCHANGED <<link, mode, grids, uniquTag, phase, spawned, computed, field, staging, held, wire>>

\* The queue has copied to the staging buffers, the letValue posts MPI_Isend.
postSend(r, ex, k) ==
    /\ IF mode.additive THEN stage[r]["send"][ex][k] = "packed"
       ELSE stage[r]["send"][ex][k] = "spawned" /\ sendReady(r, ex, k)
    /\ staging' = IF ~staged THEN staging
                  ELSE [staging EXCEPT ![r]["send"][ex] =
                          IF mode.additive THEN device[r]["send"][ex] ELSE written(r, k)]
    /\ advance(r, "send", ex, k, "posted")
    /\ UNCHANGED <<link, mode, grids, uniquTag, phase, spawned, computed, field, device, held, wire>>

tagOf(r, kind, ex) == grids["field"][kind][ex]

lane(r, kind, ex) ==
    IF kind = "send" THEN <<r, link[r][ex], tagOf(r, kind, ex)>> ELSE <<link[r][ex], r, tagOf(r, kind, ex)>>

\* MPI reads the buffer at any time until the send completes.
depart(r, ex, k) ==
    LET to == lane(r, "send", ex)
        content == CASE staged -> staging[r]["send"][ex] [] ~staged /\ mode.additive -> device[r]["send"][ex]
                     [] OTHER -> written(r, k)
    IN  /\ stage[r]["send"][ex][k] = "posted"
        /\ wire' = IF to \in DOMAIN wire THEN [wire EXCEPT ![to] = Append(@, content)]
                   ELSE [x \in DOMAIN wire \cup {to} |-> IF x = to THEN <<content>> ELSE wire[x]]
        /\ advance(r, "send", ex, k, "done")
        /\ UNCHANGED <<link, mode, grids, uniquTag, phase, spawned, computed, field, device, staging, held>>

postReceive(r, ex, k) ==
    /\ stage[r]["receive"][ex][k] = "spawned" /\ receiveReady(r, ex, k)
    /\ advance(r, "receive", ex, k, "posted")
    /\ UNCHANGED <<link, mode, grids, uniquTag, phase, spawned, computed, field, device, staging, held, wire>>

\* Where a receive ends: the field's guard, or the exchange's own buffer.
stored(r, ex, content) ==
    IF mode.additive THEN device' = [device EXCEPT ![r]["receive"][ex] = content] /\ UNCHANGED field
    ELSE field' = [field EXCEPT ![r].guard[ex] = content] /\ UNCHANGED device

\* MPI fills the buffer and completes the receive.
arrive(r, ex, k) ==
    LET from == lane(r, "receive", ex)
    IN  /\ stage[r]["receive"][ex][k] = "posted"
        /\ from \in DOMAIN wire /\ wire[from] # <<>>
        /\ wire' = [wire EXCEPT ![from] = Tail(@)]
        /\ IF staged THEN staging' = [staging EXCEPT ![r]["receive"][ex] = Head(wire[from])] /\ UNCHANGED <<field, device>>
           ELSE stored(r, ex, Head(wire[from])) /\ UNCHANGED staging
        /\ advance(r, "receive", ex, k, "arrived")
        /\ UNCHANGED <<link, mode, grids, uniquTag, phase, spawned, computed, held>>

\* The queue has copied from the staging buffers.
unpack(r, ex, k) ==
    /\ stage[r]["receive"][ex][k] = "arrived"
    /\ IF staged THEN stored(r, ex, staging[r]["receive"][ex]) ELSE UNCHANGED <<field, device>>
    /\ advance(r, "receive", ex, k, IF mode.additive THEN "unpacked" ELSE "done")
    /\ UNCHANGED <<link, mode, grids, uniquTag, phase, spawned, computed, staging, held, wire>>

\* AddExchangeToBorder adds in place; the borders of two directions share their edge.
beginAdd(r, ex, k) ==
    /\ stage[r]["receive"][ex][k] = "unpacked"
    /\ held' = [held EXCEPT ![r][ex] = field[r].sum]
    /\ advance(r, "receive", ex, k, "adding")
    /\ UNCHANGED <<link, mode, grids, uniquTag, phase, spawned, computed, field, device, staging, wire>>

endAdd(r, ex, k) ==
    /\ stage[r]["receive"][ex][k] = "adding"
    /\ field' = [field EXCEPT ![r].sum = held[r][ex] \cup {<<ex, device[r]["receive"][ex]>>}]
    /\ held' = [held EXCEPT ![r][ex] = {}]
    /\ advance(r, "receive", ex, k, "done")
    /\ UNCHANGED <<link, mode, grids, uniquTag, phase, spawned, computed, device, staging, wire>>

-----------------------------------------------------------------------------
sendStep(r, ex, k) == packSend(r, ex, k) \/ postSend(r, ex, k) \/ depart(r, ex, k)

receiveStep(r, ex, k) ==
    \/ postReceive(r, ex, k) \/ arrive(r, ex, k) \/ unpack(r, ex, k) \/ beginAdd(r, ex, k) \/ endAdd(r, ex, k)

\* The events of all calls are ready.
FieldDone == phase = "run" => \A r \in DOMAIN link : spawned[r] = Rounds /\ eventReady(r, Rounds)

FieldOver == phase # "construct" /\ FieldDone /\ UNCHANGED exchanges

construct == \E x \in Calls : addExchange(x[1], x[2], x[3])

rankStep(r) ==
    \/ spawnCommunication(r) \/ compute(r)
    \/ \E ex \in Sides, k \in 1 .. Rounds : sendStep(r, ex, k) \/ receiveStep(r, ex, k)

FieldNext == construct \/ Run \/ (\E r \in DOMAIN link : rankStep(r)) \/ FieldOver

\* A receive of the other side is posted: MPI has to move the message.
awaited(r, ex) ==
    LET to == lane(r, "send", ex)
    IN  \E k \in 1 .. Rounds : \E other \in active(to[2], "receive") :
           lane(to[2], "receive", other) = to /\ stage[to[2]]["receive"][other][k] = "posted"

\* The control thread, the device queues and MPI's progress thread go on while there is
\* something to do.  MPI need not move a message that nobody waits for.
progress(r) ==
    \/ spawnCommunication(r) \/ compute(r)
    \/ \E ex \in Sides, k \in 1 .. Rounds :
          \/ packSend(r, ex, k) \/ postSend(r, ex, k) \/ receiveStep(r, ex, k)
          \/ depart(r, ex, k) /\ awaited(r, ex)

fieldProgress == Run \/ \E r \in DOMAIN link : progress(r)

FieldFairness == WF_exchanges(fieldProgress)

FieldSpec == FieldInit /\ [][FieldNext]_exchanges /\ FieldFairness

-----------------------------------------------------------------------------
\* The guard of a direction holds what the neighbour there had in its border in the same
\* round: round by round, with no round lost, doubled or mixed, whatever the order in which
\* the queues and MPI finish, while a buffer is used by one round at a time.
GuardsInStep ==
    phase = "run" /\ ~mode.additive =>
        \A r \in DOMAIN link : \A ex \in active(r, "receive") :
            field[r].guard[ex] =
                Cardinality({k \in 1 .. Rounds : stage[r]["receive"][ex][k] \in
                                IF staged THEN {"done"} ELSE {"arrived", "done"}})

\* When the event of an additive communication is complete, every neighbour's contribution of
\* this round has been added to the border, once, although their kernels change the same
\* cells.
SumsComplete ==
    mode.additive /\ mode.chained =>
        \A r \in DOMAIN link : computed[r] > 0 /\ eventReady(r, computed[r]) =>
            field[r].sum = {<<ex, computed[r]>> : ex \in active(r, "receive")}

\* Every exchange has its other end: what is sent in a direction is received, under the same
\* tag, from the mirrored one, and no two directions of a buffer share a tag.
ExchangesPaired ==
    \A g \in DOMAIN grids :
        /\ DOMAIN grids[g].receive = {getMirroredExchangeType(ex) : ex \in DOMAIN grids[g].send}
        /\ \A ex \in DOMAIN grids[g].send :
              grids[g].receive[getMirroredExchangeType(ex)] = grids[g].send[ex]
        /\ \A one, two \in DOMAIN grids[g].send : grids[g].send[one] = grids[g].send[two] => one = two

\* A communication moves the whole guard of its round, and nothing of another.
HaloExact == GuardsInStep /\ SumsComplete /\ ExchangesPaired

\* GridBuffer.hpp: "unique exchange communication tag (...) already used for other GridBuffer
\* exchange".  Two buffers that were both accepted share no tag.
TagsUnique ==
    phase # "thrown" =>
        \A ex \in DOMAIN grids["field"].send, other \in DOMAIN grids["other"].send :
            grids["field"].send[ex] # grids["other"].send[other]
=============================================================================
