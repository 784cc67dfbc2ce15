--------------------------- MODULE MpiOperations ---------------------------
(***************************************************************************)
(* The native calls one rank's MPI context makes for the operations of     *)
(* mpi/operations.hpp, and its table of communicators (mpi/operations.cpp, *)
(* mpi/communicator.cpp, mpi/context.cpp).                                 *)
(*                                                                         *)
(* Memory is a row of bytes, a buffer an interval of it.  A step is one    *)
(* callback on the owner: it checks its arguments, calls MPI, and hands    *)
(* over the request with the owners of the memory MPI uses until it is     *)
(* complete.  An exception leaves MpiContext::progress, which aborts all   *)
(* ranks.                                                                  *)
(***************************************************************************)
EXTENDS Naturals, Sequences, FiniteSets

CONSTANTS
    Buffers,    \* [at |-> address, size |-> bytes]
    IntMax,     \* INT_MAX
    Word,       \* values of std::size_t, more than IntMax * IntMax
    Scalars,    \* scalarSize of the scalar types
    WorldSize,  \* ranks of MPI_COMM_WORLD
    Cartesians, \* dimensions createCartesian may be given
    Layouts,    \* <<receiveBytes, displacements>> gatherV may be given
    MaxComms,   \* bound: the length of m_communicators
    MaxRequests \* bound: the length of m_requests

\* Sizes are counted in bytes, a rank is an int, and INT_MAX parts of INT_MAX bytes can be counted.
ASSUME OperationsConstants ==
    /\ \A b \in Buffers : b.at \in Nat /\ b.size \in Nat
    /\ IntMax \in Nat /\ Word \in Nat /\ IntMax + IntMax < Word /\ IntMax * IntMax < Word
    /\ Scalars \subseteq Nat \ {0} /\ WorldSize \in 1 .. IntMax
    /\ \A layout \in Layouts : layout[1] \in Seq(Nat) /\ layout[2] \in Seq(Nat)

VARIABLES
    communicators, \* m_communicators: natives by id, 0 is MPI_COMM_NULL
    existing,      \* native communicators of this rank: native -> its size and our rank
    call,          \* the native call being made
    batch,         \* its NativeRequestBatch
    m_requests,    \* requests and their groups: what MPI uses, whose owners are kept
    inMpi,         \* history: requests that are active in MPI
    life           \* "running", "aborted", "terminated" or "finished"

requestTable == <<batch, m_requests, inMpi>>

operations == <<communicators, existing, call, requestTable, life>>

\* No call.
Idle == [op |-> "none"]

NoBatch == [active |-> FALSE, uses |-> {}, lifetimes |-> {}, owns |-> FALSE]

OperationsInit ==
    /\ communicators = <<1>>
    /\ \E rank \in 0 .. WorldSize - 1 : existing = [n \in {1} |-> [size |-> WorldSize, rank |-> rank]]
    /\ call = Idle /\ batch = NoBatch /\ m_requests = <<>> /\ inMpi = 0 /\ life = "running"

Bytes(b) == b.at .. b.at + b.size - 1

First(b, size) == b.at .. b.at + size - 1

-----------------------------------------------------------------------------
(* Checks.                                                                 *)

validBuffer(b) == b.size <= IntMax

buffersOverlap(input, output) ==
    /\ input.size # 0 /\ output.size # 0
    /\ IF input.at <= output.at THEN output.at - input.at < input.size
       ELSE input.at - output.at < output.size

\* MpiContext::communicator.
known(id) == id \in DOMAIN communicators /\ communicators[id] # 0

info(id) == existing[communicators[id]]

Abort ==
    /\ life' = "aborted" /\ call' = Idle /\ batch' = NoBatch
    /\ UNCHANGED <<communicators, existing, m_requests, inMpi>>

\* The request MPI made, unless there is nothing to wait for, and the owners of the
\* buffers.  MPI reads the arrays of a gatherV, made for the call, until it is complete.
NativeRequestBatch(made, active) ==
    [active |-> active, owns |-> TRUE,
     uses |-> {w \in {"input"} : made.reads # {}} \cup {w \in {"output"} : made.writes # {}}
                  \cup {w \in {"layout"} : made.op = "gatherV"},
     lifetimes |-> CASE made.op = "barrier" -> {}
                     [] made.op = "send" -> {"input"}
                     [] made.op = "receive" -> {"output"}
                     [] made.op = "gatherV" -> {"input", "output", "layout"}
                     [] OTHER -> {"input", "output"}]

\* The destructor ends the program rather than give up owners MPI still needs.
destroyed(b) == IF b.owns /\ b.active THEN "terminated" ELSE "running"

\* The callback of an operation: its checks hold and MPI accepts the call, or the job ends.
\* made is the native call.  Of the checks those on memory, counts and the communicator are
\* named; those on peer, tag and root only refuse a call, which Abort allows of every one.
Perform(id, checks, made) ==
    \/ /\ known(id) /\ checks
       /\ call' = [made EXCEPT !.comm = communicators[id]]
       /\ \E active \in BOOLEAN :
             batch' = NativeRequestBatch(made, active) /\ inMpi' = inMpi + (IF active THEN 1 ELSE 0)
       /\ UNCHANGED <<communicators, existing, m_requests, life>>
    \/ Abort

\* reads and writes are bytes, buffers what the caller passed, counts the int arguments.
Made(op, reads, writes, input, output, counts, result) ==
    [op |-> op, comm |-> 0, reads |-> reads, writes |-> writes, input |-> input, output |-> output,
     counts |-> counts, result |-> result]

-----------------------------------------------------------------------------
(* Operations of mpi/operations.cpp.                                       *)

startSend(b, id) ==
    Perform(id, validBuffer(b), Made("send", Bytes(b), {}, Bytes(b), {}, {b.size}, 0))

\* completeReceive returns the bytes of the message, at most what was asked for.
startReceive(b, id) ==
    Perform(id, validBuffer(b), Made("receive", {}, First(b, b.size), {}, Bytes(b), {b.size}, 0))

startAllReduce(input, output, scalar, id) ==
    LET inPlace == input.at = output.at
        elements == input.size \div scalar
    IN  Perform(id,
            /\ validBuffer(input) /\ validBuffer(output)
            /\ input.size % scalar = 0 /\ output.size >= input.size
            /\ inPlace \/ ~buffersOverlap(input, output),
            Made("allReduce", IF inPlace THEN {} ELSE First(input, elements * scalar),
                 First(output, elements * scalar), Bytes(input), Bytes(output), {elements}, 0))

\* Only the root has an output.
startReduce(input, output, scalar, root, id) ==
    LET elements == input.size \div scalar
        isRoot == known(id) /\ info(id).rank = root
    IN  Perform(id,
            /\ validBuffer(input) /\ input.size % scalar = 0
            /\ isRoot => /\ validBuffer(output) /\ output.size >= input.size
                         /\ ~buffersOverlap(input, output),
            Made("reduce", First(input, elements * scalar),
                 IF isRoot THEN First(output, elements * scalar) ELSE {},
                 Bytes(input), Bytes(output), {elements}, 0))

\* Every rank's part fits, without the product.
gathers(input, output, size) == size > 0 /\ input.size <= output.size \div size

startGather(input, output, root, id) ==
    LET isRoot == known(id) /\ info(id).rank = root
        total == (input.size * info(id).size) % Word
    IN  Perform(id,
            /\ validBuffer(input) /\ validBuffer(output) /\ ~buffersOverlap(input, output)
            /\ isRoot => gathers(input, output, info(id).size),
            Made("gather", Bytes(input), IF isRoot THEN First(output, input.size * info(id).size) ELSE {},
                 Bytes(input), Bytes(output), {input.size}, IF isRoot THEN total ELSE 0))

startAllGather(input, output, id) ==
    Perform(id,
        /\ validBuffer(input) /\ validBuffer(output) /\ ~buffersOverlap(input, output)
        /\ gathers(input, output, info(id).size),
        Made("gather", Bytes(input), First(output, input.size * info(id).size),
             Bytes(input), Bytes(output), {input.size}, (input.size * info(id).size) % Word))

\* resultBytes: the loop adds the segments up in a std::size_t.
segmentBytes(counts) ==
    LET upTo[i \in 0 .. Len(counts)] == IF i = 0 THEN 0 ELSE (upTo[i - 1] + counts[i]) % Word
    IN  upTo[Len(counts)]

\* Segments may overlap each other: that is left to the caller.
startGatherV(input, output, layout, root, id) ==
    LET counts == layout[1]
        offsets == layout[2]
        isRoot == known(id) /\ info(id).rank = root
        segment(i) == output.at + offsets[i] .. output.at + offsets[i] + counts[i] - 1
    IN  Perform(id,
            /\ validBuffer(input) /\ validBuffer(output) /\ ~buffersOverlap(input, output)
            /\ Len(counts) = Len(offsets)
            /\ \A i \in DOMAIN counts : counts[i] <= IntMax /\ offsets[i] <= IntMax
            /\ isRoot => /\ Len(counts) = info(id).size
                         /\ \A i \in DOMAIN counts : (offsets[i] + counts[i]) % Word <= output.size,
            Made("gatherV", Bytes(input), IF isRoot THEN UNION {segment(i) : i \in DOMAIN counts} ELSE {},
                 Bytes(input), Bytes(output),
                 {input.size} \cup {counts[i] : i \in DOMAIN counts} \cup {offsets[i] : i \in DOMAIN counts},
                 IF isRoot THEN segmentBytes(counts) ELSE 0))

startBarrier(id) == Perform(id, TRUE, Made("barrier", {}, {}, {}, {}, {}, 0))

\* group->lifetimes.swap(batch.lifetimes)
swapped(b) == b.lifetimes

\* trackNative: an active request enters the table, after room was made for it, which may
\* fail; then the batch is destroyed.
TrackNative ==
    /\ life = "running" /\ call # Idle /\ call' = Idle /\ batch' = NoBatch
    /\ \E room \in BOOLEAN :
          LET released == [batch EXCEPT !.owns = FALSE, !.lifetimes = {}]
          IN  /\ m_requests' = IF room /\ batch.active
                               THEN Append(m_requests, [uses |-> batch.uses, lifetimes |-> swapped(batch)])
                               ELSE m_requests
              /\ life' = destroyed(IF room THEN released ELSE batch)
    /\ UNCHANGED <<communicators, existing, inMpi>>

\* progressRequests: MPI_Testsome reports one, its group completes.
RetireRequest ==
    /\ life = "running" /\ call = Idle
    /\ \E i \in DOMAIN m_requests :
          m_requests' = [j \in 1 .. Len(m_requests) - 1 |-> m_requests[IF j < i THEN j ELSE j + 1]]
    /\ inMpi' = inMpi - 1
    /\ UNCHANGED <<communicators, existing, call, batch, life>>

-----------------------------------------------------------------------------
(* Communicators.                                                          *)

\* MpiContext::adoptCommunicator: MPI makes a native that was never used before, and the id
\* is its place in the table.
adopted(member) ==
    LET native == Len(communicators) + 1
    IN  /\ communicators' = Append(communicators, native)
        /\ existing' = [n \in DOMAIN existing \cup {native} |-> IF n = native THEN member ELSE existing[n]]

\* The loop over the dimensions, 0 when it throws.
product[dims \in Cartesians, i \in Nat] ==
    IF i = 0 THEN 1
    ELSE LET ranks == product[dims, i - 1]
         IN  IF ranks = 0 \/ dims[i] <= 0 \/ ranks > WorldSize \div dims[i] THEN 0
             ELSE (ranks * dims[i]) % Word

createCartesian(dims) ==
    \/ /\ Len(communicators) < MaxComms
       /\ dims # <<>> /\ product[dims, Len(dims)] = WorldSize
       /\ adopted(existing[1]) /\ UNCHANGED <<call, requestTable, life>>
    \/ Abort

duplicateCommunicator(id) ==
    \/ /\ Len(communicators) < MaxComms /\ known(id)
       /\ adopted(info(id)) /\ UNCHANGED <<call, requestTable, life>>
    \/ Abort

\* MPI decides who shares the color; without one there is no new communicator.
splitCommunicator(id) ==
    \/ /\ Len(communicators) < MaxComms /\ known(id)
       /\ \E size \in 1 .. info(id).size : \E rank \in 0 .. size - 1 : adopted([size |-> size, rank |-> rank])
       /\ UNCHANGED <<call, requestTable, life>>
    \/ known(id) /\ UNCHANGED operations
    \/ Abort

destroyCommunicator(id) ==
    \/ /\ id # 1 /\ known(id)
       /\ existing' = [n \in DOMAIN existing \ {communicators[id]} |-> existing[n]]
       /\ communicators' = [communicators EXCEPT ![id] = 0]
       /\ UNCHANGED <<call, requestTable, life>>
    \/ Abort

\* progress() has nothing outstanding.
releaseCommunicators ==
    /\ m_requests = <<>>
    /\ life' = "finished" /\ UNCHANGED <<call, requestTable>>
    /\ communicators' = [id \in DOMAIN communicators |-> IF id = 1 THEN 1 ELSE 0]
    /\ existing' = [n \in DOMAIN existing \ {communicators[id] : id \in 2 .. Len(communicators)} |-> existing[n]]

-----------------------------------------------------------------------------
\* Identifiers a caller may pass: any in the table and one that is not.
Ids == 1 .. Len(communicators) + 1

Ranks == 0 .. WorldSize - 1

OperationsOver == life # "running" /\ UNCHANGED operations

\* The callback of a request.
StartNative(id) ==
    /\ Len(m_requests) < MaxRequests
    /\ \/ \E b \in Buffers : startSend(b, id) \/ startReceive(b, id)
       \/ \E input, output \in Buffers :
             \/ startAllGather(input, output, id)
             \/ \E scalar \in Scalars : startAllReduce(input, output, scalar, id)
             \/ \E scalar \in Scalars, root \in Ranks : startReduce(input, output, scalar, root, id)
             \/ \E root \in Ranks : startGather(input, output, root, id)
             \/ \E root \in Ranks, layout \in Layouts : startGatherV(input, output, layout, root, id)
       \/ startBarrier(id)

\* The callback of an operation that blocks the owner.
Invoke ==
    \/ \E id \in Ids : duplicateCommunicator(id) \/ splitCommunicator(id) \/ destroyCommunicator(id)
    \/ \E dims \in Cartesians : createCartesian(dims)

\* The owner runs a callback.
OwnerCallback ==
    /\ life = "running" /\ call = Idle
    /\ (\E id \in Ids : StartNative(id)) \/ Invoke \/ releaseCommunicators

OperationsNext == OwnerCallback \/ TrackNative \/ RetireRequest \/ OperationsOver

OperationsSpec == OperationsInit /\ [][OperationsNext]_operations

-----------------------------------------------------------------------------
\* Whatever the buffers, the ranks and the communicator, a call that is made names only
\* bytes of the buffers it was given, on this rank and at the root, its int arguments did
\* not lose bits, what MPI reads and what it writes are apart, and the result of a gather
\* counts what was written.
CallsInBounds ==
    call # Idle =>
        /\ call.reads \subseteq call.input /\ call.writes \subseteq call.output
        /\ call.reads \cap call.writes = {}
        /\ \A c \in call.counts : c <= IntMax
        /\ call.op = "gather" /\ call.writes # {} => call.result = Cardinality(call.writes)
        /\ call.op = "gatherV" => call.result >= Cardinality(call.writes)

\* An identifier means the same communicator until it is destroyed and nothing after that;
\* no native communicator is used after it was freed, and none is left when the context
\* has finished.
CommunicatorsOwned ==
    /\ \A id \in DOMAIN communicators : communicators[id] \in {0, id}
    /\ DOMAIN existing = {communicators[id] : id \in DOMAIN communicators} \ {0}
    /\ call # Idle => call.comm \in DOMAIN existing
    /\ life = "finished" => DOMAIN existing = {1}

\* While the program runs, every request MPI has is in the table or still in the batch, and
\* the owners of the memory it uses are kept with it; when the context has finished there
\* is none.
RequestsOwned ==
    /\ life = "running" =>
          /\ inMpi = Len(m_requests) + (IF batch.owns /\ batch.active THEN 1 ELSE 0)
          /\ batch.uses \subseteq batch.lifetimes
          /\ \A i \in DOMAIN m_requests : m_requests[i].uses \subseteq m_requests[i].lifetimes
    /\ life = "finished" => inMpi = 0

\* Every native call is one MPI accepts, on memory that stays until it is complete.
NativeCallsSound == CallsInBounds /\ CommunicatorsOwned /\ RequestsOwned
=============================================================================
