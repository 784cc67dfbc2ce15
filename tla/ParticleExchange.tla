-------------------------- MODULE ParticleExchange --------------------------
(***************************************************************************)
(* One communication of a particle species: the guard particles of every   *)
(* direction are sent in chunks and inserted into the border supercells of *)
(* the neighbour (particles/Communication.hpp, ParticlesBase.kernel,       *)
(* memory/buffers/ParticlesBuffer.hpp, StackExchangeBuffer.hpp).           *)
(*                                                                         *)
(* The domain is periodic with one rank, so that the neighbour in every    *)
(* direction is the rank itself.  A chunk is two messages, the particles   *)
(* and an index of them, each with its own tag; MPI keeps the order of the *)
(* messages of a tag.  A send completes when the message has been received *)
(* or, if MPI buffers it, before.                                          *)
(***************************************************************************)
EXTENDS ParticlesBox, Mappings, TLC

CONSTANTS
    Desc,         \* the mapping description
    receiveMask,  \* directions the exchange buffers are added for
    Memories,     \* bytes an exchange buffer may use
    BorderBytes,  \* SizeOfOneBorderElement: a particle and an entry of the index
    Pool,         \* addresses the device heap has for the frames a direction inserts
    Buffering,    \* sets of kinds of messages that MPI buffers
    Fillings      \* initial contents: how many particles in each supercell

ASSUME ExchangeConstants == Cells = Blocks(Desc.grid) /\ receiveMask \subseteq ExchangeTypes(Len(Desc.grid))

VARIABLES
    box,      \* the particle box
    max,      \* capacity of the exchange buffers
    buffered, \* kinds of messages MPI buffers
    stack,    \* device memory of the send exchanges: count, frames, index
    copier,   \* blocks of KernelCopyGuardToExchange, by guard supercell
    sender,   \* sendChunks: its step, the chunk's host-side size, sends not complete
    msgs,     \* messages of each tag, by direction and kind
    receiver, \* receiveChunks: its step and what it received
    insert,   \* blocks of KernelInsertParticles: frames not linked yet
    fill,     \* fillBorderGaps: border supercells left, shared memory
    origin    \* history: the border supercell each particle is for

vars == <<box, max, buffered, stack, copier, sender, msgs, receiver, insert, fill, origin>>

Directions == ExchangeTypes(Len(Desc.grid))

Kinds == {"frames", "index"}

\* addExchangeBuffer: the mirrored directions are sent to; no buffers without room.
mirrored == {getMirroredExchangeType(ex) : ex \in receiveMask}

sendMask == IF max = 0 THEN {} ELSE mirrored

guardCells == [ex \in Directions |-> ExchangeCells(GUARD, Desc, ex)]

AllGuard == UNION {guardCells[ex] : ex \in Directions}

directionOf == [c \in AllGuard |-> CHOOSE ex \in Directions : c \in guardCells[ex]]

BorderCells == AreaCells(BORDER, Desc)

\* The place of guard supercell c in the neighbour's domain.
counterpart(c, ex) ==
    [d \in dims(c) |-> c[d] - getRelativeDirections(Len(c), ex)[d] * withoutGuard(Desc)[d]]

-----------------------------------------------------------------------------
emptyStack == [count |-> 0, frames |-> <<>>, index |-> <<>>]

numFrameTypeBorders(usedMemory) == usedMemory \div BorderBytes

\* A frame that is sent: one particle, without its mask.
FrameTypeBorder(particle) == [a \in DOMAIN particle \ {"mask"} |-> particle[a]]

ExchangeMemoryIndex(cell, start, count) == [cell |-> cell, start |-> start, count |-> count]

\* A block stops when its supercell has no other frame.
blockOf(b, c) == [pc |-> IF b.last[c] = NullFrame THEN "stop" ELSE "frame", n |-> 0, old |-> 0]

Init ==
    /\ \E usedMemory \in Memories : max = numFrameTypeBorders(usedMemory)
    /\ buffered \in Buffering
    /\ \E filling \in Fillings :
          /\ box = boxOf([c \in Cells |-> [i \in 1 .. filling[c] |-> 1]])
          /\ origin = [p \in UNION {{<<c, i>> : i \in 1 .. filling[c]} : c \in Cells \ AllGuard} |-> p[1]]
                      @@ [p \in UNION {{<<c, i>> : i \in 1 .. filling[c]} :
                                        c \in UNION {guardCells[ex] : ex \in sendMask}} |->
                            counterpart(p[1], directionOf[p[1]])]
    /\ stack = [ex \in sendMask |-> emptyStack]
    /\ copier = [c \in AllGuard |-> blockOf(EmptyBox, c)]
    /\ sender = [ex \in Directions |-> [pc |-> "reset", size |-> 0, pending |-> {}]]
    /\ msgs = [ex \in sendMask |-> [k \in Kinds |-> <<>>]]
    /\ receiver = [ex \in sendMask |-> [pc |-> "receive", got |-> [k \in Kinds |-> <<>>], has |-> {}]]
    /\ insert = {}
    /\ fill = [left |-> BorderCells, pc |-> "wait", shared |-> [first |-> 0, last |-> 0, full |-> 0]]

-----------------------------------------------------------------------------
(* Sending in direction ex.                                                *)

\* copyGuardToExchange: the sizes are reset before the kernel starts.  Its blocks leave
\* their supercells with a count of 0, which nothing reads before they end.
BeginChunk(ex) ==
    /\ sender[ex].pc = "reset"
    /\ stack' = [stack EXCEPT ![ex] = emptyStack]
    /\ copier' = [c \in AllGuard |-> IF c \in guardCells[ex] THEN blockOf(box, c) ELSE copier[c]]
    /\ box' = [box EXCEPT !.num = [c \in Cells |-> IF c \in guardCells[ex] THEN 0 ELSE @[c]]]
    /\ sender' = [sender EXCEPT ![ex].pc = "copy"]
    /\ UNCHANGED <<max, buffered, msgs, receiver, insert, fill, origin>>

\* pushN: add the particles of the last frame to the stack's size.
Reserve(c) ==
    LET ex == directionOf[c]
        n  == Cardinality(withMask(box, box.last[c], {1}))
    IN  /\ copier[c].pc = "frame"
        /\ stack' = [stack EXCEPT ![ex].count = @ + n]
        /\ copier' = [copier EXCEPT ![c] =
              [pc |-> IF n > 0 /\ stack[ex].count + n > max THEN "repair" ELSE "copy", n |-> n, old |-> stack[ex].count]]
        /\ UNCHANGED <<box, max, buffered, sender, msgs, receiver, insert, fill, origin>>

\* Mutant: the size is left beyond the capacity.
Repair_Skip(c) ==
    /\ copier[c].pc = "repair"
    /\ copier' = [copier EXCEPT ![c].pc = "copy"]
    /\ UNCHANGED <<box, max, buffered, stack, sender, msgs, receiver, insert, fill, origin>>

\* The stack is full: its size is set back to the capacity.
Repair(c) ==
    /\ copier[c].pc = "repair"
    /\ stack' = [stack EXCEPT ![directionOf[c]].count = max]
    /\ copier' = [copier EXCEPT ![c].pc = "copy"]
    /\ UNCHANGED <<box, max, buffered, sender, msgs, receiver, insert, fill, origin>>

\* Places granted to a block: what fits.
granted(k) ==
    IF k.old + k.n <= max THEN k.n ELSE IF k.old >= max THEN 0 ELSE max - k.old

\* Entries are appended without a look at the index's capacity, which is that of the stack.
push(index, e) == Append(index, e)

\* The lanes write a tile of the stack.
write(frames, old, tile) ==
    [i \in DOMAIN frames \cup {old + j - 1 : j \in DOMAIN tile} |->
        IF i \in old .. old + Len(tile) - 1 THEN tile[i - old + 1] ELSE frames[i]]

\* Enter the chunk in the index, copy what fits, and give the frame back if all of it
\* was copied; else this block has to wait for the next chunk.
CopyFrame(c) ==
    LET ex    == directionOf[c]
        k     == copier[c]
        last  == box.last[c]
        lanes == SubSeq(Lanes(withMask(box, last, {1})), 1, granted(k))
        tile  == [i \in DOMAIN lanes |-> FrameTypeBorder(box.slot[last][lanes[i]])]
        rest  == [box EXCEPT !.slot[last] =
                    [i \in Slots |-> IF \E j \in DOMAIN lanes : lanes[j] = i THEN Gap ELSE box.slot[last][i]]]
        all   == granted(k) = k.n
    IN  /\ k.pc = "copy"
        /\ stack' = IF lanes = <<>> THEN stack
                    ELSE [stack EXCEPT
                            ![ex].index = push(@, ExchangeMemoryIndex(reduce(c, ex), k.old, Len(lanes))),
                            ![ex].frames = write(@, k.old, tile)]
        /\ box' = IF all THEN removeLastFrame(rest, c) ELSE rest
        /\ copier' = [copier EXCEPT ![c] = IF all THEN blockOf(box', c) ELSE [@ EXCEPT !.pc = "stop"]]
        /\ UNCHANGED <<max, buffered, sender, msgs, receiver, insert, fill, origin>>

\* getDeviceParticlesCurrentSize, once the sizes are on the host.
currentSize(ex) == stack[ex].count

\* publishDeviceSizes after the last block; the messages can be sent.
PublishSizes(ex) ==
    /\ sender[ex].pc = "copy" /\ \A c \in guardCells[ex] : copier[c].pc = "stop"
    /\ sender' = [sender EXCEPT ![ex] = [pc |-> "send", size |-> currentSize(ex), pending |-> Kinds]]
    /\ UNCHANGED <<box, max, buffered, stack, copier, msgs, receiver, insert, fill, origin>>

\* What a message of this kind holds now.
payload(ex, kind) ==
    IF kind = "index" THEN stack[ex].index ELSE [i \in 1 .. sender[ex].size |-> stack[ex].frames[i - 1]]

\* Start one of the two sends.
Send(ex, kind) ==
    /\ sender[ex].pc = "send" /\ kind \in sender[ex].pending
    /\ msgs' = [msgs EXCEPT ![ex][kind] = Append(@, IF kind \in buffered THEN payload(ex, kind) ELSE <<>>)]
    /\ sender' = [sender EXCEPT ![ex].pending = @ \ {kind},
                                ![ex].pc = IF sender[ex].pending = {kind} THEN "sent" ELSE @]
    /\ UNCHANGED <<box, max, buffered, stack, copier, receiver, insert, fill, origin>>

\* The send of this kind is complete: MPI does not need the buffer any more.
complete(ex, kind) == kind \in buffered \/ msgs[ex][kind] = <<>>

\* whenAll of the two sends.
sendsComplete(ex) == \A kind \in Kinds : complete(ex, kind)

\* A full chunk is followed by another one.
SendAgain(ex) ==
    /\ sender[ex].pc = "sent" /\ sendsComplete(ex)
    /\ sender' = [sender EXCEPT ![ex].pc = IF sender[ex].size = max THEN "reset" ELSE "done"]
    /\ UNCHANGED <<box, max, buffered, stack, copier, msgs, receiver, insert, fill, origin>>

\* HandleNotExchanged in the other directions: KernelDeleteParticles over their guards,
\* which nothing else touches.
DeleteGuards ==
    LET Others == Directions \ sendMask IN
    /\ \E ex \in Others : sender[ex].pc = "reset"
    /\ box' = deleteParticles(box, UNION {guardCells[ex] : ex \in Others})
    /\ sender' = [ex \in Directions |-> IF ex \in Others THEN [sender[ex] EXCEPT !.pc = "done"] ELSE sender[ex]]
    /\ UNCHANGED <<max, buffered, stack, copier, msgs, receiver, insert, fill, origin>>

-----------------------------------------------------------------------------
(* Receiving what was sent in direction ex, from its mirror.               *)

\* One of the two receives; after both, InsertNonEmptySender starts one block for each
\* entry of the index.
Receive(ex, kind) ==
    /\ receiver[ex].pc = "receive" /\ kind \notin receiver[ex].has /\ msgs[ex][kind] # <<>>
    /\ receiver' = [receiver EXCEPT
          ![ex].got[kind] = IF kind \in buffered THEN Head(msgs[ex][kind]) ELSE payload(ex, kind),
          ![ex].has = @ \cup {kind},
          ![ex].pc = IF receiver[ex].has \cup {kind} = Kinds THEN "insert" ELSE "receive"]
    /\ msgs' = [msgs EXCEPT ![ex][kind] = Tail(@)]
    /\ UNCHANGED <<box, max, buffered, stack, copier, sender, insert, fill, origin>>

\* ExchangePopDataBox::get: the tile of an entry.
get(frames, e) == SubSeq(frames, e.start + 1, e.start + e.count)

\* KernelInsertParticles of one entry: a new frame with its particles, up to the atomic
\* exchange of the supercell's last frame.
InsertFrame(ex) ==
    LET index == receiver[ex].got["index"]
        e     == Head(index)
        f     == Min(Pool[ex] \ box.heap)
        c     == extend(e.cell, getMirroredExchangeType(ex), Desc.grid, Desc.guard)
        tile  == get(receiver[ex].got["frames"], e)
        new   == [allocate(box, f) EXCEPT !.slot[f] = [i \in Slots |->
                    IF i < e.count THEN assign(Particle(<<>>, 1), tile[i + 1], deselected) ELSE Gap]]
    IN  /\ receiver[ex].pc = "insert" /\ index # <<>>
        /\ box' = exchangeLast(new, f, c)
        /\ insert' = insert \cup {[frame |-> f, cell |-> c, ex |-> ex]}
        /\ receiver' = [receiver EXCEPT ![ex].got["index"] = Tail(@)]
        /\ UNCHANGED <<max, buffered, stack, copier, sender, msgs, fill, origin>>

\* The rest of setAsLastFrame.
LinkFrame ==
    \E b \in insert :
        /\ box' = linkLast(box, b.frame, b.cell)
        /\ insert' = insert \ {b}
        /\ UNCHANGED <<max, buffered, stack, copier, sender, msgs, receiver, fill, origin>>

\* Mutant: a full chunk that is not the last is taken for the last.
isLast_Any(n) == TRUE

\* The chunk was the last.
isLast(n) == n = 0 \/ n < max

\* InsertNonEmptySender completes at once without entries, else when its kernel has ended.
inserted(ex) == receiver[ex].got["index"] = <<>> /\ \A b \in insert : b.ex # ex

ReceiveAgain(ex) ==
    /\ receiver[ex].pc = "insert" /\ inserted(ex)
    /\ receiver' = [receiver EXCEPT ![ex] =
          [pc |-> IF isLast(Len(@.got["frames"])) THEN "done" ELSE "receive",
           got |-> [k \in Kinds |-> <<>>], has |-> {}]]
    /\ UNCHANGED <<box, max, buffered, stack, copier, sender, msgs, insert, fill, origin>>

\* fillBorderGaps, after all receives.  Its blocks only change their own supercell:
\* they are taken one after the other.
FillBorder ==
    LET c == CHOOSE d \in fill.left : TRUE IN
    /\ \A ex \in sendMask : receiver[ex].pc = "done"
    /\ fill.left # {}
    /\ CASE fill.pc = "wait" ->
               fill' = [fill EXCEPT !.pc = "fill", !.shared = fillStart(box, c)] /\ UNCHANGED box
         [] fill.pc = "fill" /\ fillLoops(fill.shared) ->
               LET s == fillRound(box, c, fill.shared)
               IN  box' = s.box /\ fill' = [fill EXCEPT !.shared = s.fill]
         [] OTHER ->
               /\ box' = fillLast(box, c, fill.shared)
               /\ fill' = [fill EXCEPT !.left = @ \ {c}, !.pc = "wait"]
    /\ UNCHANGED <<max, buffered, stack, copier, sender, msgs, receiver, insert, origin>>

-----------------------------------------------------------------------------
Done == fill.left = {} /\ \A ex \in Directions : sender[ex].pc = "done"

Next ==
    \/ DeleteGuards
    \/ \E ex \in sendMask :
          \/ BeginChunk(ex) \/ PublishSizes(ex) \/ SendAgain(ex)
          \/ InsertFrame(ex) \/ ReceiveAgain(ex)
          \/ \E kind \in Kinds : Send(ex, kind) \/ Receive(ex, kind)
    \/ \E c \in AllGuard : Reserve(c) \/ Repair(c) \/ CopyFrame(c)
    \/ LinkFrame \/ FillBorder

\* Device, MPI and the control context go on while there is something to do.
Spec == Init /\ [][Next]_vars /\ WF_vars(Next)

-----------------------------------------------------------------------------
\* When the kernel has ended, the entries of the index tile the stack up to its size,
\* which is at most the capacity: the particles of concurrent blocks do not overlap, and
\* nothing that is not a particle is sent.  The index has room for its entries.
StackTiles ==
    \A ex \in sendMask : sender[ex].pc \in {"send", "sent"} =>
        LET s == stack[ex]
            At(e) == e.start .. e.start + e.count - 1
        IN  /\ sender[ex].size = s.count /\ s.count <= max /\ Len(s.index) <= max
            /\ UNION {At(s.index[i]) : i \in DOMAIN s.index} = 0 .. s.count - 1
            /\ \A i, j \in DOMAIN s.index : i # j => At(s.index[i]) \cap At(s.index[j]) = {}

\* The particles and the index a receiver has of one chunk belong together, also when
\* the sender is a chunk ahead: each entry's places are in the message.
ChunksPair ==
    \A ex \in sendMask : receiver[ex].pc = "insert" =>
        LET got == receiver[ex].got
        IN  \A i \in DOMAIN got["index"] :
               LET e == got["index"][i]
               IN  /\ e.start + e.count <= Len(got["frames"])
                   /\ \A j \in 1 .. e.count : extend(e.cell, getMirroredExchangeType(ex), Desc.grid, Desc.guard)
                                                 = origin[got["frames"][e.start + j].who]

\* A chunk leaves and arrives whole, although concurrent blocks fill it and two messages
\* carry it.
ChunksExact == StackTiles /\ ChunksPair

\* After the communication every particle of a guard is in the border supercell of the
\* neighbour that lies at its place (or deleted, without an exchange), once; the lists are
\* packed and whole, the guard is empty, and no message is left over.
BorderExact ==
    Done =>
        /\ wellFormed(box)
        /\ \A c \in Cells \ AllGuard :
              /\ content(box, c) = {p \in DOMAIN origin : origin[p] = c}
              /\ Cardinality(places(box, c)) = Cardinality(content(box, c))
              /\ packed(box, c)
        /\ \A c \in AllGuard : box.first[c] = NullFrame /\ box.num[c] = 0
        /\ \A ex \in sendMask : receiver[ex].pc = "done" /\ \A k \in Kinds : msgs[ex][k] = <<>>

\* Every communication ends: sender and receiver agree on the number of chunks.
CommunicationEnds == <>Done
=============================================================================
