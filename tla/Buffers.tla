------------------------------ MODULE Buffers ------------------------------
(***************************************************************************)
(* A HostDeviceBuffer: two buffers that own their memory or view that of   *)
(* others, their sizes, and the lazy copies and fills of one queue         *)
(* (memory/buffers/, memory/boxes/).                                       *)
(*                                                                         *)
(* An element takes one unit of memory; its value says where it was        *)
(* written first.  A sender captures when it is made,  reads sizes when it  *)
(* is submitted and touches memory when the queue gets to it.              *)
(***************************************************************************)
EXTENDS Lockstep

CONSTANTS
    Shapes,        \* [extent, whole, atHost, atDevice, kind, sizeOnDevice]
    SizesOf(_),    \* the sizes a buffer of an extent is set to
    ChunkSize,     \* xChunkSize
    MaxOperations  \* senders, fills and resets of one behaviour

VARIABLES
    shape,    \* how the HostDeviceBuffer was constructed
    memory,   \* by side, the allocation its view points into
    size,     \* by side, currentSizeBufferHost
    onDevice, \* currentSizeBufferDevice
    resized,  \* the device's size was set while a copy of it was under way
    arrived,  \* elements of the last hostToDevice that has run
    senders,  \* senders made and not started
    tasks,    \* the native queue
    issued,   \* senders, fills and resets so far
    alive,    \* the HostDeviceBuffer exists
    heap      \* allocations that exist

bufferVars == <<shape, memory, size, onDevice, resized, arrived, senders, tasks, issued, alive, heap>>

Sides == {"host", "device"}

Unset == -1

-----------------------------------------------------------------------------
(* Alpaka's views, whose vectors run the other way (revert), and the boxes *)
(* over them.                                                              *)

view(data, pitches) == [data |-> data, pitches |-> revert(pitches)]

\* alpaka's getSubView: the same pitches from another first element.
getSubView(v, offset) ==
    LET by[d \in 0 .. Len(offset)] == IF d = 0 THEN v.data ELSE by[d - 1] + revert(offset)[d] * v.pitches[d]
    IN  [v EXCEPT !.data = by[Len(offset)]]

shrink(v, n, startIdx) == [d \in 1 .. n |-> v[((startIdx + d - 1) % Len(v)) + 1]]

\* A PitchedBox needs no pitch of x.
getDataBox(v) == [m_ptr |-> v.data, pitch |-> shrink(revert(v.pitches), Len(v.pitches) - 1, 1)]

ptr(box, idx) == placeIn(box, idx)

shift(box, offset) == [box EXCEPT !.m_ptr = ptr(box, offset)]

\* DataBoxDim1Access: the n-th element of a box that was made for an extent.
dim1Access(box, originalSize, n) == ptr(box, mapToND(originalSize, n))

-----------------------------------------------------------------------------
(* Buffer, HostBuffer, DeviceBuffer.                                       *)

capacity == productOfComponents(shape.extent)

\* Memory of one's own: each pitch is the one before times the extent.
allocated(extent) ==
    LET pitches[d \in dims(extent)] == IF d = 1 THEN 1 ELSE pitches[d - 1] * extent[d - 1]
    IN  view(0, [d \in dims(extent) |-> pitches[d]])

\* HostBuffer says of every view that it has no gaps.
HostBuffer ==
    [view |-> IF shape.kind = "views" THEN getSubView(allocated(shape.whole), shape.atHost) ELSE allocated(shape.extent),
     contiguous |-> TRUE]

\* HostDeviceBuffer's constructors: no other buffer, another device buffer from its origin,
\* a part of both.
deviceView ==
    IF shape.kind = "owned" THEN allocated(shape.extent)
    ELSE getSubView(allocated(shape.whole), IF shape.kind = "views" THEN shape.atDevice ELSE same(shape.extent, 0))

\* Mutant: a view counts as contiguous, as on the host.
DeviceBuffer_Flat == [view |-> deviceView, contiguous |-> TRUE]

DeviceBuffer == [view |-> deviceView, contiguous |-> shape.kind = "owned" \/ Len(shape.extent) = 1]

bufferOf(side) == IF side = "host" THEN HostBuffer ELSE DeviceBuffer

boxOf(side) == getDataBox(bufferOf(side).view)

unitsOf(side) ==
    productOfComponents(IF shape.kind = "views" \/ (side = "device" /\ shape.kind # "owned") THEN shape.whole ELSE shape.extent)

\* The elements of a buffer, and the places of the n first ones.
element(side, n) == dim1Access(boxOf(side), shape.extent, n)

placesOf(side, n) == {element(side, k) : k \in 0 .. n - 1}

\* Rows, and planes, are counted whole.
sizeND(n) ==
    LET full(d) == weight(shape.extent, d)
    IN  [d \in dims(shape.extent) |->
            IF d = 1 /\ (Len(shape.extent) = 1 \/ n <= shape.extent[1]) THEN n
            ELSE IF n <= full(d) THEN 1
            ELSE IF d < Len(shape.extent) /\ n > full(d + 1) THEN shape.extent[d]
            ELSE (n + full(d) - 1) \div full(d)]

-----------------------------------------------------------------------------
BufferInit ==
    /\ shape \in Shapes
    /\ memory = [side \in Sides |-> [u \in 0 .. unitsOf(side) - 1 |-> <<side, u>>]]
    /\ size = [side \in Sides |-> capacity]
    /\ onDevice = Unset /\ resized = FALSE /\ arrived = Unset /\ senders = {} /\ tasks = <<>> /\ issued = 0
    /\ alive = TRUE /\ heap = Sides

\* At any time, also between the submission of a copy and its run.
setSizeHostSide(side, n) ==
    /\ alive /\ issued < MaxOperations /\ n # size[side]
    /\ size' = [size EXCEPT ![side] = n]
    /\ resized' = (resized \/ (side = "device" /\ \E i \in DOMAIN tasks : tasks[i].kind = "size"))
    /\ UNCHANGED <<shape, memory, onDevice, arrived, senders, tasks, issued, alive, heap>>

written(mem, places, value) == [u \in DOMAIN mem |-> IF u \in places THEN value ELSE mem[u]]

Fill == <<"fill", 0>>

Zero == <<"zero", 0>>

\* HostBuffer::setValue: the elements up to the current size, at once.
hostSetValue ==
    /\ alive /\ tasks = <<>> /\ issued < MaxOperations /\ issued' = issued + 1
    /\ memory' = [memory EXCEPT !["host"] = written(@, placesOf("host", size["host"]), Fill)]
    /\ UNCHANGED <<shape, size, onDevice, resized, arrived, senders, tasks, alive, heap>>

\* HostBuffer::reset(false): all the memory from the view's first element where that is the
\* first of the allocation, otherwise element by element.
resetPlaces ==
    IF HostBuffer.view.data = 0 THEN 0 .. capacity - 1 ELSE placesOf("host", capacity)

reset ==
    /\ alive /\ tasks = <<>> /\ issued < MaxOperations /\ issued' = issued + 1
    /\ size' = [size EXCEPT !["host"] = capacity]
    /\ memory' = [memory EXCEPT !["host"] = written(@, resetPlaces, Zero)]
    /\ UNCHANGED <<shape, onDevice, resized, arrived, senders, tasks, alive, heap>>

-----------------------------------------------------------------------------
(* Senders.                                                                *)

Make(sender) ==
    /\ alive /\ issued < MaxOperations
    /\ issued' = issued + 1 /\ senders' = senders \cup {sender}
    /\ UNCHANGED <<shape, memory, size, onDevice, resized, arrived, tasks, alive, heap>>

\* getOwnedAlpakaView: the allocations a sender keeps.
getOwnedAlpakaView(sides) == sides

hostToDevice ==
    Make([id |-> issued, kind |-> "copy", from |-> "host", to |-> "device", area |-> <<>>,
          keeps |-> getOwnedAlpakaView(Sides)])

deviceToHost ==
    Make([id |-> issued, kind |-> "copy", from |-> "device", to |-> "host", area |-> <<>>,
          keeps |-> getOwnedAlpakaView(Sides)])

\* DeviceBuffer::setValue reads the size when the sender is made.
setValue ==
    Make([id |-> issued, kind |-> "fill", from |-> "device", to |-> "device", area |-> sizeND(size["device"]),
          keeps |-> getOwnedAlpakaView({"device"})])

task(s, kind, n) ==
    [id |-> s.id, kind |-> kind, size |-> n, area |-> s.area, from |-> s.from, to |-> s.to, keeps |-> s.keeps]

\* copyBuffer: the source's size becomes the destination's, and the device's copy of it is
\* renewed, before the elements are copied.
copyBuffer(s) ==
    LET n == size[s.from]
    IN  /\ size' = [size EXCEPT ![s.to] = n]
        /\ tasks' = tasks \o (IF s.to = "device" /\ shape.sizeOnDevice THEN <<task(s, "size", 1)>> ELSE <<>>)
                          \o <<task(s, "copy", n)>>
        /\ resized' = (resized /\ s.to # "device")

enqueueFill(s) ==
    /\ tasks' = IF productOfComponents(s.area) = 0 THEN tasks ELSE Append(tasks, task(s, "fill", 0))
    /\ UNCHANGED <<size, resized>>

\* What keeps an allocation: the buffer, senders and operations that have not completed.
kept(owner, waiting, queued) ==
    {side \in Sides : owner \/ (\E s \in waiting : side \in s.keeps) \/ (\E i \in DOMAIN queued : side \in queued[i].keeps)}

Submit(s) ==
    /\ s \in senders /\ senders' = senders \ {s}
    /\ (s.kind = "copy" /\ copyBuffer(s)) \/ (s.kind = "fill" /\ enqueueFill(s))
    /\ heap' = kept(alive, senders', tasks')
    /\ UNCHANGED <<shape, memory, onDevice, arrived, issued, alive>>

\* ~HostDeviceBuffer.
Destroy ==
    /\ alive /\ alive' = FALSE
    /\ heap' = kept(FALSE, senders, tasks)
    /\ UNCHANGED <<shape, memory, size, onDevice, resized, arrived, senders, tasks, issued>>

-----------------------------------------------------------------------------
(* The queue.                                                              *)

\* The smallest box of elements that holds the n first ones.
copyExtent(n) ==
    [d \in dims(shape.extent) |->
        LET full == weight(shape.extent, d)
            rest == (n + full - 1) \div full
        IN  IF d > 1 /\ rest = 0 THEN 1
            ELSE IF rest < shape.extent[d] \/ d = Len(shape.extent) THEN rest ELSE shape.extent[d]]

\* Pairs of places, the source's and the destination's, that a copy of n elements touches.
copied(t) ==
    LET src == bufferOf(t.from)
        dst == bufferOf(t.to)
    IN  IF src.contiguous /\ dst.contiguous
        THEN {<<src.view.data + k, dst.view.data + k>> : k \in 0 .. t.size - 1}
        ELSE {<<getSubView(src.view, idx).data, getSubView(dst.view, idx).data>> : idx \in Blocks(copyExtent(t.size))}

\* KernelSetValue: blocks of a chunk along x, of one element otherwise, each a lockstep loop.
filled(t) ==
    LET grid == [t.area EXCEPT ![1] = (@ + ChunkSize - 1) \div ChunkSize]
        workers == Min({ChunkSize, MaxWorkers})
        Indices == UNION {{i.dom : i \in Range(share(ChunkSize, workers, 1, w))} : w \in 0 .. workers - 1}
        idx(block, linearIdx) == [block EXCEPT ![1] = @ * ChunkSize + linearIdx]
        Written == {idx(b, i) : b \in Blocks(grid), i \in Indices}
    IN  {ptr(boxOf("device"), v) : v \in {w \in Written : w[1] < t.area[1]}}

placesWritten(t) == IF t.kind = "fill" THEN filled(t) ELSE {p[2] : p \in copied(t)}

memoryAfter(t) ==
    [memory EXCEPT ![t.to] =
        [u \in DOMAIN @ |->
            IF u \notin placesWritten(t) THEN @[u]
            ELSE IF t.kind = "fill" THEN Fill
            ELSE memory[t.from][(CHOOSE p \in copied(t) : p[2] = u)[1]]]]

\* The size is read from the storage the sender kept, when the queue gets to it.
RunTask ==
    /\ tasks # <<>>
    /\ LET t == Head(tasks)
       IN  /\ onDevice' = IF t.kind = "size" THEN size["device"] ELSE onDevice
           /\ arrived' = IF t.kind = "copy" /\ t.to = "device" THEN t.size ELSE arrived
           /\ memory' = IF t.kind = "size" THEN memory ELSE memoryAfter(t)
    /\ tasks' = Tail(tasks)
    /\ heap' = kept(alive, senders, tasks')
    /\ UNCHANGED <<shape, size, resized, senders, issued, alive>>

BufferNext ==
    \/ \E side \in Sides, n \in SizesOf(shape.extent) : setSizeHostSide(side, n)
    \/ hostSetValue \/ reset
    \/ hostToDevice \/ deviceToHost \/ setValue
    \/ \E s \in senders : Submit(s)
    \/ Destroy \/ RunTask

-----------------------------------------------------------------------------
\* Whatever parts of other buffers the two sides are, a copy under way brings every element
\* it was submitted for from its place on one side to its place on the other, and no copy or
\* fill writes outside the view: the rows of a pitched view are copied one by one.
CopiesExact ==
    \A i \in DOMAIN tasks :
        LET t == tasks[i]
        IN  t.kind # "size" =>
                /\ placesWritten(t) \subseteq placesOf(t.to, capacity)
                /\ t.kind = "copy" =>
                      \A k \in 0 .. t.size - 1 :
                          /\ <<element(t.from, k), element(t.to, k)>> \in copied(t)
                          /\ i = 1 => memoryAfter(t)[t.to][element(t.to, k)] = memory[t.from][element(t.from, k)]
                /\ t.kind = "fill" /\ i = 1 => \A u \in filled(t) : memoryAfter(t)["device"][u] = Fill

\* A fill covers the size the buffer had when its sender was made, and the extent of a copy
\* is the extent the buffer reports.
ExtentsAgree ==
    /\ \A n \in 0 .. capacity :
          /\ sizeND(n) = copyExtent(n)
          /\ placesOf("device", n) \subseteq {ptr(boxOf("device"), idx) : idx \in Blocks(sizeND(n))}
    /\ \A i \in DOMAIN tasks :
          tasks[i].kind = "fill" => filled(tasks[i]) = {ptr(boxOf("device"), idx) : idx \in Blocks(tasks[i].area)}

\* Memory the queue will touch exists, although the buffer may be gone.
NothingDangles == \A i \in DOMAIN tasks : {tasks[i].from, tasks[i].to} \subseteq heap

\* Once the queue is empty the size on the device is that of the elements last copied there,
\* although the copy of the size reads its source when the queue gets to it, unless the
\* caller set the size in between.
SizePublished == shape.sizeOnDevice /\ tasks = <<>> /\ ~resized => onDevice = arrived

BuffersExact == CopiesExact /\ ExtentsAgree /\ NothingDangles /\ SizePublished

\* reset(false) leaves alone what is not the view's ("we can not assume that that the
\* physical memory is contiguous", HostBuffer.hpp).
ResetStaysInside == resetPlaces \subseteq placesOf("host", capacity)

\* The size a kernel finds on the device is that of the elements copied before it, although
\* later copies are already submitted.
SizeMatchesData ==
    tasks # <<>> /\ Head(tasks).kind = "copy" /\ Head(tasks).to = "device" /\ shape.sizeOnDevice =>
        onDevice = Head(tasks).size
=============================================================================
