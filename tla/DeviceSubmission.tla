-------------------------- MODULE DeviceSubmission --------------------------
(***************************************************************************)
(* caravan::alpaka: how a composed graph of submissions is lowered to      *)
(* stages with dependencies, bound to device queues, submitted, observed   *)
(* by the completion thread and delivered (alpaka/submission.hpp,          *)
(* completion.hpp, event_pool.hpp, queue/shared_queue_pool.hpp,            *)
(* queue/queue_pool.hpp).                                                  *)
(*                                                                         *)
(* Threads: one submitting thread per graph, or the completion thread when *)
(* a receiver starts the graph; the completion thread; and the device,     *)
(* which executes each queue in order.  External: queues and events.  An   *)
(* event counts its records: a wait command waits for the record that was  *)
(* the latest when it was enqueued.                                        *)
(***************************************************************************)
EXTENDS Integers, Sequences, FiniteSets, FiniteSetsExt, SequencesExt

CONSTANTS
    Graphs,     \* connected operations
    SendersOf,  \* the sender expressions each graph may be connected from
    Parent,     \* the graph whose receiver starts this one, or None
    QueueCount, \* queues of the pool
    MaxQueues,  \* bound: queues a QueuePool grows to
    Borrowed,   \* queues the caller supplies itself
    None

ASSUME DeviceConstants ==
    /\ IsFiniteSet(Graphs) /\ None \notin Graphs
    /\ Parent \in [Graphs -> Graphs \cup {None}]
    /\ QueueCount \in Nat \ {0} /\ MaxQueues \in Nat /\ MaxQueues >= QueueCount
    /\ Borrowed \in Nat

VARIABLES
    pool,      \* "shared" (SharedQueuePool) or "leased" (QueuePool)
    sender,    \* the expression a graph was connected from
    phase,     \* where a graph is in its life
    bound,     \* Binding: the queue of each logical lane
    m_next,    \* SharedQueuePool::m_next
    holder,    \* the graph whose submission holds each queue mutex
    stage,     \* stages submitted so far
    fence,     \* CompletionFence leases: the event of each fence
    free,      \* EventPool::m_free
    made,      \* events the pool has created
    queue,     \* commands not yet executed
    recorded,  \* records of each event that were enqueued
    reached,   \* records of each event that were executed
    executed,  \* stages the device has executed
    posted,    \* CompletionThread: m_head .. m_tail
    pending,   \* ... the tasks of the current scan
    deferred,  \* ... the tasks this scan found unfinished
    worker,    \* where the completion thread is
    runner,    \* the graph whose start() the completion thread is in
    notifying, \* threads between post's unlock and its notify_one
    stopped    \* CompletionThread::m_stopped

Queues == 0 .. MaxQueues + Borrowed - 1

eventVars  == <<free, made>>
deviceVars == <<queue, recorded, reached, executed>>
workerVars == <<posted, pending, deferred, worker>>
vars == <<pool, sender, phase, bound, m_next, holder, stage, fence, free, made, queue,
          recorded, reached, executed, posted, pending, deferred, worker, runner, notifying,
          stopped>>

-----------------------------------------------------------------------------
(* Sender expressions.  pred is SubmissionDependencies::predecessors,      *)
(* lanes and count are m_lanes and m_laneCount, of a sender over the       *)
(* caller's queues own is m_queues.  before is what the expression means,  *)
(* independently of pred: stage pair[1] is to be over when stage pair[2]   *)
(* runs.                                                                   *)

single == [pred |-> <<{}>>, lanes |-> <<0>>, count |-> 1, own |-> <<>>, before |-> {}]

\* submit(queue, ...): a stage on a queue of the caller.
submit(q) == [single EXCEPT !.own = <<q>>]

explicit(s) == s.own # <<>>

\* SubmitSender::compose: every stage keeps the queue it was given.
composeQueues(left, right) == left.own \o right.own

\* composeDependencies: the right side's stages without predecessor wait for the
\* left side's stages without successor.
composeDependencies(ordered, left, right) ==
    LET n == Len(left)
        tails == {j \in 1 .. n : \A i \in 1 .. n : j \notin left[i]}
    IN  left \o [i \in DOMAIN right |->
                    {n + j : j \in right[i]} \cup (IF ordered /\ right[i] = {} THEN tails ELSE {})]

\* PoolSubmitSender::compose: sequence keeps the lanes, whenAll takes fresh ones.
compose(ordered, left, right) ==
    LET n == Len(left.pred) IN
    [pred   |-> composeDependencies(ordered, left.pred, right.pred),
     lanes  |-> left.lanes \o [i \in DOMAIN right.lanes |->
                                  right.lanes[i] + (IF ordered THEN 0 ELSE left.count)],
     count  |-> IF ~ordered THEN left.count + right.count
                ELSE IF left.count < right.count THEN right.count ELSE left.count,
     own    |-> composeQueues(left, right),
     before |-> left.before \cup {<<n + e[1], n + e[2]>> : e \in right.before}
                \cup (IF ordered THEN (1 .. n) \X (n + 1 .. n + Len(right.pred)) ELSE {})]

sequence(left, right) == compose(TRUE, left, right)
whenAll(left, right)  == compose(FALSE, left, right)

\* addGraphDependencies: for an edge from node a to node b, the roots of b wait for
\* the tails of a.  range[a] is the set of stages of node a.
addGraphDependencies(pred, range, edges) ==
    LET isRoot(i, b) == i \in range[b] /\ pred[i] \cap range[b] = {}
        isTail(t, a) == t \in range[a] /\ \A i \in range[a] : t \notin pred[i]
    IN  [i \in DOMAIN pred |->
            pred[i] \cup {t \in DOMAIN pred : \E e \in edges : isRoot(i, e[2]) /\ isTail(t, e[1])}]

\* The lowering of a graph of nodes: merge, then the dependencies of its topology.
graph(nodes, edges) ==
    LET merged == FoldLeft(whenAll, nodes[1], Tail(nodes))
        offset(a) == FoldLeft(LAMBDA n, s : n + Len(s.pred), 0, SubSeq(nodes, 1, a - 1))
        range == [a \in DOMAIN nodes |-> offset(a) + 1 .. offset(a) + Len(nodes[a].pred)]
    IN  [merged EXCEPT !.pred = addGraphDependencies(@, range, edges),
                       !.before = @ \cup UNION {range[e[1]] \X range[e[2]] : e \in edges}]

\* Every set of stages that holds the predecessors of its stages holds what is before them.
ordersBefore(pred, before) ==
    \A S \in SUBSET (DOMAIN pred) :
        (\A i \in S : pred[i] \subseteq S) => \A e \in before : e[2] \in S => e[1] \in S

\* What the lowering of an expression is: every stage has a lane, or a queue of the caller,
\* and comes after its predecessors, and these imply the order the expression means.
WellFormed(s) ==
    LET n == Len(s.pred) IN
    /\ n > 0 /\ s.pred \in Seq(SUBSET (1 .. n))
    /\ \A i \in 1 .. n : \A j \in s.pred[i] : j < i
    /\ s.count \in Nat \ {0} /\ s.lanes \in [1 .. n -> 0 .. s.count - 1]
    /\ s.own = <<>> \/ s.own \in [1 .. n -> MaxQueues .. MaxQueues + Borrowed - 1]
    /\ s.before \subseteq (1 .. n) \X (1 .. n) /\ ordersBefore(s.pred, s.before)

ASSUME SendersWellFormed == \A g \in Graphs : \A s \in SendersOf[g] : WellFormed(s)

-----------------------------------------------------------------------------
(* A connected operation.                                                  *)

Stages(g) == DOMAIN sender[g].pred
queueOf(s, b, i) == IF explicit(s) THEN s.own[i] ELSE b[s.lanes[i]]

\* Mutant: stages share a fence across queues.
fenceIndices_AnyQueue(s, b) ==
    LET n == Len(s.pred)
        outgoing(i) == Cardinality({j \in 1 .. n : i \in s.pred[j]})
        shares(i) == /\ i < n /\ i \in s.pred[i + 1]
                     /\ outgoing(i) = 1 /\ Cardinality(s.pred[i + 1]) = 1
    IN  [i \in 1 .. n |-> CHOOSE k \in i .. n : ~shares(k) /\ \A j \in i .. k - 1 : shares(j)]

\* SubmitOperation's constructor: unbranched adjacent stages on one queue share the
\* fence of the last of them.
fenceIndices(s, b) ==
    LET n == Len(s.pred)
        outgoing(i) == Cardinality({j \in 1 .. n : i \in s.pred[j]})
        shares(i) == /\ i < n /\ queueOf(s, b, i) = queueOf(s, b, i + 1) /\ i \in s.pred[i + 1]
                     /\ outgoing(i) = 1 /\ Cardinality(s.pred[i + 1]) = 1
    IN  [i \in 1 .. n |-> CHOOSE k \in i .. n : ~shares(k) /\ \A j \in i .. k - 1 : shares(j)]

Init ==
    /\ pool \in {"shared", "leased"}
    /\ sender = [g \in Graphs |-> single]
    /\ phase = [g \in Graphs |-> "new"]
    /\ bound = [g \in Graphs |-> <<>>]
    /\ m_next = 0
    /\ holder = [q \in Queues |-> None]
    /\ stage = [g \in Graphs |-> 0]
    /\ fence = [g \in Graphs |-> <<>>]
    /\ free = <<>> /\ made = 0
    /\ queue = [q \in Queues |-> <<>>]
    /\ recorded = <<>> /\ reached = <<>> /\ executed = {}
    /\ posted = <<>> /\ pending = <<>> /\ deferred = <<>>
    /\ worker = "lock" /\ runner = None /\ notifying = {} /\ stopped = FALSE

-----------------------------------------------------------------------------
(* Connecting: bind the lanes, lease an event for every fence.             *)

live(g) == phase[g] \notin {"new", "done", "gone"}

\* SharedQueuePool::acquire with Binding::operator[]: lanes go round the queues.
acquireShared(count) == [lane \in 0 .. count - 1 |-> (m_next + lane) % QueueCount]

\* QueuePool::acquire: the first queues nobody leases, then new ones.
acquireLeased(count) ==
    LET leased == UNION {Range(bound[h]) : h \in {h \in Graphs : live(h)}}
    IN  [lane \in 0 .. count - 1 |->
            CHOOSE q \in 0 .. MaxQueues + count : /\ q \notin leased
                               /\ Cardinality((0 .. q - 1) \ leased) = lane]

\* CompletionFence's lease: a submission over the caller's queues has no EventPool, so
\* that it makes its events and none of them returns.
leasable(s, events) == IF explicit(s) THEN <<>> ELSE events

\* EventPool::acquire, once per fence from the last stage to the first: recycled
\* events in the order of the free list, then new ones.
acquireEvents(leased, indices) ==
    LET supply == leased \o [k \in 1 .. Cardinality(indices) |-> made + k]
    IN  [i \in indices |-> supply[Cardinality({j \in indices : j >= i})]]

\* The events of a graph's fences, in the order of the fences.
eventsOf(g) ==
    LET indices == DOMAIN fence[g]
    IN  [k \in 1 .. Cardinality(indices) |->
            fence[g][CHOOSE i \in indices : Cardinality({j \in indices : j <= i}) = k]]

\* The queues of the logical lanes; the caller's queues are borrowed, never bound.
binding(s) ==
    CASE explicit(s) -> <<>>
      [] ~explicit(s) /\ pool = "shared" -> acquireShared(s.count)
      [] ~explicit(s) /\ pool = "leased" -> acquireLeased(s.count)

\* PooledSubmitOperation's constructor (connect), or that of a SubmitOperation alone.
Connect(g) ==
    /\ phase[g] = "new" /\ (~stopped \/ runner = g)
    /\ \E s \in SendersOf[g] :
        LET b == binding(s)
            fences == Range(fenceIndices(s, b))
            events == acquireEvents(leasable(s, free), fences)
            recycled == Min({Len(leasable(s, free)), Cardinality(fences)})
            fresh == Cardinality(fences) - recycled
        IN  /\ Range(b) \subseteq 0 .. MaxQueues - 1
            /\ sender' = [sender EXCEPT ![g] = s]
            /\ bound' = [bound EXCEPT ![g] = b]
            /\ m_next' = IF pool = "shared" /\ ~explicit(s) THEN (m_next + (s.count % QueueCount)) % QueueCount ELSE m_next
            /\ fence' = [fence EXCEPT ![g] = events]
            /\ free' = SubSeq(free, recycled + 1, Len(free))
            /\ made' = made + fresh
            /\ recorded' = recorded \o [k \in 1 .. fresh |-> 0]
            /\ reached' = reached \o [k \in 1 .. fresh |-> 0]
    /\ phase' = [phase EXCEPT ![g] = "bound"]
    /\ UNCHANGED <<pool, holder, stage, queue, executed, workerVars, runner, notifying, stopped>>

\* The destruction of an operation that was never started: ~Lease of its events, last
\* fence first, and of its queues.
Discard(g) ==
    /\ phase[g] = "bound" /\ Parent[g] = None
    /\ phase' = [phase EXCEPT ![g] = "gone"]
    /\ free' = leasable(sender[g], eventsOf(g)) \o free
    /\ fence' = [fence EXCEPT ![g] = <<>>] /\ bound' = [bound EXCEPT ![g] = <<>>]
    /\ UNCHANGED <<pool, sender, m_next, holder, stage, made, deviceVars, workerVars, runner,
                   notifying, stopped>>

-----------------------------------------------------------------------------
(* Starting: lock, submit, unlock, publish.                                *)

\* The queues a graph uses, Binding::start's distinct.
distinct(g) == {queueOf(sender[g], bound[g], i) : i \in Stages(g)}

held(g) == {q \in Queues : holder[q] = g}

\* PooledSubmitOperation::start: by the application, or by the receiver of Parent[g]
\* on the completion thread.  The Lease of a QueuePool locks nothing, and nobody locks the
\* caller's queues.
Start(g) ==
    /\ phase[g] = "bound"
    /\ IF Parent[g] = None THEN ~stopped ELSE runner = g
    /\ phase' = [phase EXCEPT ![g] = IF pool = "shared" /\ ~explicit(sender[g]) THEN "locking" ELSE "submit"]
    /\ UNCHANGED <<pool, sender, bound, m_next, holder, stage, fence, eventVars, deviceVars,
                   workerVars, runner, notifying, stopped>>

\* Mutant: the mutexes are taken in the order of the stages' lanes.
nextLock_Unsorted(g) ==
    queueOf(sender[g], bound[g],
            CHOOSE i \in Stages(g) :
                /\ queueOf(sender[g], bound[g], i) \notin held(g)
                /\ \A j \in 1 .. i - 1 : queueOf(sender[g], bound[g], j) \in held(g))

\* The mutex Binding::start takes next: distinct is sorted.
nextLock(g) == Min(distinct(g) \ held(g))

LockQueue(g) ==
    /\ phase[g] = "locking"
    /\ holder[nextLock(g)] = None
    /\ holder' = [holder EXCEPT ![nextLock(g)] = g]
    /\ phase' = [phase EXCEPT ![g] = IF {nextLock(g)} = distinct(g) \ held(g)
                                     THEN "submit" ELSE "locking"]
    /\ UNCHANGED <<pool, sender, bound, m_next, stage, fence, eventVars, deviceVars, workerVars,
                   runner, notifying, stopped>>

\* The predecessors whose fence submitStage makes the queue of stage i wait on.
waitsFor(g, i) ==
    {j \in sender[g].pred[i] : queueOf(sender[g], bound[g], j) # queueOf(sender[g], bound[g], i)}

\* submitStage: waitOn for predecessors on other queues, the task, the fence if it
\* is this stage's own.
SubmitStage(g) ==
    LET i == stage[g] + 1
        q == queueOf(sender[g], bound[g], i)
        index == fenceIndices(sender[g], bound[g])
        wait(j) == LET e == fence[g][index[j]]
                   IN  [kind |-> "wait", graph |-> g, event |-> e, upto |-> recorded[e]]
        waits == SetToSeq({wait(j) : j \in waitsFor(g, i)})
        task == <<[kind |-> "task", graph |-> g, stage |-> i]>>
        own == index[i] = i
        record == IF own THEN <<[kind |-> "record", graph |-> g, event |-> fence[g][i]]>> ELSE <<>>
    IN  /\ phase[g] = "submit"
        /\ queue' = [queue EXCEPT ![q] = @ \o waits \o task \o record]
        /\ recorded' = IF own THEN [recorded EXCEPT ![fence[g][i]] = @ + 1] ELSE recorded
        /\ stage' = [stage EXCEPT ![g] = i]
        /\ phase' = [phase EXCEPT ![g] = IF i < Len(sender[g].pred) THEN "submit"
                                         ELSE IF held(g) # {} THEN "unlock" ELSE "publish"]
        /\ UNCHANGED <<pool, sender, bound, m_next, holder, fence, eventVars, reached, executed,
                       workerVars, runner, notifying, stopped>>

\* The mutexes are released from the last to the first.
UnlockQueue(g) ==
    /\ phase[g] = "unlock"
    /\ holder' = [holder EXCEPT ![Max(held(g))] = None]
    /\ phase' = [phase EXCEPT ![g] = IF Cardinality(held(g)) = 1 THEN "publish" ELSE "unlock"]
    /\ UNCHANGED <<pool, sender, bound, m_next, stage, fence, eventVars, deviceVars, workerVars,
                   runner, notifying, stopped>>

\* publish and CompletionThread::post up to the unlock of m_mutex; the completion
\* thread's own notify_one wakes nobody.
Publish(g) ==
    /\ phase[g] = "publish"
    /\ posted' = Append(posted, g)
    /\ phase' = [phase EXCEPT ![g] = "posted"]
    /\ IF runner = g THEN runner' = None /\ UNCHANGED notifying
                     ELSE notifying' = notifying \cup {g} /\ UNCHANGED runner
    /\ UNCHANGED <<pool, sender, bound, m_next, holder, stage, fence, eventVars, deviceVars, pending,
                   deferred, worker, stopped>>

\* post's and the destructor's m_ready.notify_one().
Notify(t) ==
    /\ t \in notifying
    /\ notifying' = notifying \ {t}
    /\ worker' = IF worker = "asleep" THEN "lock" ELSE worker
    /\ UNCHANGED <<pool, sender, phase, bound, m_next, holder, stage, fence, eventVars, deviceVars,
                   posted, pending, deferred, runner, stopped>>

-----------------------------------------------------------------------------
(* The device.                                                             *)

\* External: a queue executes its commands in order, a wait command once the record
\* it is to wait for has been executed.
Execute(q) ==
    /\ queue[q] # <<>>
    /\ queue' = [queue EXCEPT ![q] = Tail(@)]
    /\ LET c == Head(queue[q]) IN
        \/ /\ c.kind = "task"
           /\ executed' = executed \cup {<<c.graph, c.stage>>} /\ UNCHANGED reached
        \/ /\ c.kind = "wait" /\ reached[c.event] >= c.upto
           /\ UNCHANGED <<reached, executed>>
        \/ /\ c.kind = "record"
           /\ reached' = [reached EXCEPT ![c.event] = @ + 1] /\ UNCHANGED executed
    /\ UNCHANGED <<pool, sender, phase, bound, m_next, holder, stage, fence, eventVars, recorded,
                   workerVars, runner, notifying, stopped>>

-----------------------------------------------------------------------------
(* The completion thread.                                                  *)

\* run's early return.
mayLeave == pending = <<>> /\ posted = <<>> /\ stopped

\* run under m_mutex: wait for a task or for the stop, take what was posted, in front
\* of what is pending.  The bounded spin and the timed wait change no state.
Take ==
    /\ worker = "lock"
    /\ pending' = posted \o pending /\ posted' = <<>>
    /\ worker' = CASE mayLeave -> "gone"
                   [] pending' # <<>> -> "scan"
                   [] OTHER -> "asleep"
    /\ UNCHANGED <<pool, sender, phase, bound, m_next, holder, stage, fence, eventVars, deviceVars,
                   deferred, runner, notifying, stopped>>

\* Mutant: one complete fence is enough.
poll_Any(g) == \E i \in DOMAIN fence[g] : reached[fence[g][i]] = recorded[fence[g][i]]

\* SubmitOperation::poll: every fence is complete.
poll(g) == \A i \in DOMAIN fence[g] : reached[fence[g][i]] = recorded[fence[g][i]]

\* poll is true: the events return, first fence first, then Receiver::set_value
\* returns the binding, and the user's receiver starts what hangs on it.
Deliver ==
    /\ worker = "scan" /\ runner = None /\ pending # <<>>
    /\ LET g == Head(pending) IN
        /\ poll(g)
        /\ free' = leasable(sender[g], Reverse(eventsOf(g))) \o free
        /\ fence' = [fence EXCEPT ![g] = <<>>] /\ bound' = [bound EXCEPT ![g] = <<>>]
        /\ phase' = [phase EXCEPT ![g] = "done"]
        /\ \/ \E c \in Graphs : Parent[c] = g /\ runner' = c
           \/ (\A c \in Graphs : Parent[c] # g) /\ runner' = None
    /\ pending' = Tail(pending)
    /\ UNCHANGED <<pool, sender, m_next, holder, stage, made, deviceVars, posted, deferred, worker,
                   notifying, stopped>>

\* poll is false: the task waits for the next scan.
Defer ==
    /\ worker = "scan" /\ runner = None /\ pending # <<>>
    /\ ~poll(Head(pending))
    /\ deferred' = Append(deferred, Head(pending)) /\ pending' = Tail(pending)
    /\ UNCHANGED <<pool, sender, phase, bound, m_next, holder, stage, fence, eventVars, deviceVars,
                   posted, worker, runner, notifying, stopped>>

\* The end of a scan.
Rescan ==
    /\ worker = "scan" /\ runner = None /\ pending = <<>>
    /\ pending' = deferred /\ deferred' = <<>> /\ worker' = "lock"
    /\ UNCHANGED <<pool, sender, phase, bound, m_next, holder, stage, fence, eventVars, deviceVars,
                   posted, runner, notifying, stopped>>

\* ~CompletionThread, a static destructor: no application thread is inside start() or post().
Stop ==
    /\ ~stopped /\ notifying = {}
    /\ \A g \in Graphs : phase[g] \in {"locking", "submit", "unlock", "publish"} => runner = g
    /\ stopped' = TRUE /\ notifying' = {"destructor"}
    /\ UNCHANGED <<pool, sender, phase, bound, m_next, holder, stage, fence, eventVars, deviceVars,
                   workerVars, runner>>

Submission(g) == LockQueue(g) \/ SubmitStage(g) \/ UnlockQueue(g) \/ Publish(g)
Completion == \/ Take \/ Deliver \/ Defer \/ Rescan
              \/ \E g \in Graphs : runner = g /\ (Connect(g) \/ Start(g))

Next ==
    \/ \E g \in Graphs : Connect(g) \/ Discard(g) \/ Start(g) \/ Submission(g)
    \/ \E t \in Graphs \cup {"destructor"} : Notify(t)
    \/ \E q \in Queues : Execute(q)
    \/ Take \/ Deliver \/ Defer \/ Rescan \/ Stop

\* Some thread inside start(), post() or the destructor goes on, some queue of the
\* device works off a command, and the completion thread is scheduled.  Only that
\* thread can loop, so more fairness would not tell more.  Nobody needs to start a
\* graph.
Fairness ==
    /\ WF_vars(\E g \in Graphs : Submission(g))
    /\ WF_vars(\E t \in Graphs \cup {"destructor"} : Notify(t))
    /\ WF_vars(\E q \in Queues : Execute(q))
    /\ WF_vars(Completion)

Spec == Init /\ [][Next]_vars /\ Fairness

-----------------------------------------------------------------------------
(* Properties.                                                             *)

\* Every variable has its type: the code's state is well formed.
TypeOK ==
    /\ pool \in {"shared", "leased"} /\ m_next \in 0 .. QueueCount - 1
    /\ phase \in [Graphs -> {"new", "bound", "locking", "submit", "unlock", "publish", "posted",
                            "done", "gone"}]
    /\ \A g \in Graphs : /\ stage[g] \in 0 .. Len(sender[g].pred)
                         /\ live(g) => Range(bound[g]) \subseteq
                                IF pool = "shared" THEN 0 .. QueueCount - 1 ELSE 0 .. MaxQueues - 1
                         /\ Range(fence[g]) \subseteq 1 .. made
    /\ holder \in [Queues -> Graphs \cup {None}]
    /\ Range(free) \subseteq 1 .. made /\ Len(recorded) = made /\ Len(reached) = made
    /\ \A e \in 1 .. made : reached[e] <= recorded[e]
    /\ Range(posted \o pending \o deferred) \subseteq Graphs
    /\ worker \in {"lock", "asleep", "scan", "gone"} /\ runner \in Graphs \cup {None}

\* SubmissionDependencies, fence sharing and submitStage's waits together keep the
\* order the sender expression means: the device never executes a stage before one
\* that sequence or a graph edge puts in front of it, whichever queues the pool bound
\* them to ("sequence uses FIFO/events; whenAll preserves independent branches").
StageOrder ==
    \A g \in Graphs : \A p \in sender[g].before :
        <<g, p[2]>> \in executed => <<g, p[1]>> \in executed

\* SubmitOperation::poll only delivers a quiescent graph: every stage was executed and
\* no queue still holds a command of it, although unbranched stages have no fence of
\* their own ("polls all recorded fences before terminal completion and reclamation").
QuiescentOnDelivery ==
    \A g \in Graphs : phase[g] = "done" =>
        /\ \A i \in Stages(g) : <<g, i>> \in executed
        /\ \A q \in Queues : \A c \in Range(queue[q]) : c.graph # g

\* EventPool recycles an event only when no queue holds a wait or a record for it any
\* more, and never leases one twice: a recycled event whose old record is
\* still outstanding would report the new graph complete too early.
EventsExclusive ==
    /\ \A q \in Queues : \A c \in Range(queue[q]) :
          c.kind # "task" => c.event \in Range(fence[c.graph])
    /\ \A g, h \in Graphs : g # h => Range(fence[g]) \cap Range(fence[h]) = {}
    /\ \A g \in Graphs : IsInjective(fence[g]) /\ Range(fence[g]) \cap Range(free) = {}

\* "graphs sharing any queue still serialize": the commands of two graphs never
\* alternate on a queue, be it by Binding::start's mutexes or by the exclusive lease.
SubmissionsSerialize ==
    \A q \in Queues : \A i, j, k \in DOMAIN queue[q] :
        i < j /\ j < k /\ queue[q][i].graph = queue[q][k].graph
            => queue[q][j].graph = queue[q][i].graph

\* The device executes what the expressions mean, on queues several graphs and threads
\* share.
DeviceOrder == StageOrder /\ SubmissionsSerialize

\* CompletionThread::run returns only when every published graph was delivered, those
\* that receivers started after the stop included.
StopDrains ==
    worker = "gone" =>
        \A g \in Graphs : phase[g] \in {"new", "bound", "done", "gone"}

\* A graph is delivered when the device is done with it, its events are recycled only
\* then, and a stopped completion thread has left none behind.
DeliveredQuiescent == QuiescentOnDelivery /\ EventsExclusive /\ StopDrains

\* No graph is under way between its start and its delivery, and ~CompletionThread, once
\* called, has returned.
Settled ==
    /\ \A g \in Graphs : phase[g] \in {"new", "bound", "done", "gone"}
    /\ stopped => worker = "gone"

\* Every graph once started is delivered and ~CompletionThread returns, again and again,
\* since phases only go forward: the sorted mutexes never leave submitters waiting for one
\* another, no device wait waits for a record behind it, and the completion thread never
\* sleeps through a post or the stop.
SubmissionsEnd == []<>Settled
=============================================================================
