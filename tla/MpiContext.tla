---------------------------- MODULE MpiContext ----------------------------
(***************************************************************************)
(* caravan::MpiContext: the thread that owns MPI, the FIFO of submitted    *)
(* native operations, the per-communicator lanes of managed collectives,   *)
(* the table of active requests and the shutdown protocol                  *)
(* (mpi/context.cpp, mpi/context.hpp, mpi/native.hpp, mpi/collective.hpp,  *)
(* mpi/runtime.cpp).                                                       *)
(*                                                                         *)
(* Threads: the owner thread (variable owner), the main thread of          *)
(* MpiRuntime::runImpl (variable main) and one client thread per operation.*)
(* A step is one critical section of m_queueMutex, or owner-thread work no *)
(* other thread can observe.  MPI itself is external: a started request    *)
(* completes at some time (Arrive) and MPI_Testsome reports the ones that  *)
(* have.                                                                   *)
(***************************************************************************)
EXTENDS Integers, Sequences, FiniteSets

CONSTANTS
    Ops,        \* native operations
    Managed,    \* the ones started through a CollectiveLane
    Comms,      \* communicators with a lane
    CommOf,     \* the communicator of each managed operation
    NReq,       \* MPI requests in an operation's batch; 0 for an empty batch or an invocation
    BatchSize,  \* submissionBatchSize
    Drained,    \* the application joins its started collectives before it returns
    None        \* no operation

ASSUME MpiConstants ==
    /\ IsFiniteSet(Ops)
    /\ Managed \subseteq Ops
    /\ CommOf \in [Managed -> Comms]
    /\ NReq \in [Ops -> Nat]
    /\ BatchSize \in Nat \ {0}
    /\ Drained \in BOOLEAN
    /\ None \notin Ops /\ None \notin Ops \X Nat

VARIABLES
    queue,        \* m_queue
    outstanding,  \* m_outstanding
    accepting,    \* m_accepting
    stopping,     \* m_stopping
    finished,     \* m_finished
    first,        \* ManagedCollectiveLane::firstSequence
    entries,      \* ManagedCollectiveLane::entries; field op is the reserving operation
    ticket,       \* ManagedCollectiveTicket::sequence held by each managed operation
    token,        \* where each managed operation's token is
    requests,     \* m_requests, with None for MPI_REQUEST_NULL
    active,       \* m_active: group and index of each request
    remaining,    \* NativeGroup::remaining
    arrived,      \* requests MPI has completed
    place,        \* where each operation is in its life
    initiated,    \* operations in the order their native calls were made
    owner,        \* where the owner thread is
    cur,          \* the operation the owner thread is working on
    back,         \* where the owner returns after finishOperation
    batch,        \* iterations left in drainQueue / drainManagedCollectives
    pending,      \* indices MPI_Testsome reported, not yet retired
    main,         \* where the main thread is
    client,       \* client threads between an unlock and their notify_one
    terminated    \* std::terminate was called

queueVars == <<queue, outstanding>>
phaseVars == <<accepting, stopping, finished>>
laneVars  == <<first, entries>>
tokenVars == <<ticket, token>>
reqVars   == <<requests, active, remaining>>
ownerVars == <<owner, cur, back, batch, pending>>
vars == <<queue, outstanding, accepting, stopping, finished, first, entries, ticket, token,
          requests, active, remaining, arrived, place, initiated, owner, cur, back, batch,
          pending, main, client, terminated>>

Init ==
    /\ queue = <<>> /\ outstanding = 0
    /\ accepting = TRUE /\ stopping = FALSE /\ finished = FALSE
    /\ first = [c \in Comms |-> 0] /\ entries = [c \in Comms |-> <<>>]
    /\ ticket = [k \in Managed |-> 0] /\ token = [k \in Managed |-> "none"]
    /\ requests = <<>> /\ active = <<>>
    /\ remaining = [o \in Ops |-> 0] /\ arrived = {}
    /\ place = [o \in Ops |-> "new"] /\ initiated = <<>>
    /\ owner = "queue" /\ cur = None /\ back = "queue" /\ batch = BatchSize
    /\ pending = <<>>
    /\ main = "app" /\ client = {} /\ terminated = FALSE

-----------------------------------------------------------------------------
(* Building blocks.                                                        *)

\* MpiContext::submit under the lock: a context that no longer accepts calls
\* std::terminate.
submit(o) ==
    /\ queue' = IF accepting THEN Append(queue, o) ELSE queue
    /\ outstanding' = IF accepting THEN outstanding + 1 ELSE outstanding
    /\ terminated' = (terminated \/ ~accepting)
    /\ place' = [place EXCEPT ![o] = IF accepting THEN "queued" ELSE @]

\* The members of S, a finite set of positions, in increasing order.
ascending(S) ==
    [k \in 1 .. Cardinality(S) |-> CHOOSE i \in S : Cardinality({j \in S : j <= i}) = k]

\* ManagedCollectiveLane::find, as a position in the deque; 0 is nullptr.
find(c, sequence) ==
    IF sequence < first[c] \/ sequence - first[c] >= Len(entries[c])
    THEN 0 ELSE sequence - first[c] + 1

\* ManagedCollectiveLane::ready.
laneReady(c) == entries[c] # <<>> /\ Head(entries[c]).state # "reserved"

hasReadyManagedCollective == \E c \in Comms : laneReady(c)

\* ManagedCollectiveLane::skip of one entry.
skipped(e) == IF e.state = "reserved" THEN [e EXCEPT !.state = "skipped"] ELSE e

-----------------------------------------------------------------------------
(* Client threads.  The application runs while main = "app".               *)

\* RequestSender / ContextSender Operation::start: MpiContext::submitNative or
\* invokeNative.
Submit(o) ==
    /\ main = "app" /\ o \notin Managed /\ place[o] = "new"
    /\ submit(o)
    /\ client' = client \cup {o}
    /\ UNCHANGED <<phaseVars, laneVars, tokenVars, reqVars, arrived, initiated, ownerVars, main>>

\* CollectiveLane::submit: reserveManagedCollective builds the sender's token.
Reserve(k) ==
    /\ main = "app" /\ token[k] = "none" /\ accepting
    /\ LET c == CommOf[k] IN
        /\ ticket' = [ticket EXCEPT ![k] = first[c] + Len(entries[c])]
        /\ entries' = [entries EXCEPT ![c] =
               Append(@, [op |-> k, start |-> None, state |-> "reserved"])]
    /\ outstanding' = outstanding + 1
    /\ token' = [token EXCEPT ![k] = "sender"]
    /\ place' = [place EXCEPT ![k] = "lane"]
    /\ UNCHANGED <<queue, phaseVars, first, reqVars, arrived, initiated, ownerVars, main,
                   client, terminated>>

\* ManagedCollectiveOperation::start: the predecessor runs.
StartPredecessor(k) ==
    /\ main = "app" /\ token[k] = "sender"
    /\ token' = [token EXCEPT ![k] = "running"]
    /\ UNCHANGED <<queueVars, phaseVars, laneVars, ticket, reqVars, arrived, place, initiated,
                   ownerVars, main, client, terminated>>

\* The predecessor completes: prepareSuccessor releases the token, and
\* ManagedCollectiveLane::commit throws in a noexcept function when the entry is
\* no longer reserved.
Commit(k) ==
    /\ token[k] = "running"
    /\ token' = [token EXCEPT ![k] = "released"]
    /\ LET c == CommOf[k]
           i == find(c, ticket[k])
           ok == i # 0 /\ entries[c][i].state = "reserved"
       IN  /\ entries' = IF ok THEN [entries EXCEPT ![c][i].state = "committed",
                                                    ![c][i].start = k]
                         ELSE entries
           /\ terminated' = (terminated \/ ~ok)
    /\ client' = client \cup {k}
    /\ UNCHANGED <<queueVars, phaseVars, first, ticket, reqVars, arrived, place, initiated,
                   ownerVars, main>>

\* ~ManagedCollectiveToken of an operation that was never started.
Abandon(k) ==
    /\ token[k] = "sender"
    /\ token' = [token EXCEPT ![k] = "released"]
    /\ LET c == CommOf[k]
           i == find(c, ticket[k])
       IN  entries' = IF i # 0 THEN [entries EXCEPT ![c][i] = skipped(@)] ELSE entries
    /\ client' = client \cup {k}
    /\ UNCHANGED <<queueVars, phaseVars, first, ticket, reqVars, arrived, place, initiated,
                   ownerVars, main, terminated>>

\* m_queueReady.notify_one() of a client, after the unlock.
Notify(o) ==
    /\ o \in client
    /\ client' = client \ {o}
    /\ owner' = IF owner = "sleep" THEN "idle" ELSE owner
    /\ UNCHANGED <<queueVars, phaseVars, laneVars, tokenVars, reqVars, arrived, place, initiated,
                   cur, back, batch, pending, main, terminated>>

-----------------------------------------------------------------------------
(* The main thread: MpiRuntime::runImpl.                                   *)

\* application() returned: requestShutdown up to the unlock.
RequestShutdown ==
    /\ main = "app"
    /\ Drained => \A k \in Managed :
          /\ token[k] # "running" /\ place[k] # "popped"
          /\ \A i \in DOMAIN entries[CommOf[k]] : entries[CommOf[k]][i].state # "committed"
    /\ accepting' = FALSE /\ stopping' = TRUE
    /\ entries' = [c \in Comms |-> [i \in DOMAIN entries[c] |-> skipped(entries[c][i])]]
    /\ main' = "notify"
    /\ UNCHANGED <<queueVars, finished, first, tokenVars, reqVars, arrived, place, initiated,
                   ownerVars, client, terminated>>

\* ... its notify_one, after which the main thread joins the worker.
NotifyShutdown ==
    /\ main = "notify"
    /\ main' = "join"
    /\ owner' = IF owner = "sleep" THEN "idle" ELSE owner
    /\ UNCHANGED <<queueVars, phaseVars, laneVars, tokenVars, reqVars, arrived, place, initiated,
                   cur, back, batch, pending, client, terminated>>

\* mpiWorker.join() returns.
Join ==
    /\ main = "join" /\ owner = "gone"
    /\ main' = "done"
    /\ UNCHANGED <<queueVars, phaseVars, laneVars, tokenVars, reqVars, arrived, place, initiated,
                   ownerVars, client, terminated>>

-----------------------------------------------------------------------------
(* The owner thread: MpiContext::run and progress.                         *)

\* drainQueue pops a command.
PopCommand ==
    /\ owner = "queue" /\ batch > 0 /\ queue # <<>>
    /\ cur' = Head(queue) /\ queue' = Tail(queue)
    /\ batch' = batch - 1
    /\ place' = [place EXCEPT ![Head(queue)] = "flight"]
    /\ owner' = "start"
    /\ UNCHANGED <<outstanding, phaseVars, laneVars, tokenVars, reqVars, arrived, initiated, back,
                   pending, main, client, terminated>>

\* drainQueue returns.
QueueDrained ==
    /\ owner = "queue" /\ (batch = 0 \/ queue = <<>>)
    /\ owner' = "lanes" /\ batch' = BatchSize
    /\ UNCHANGED <<queueVars, phaseVars, laneVars, tokenVars, reqVars, arrived, place, initiated,
                   cur, back, pending, main, client, terminated>>

\* startNative with trackNative, or invoke: the native calls of the operation are
\* made.  Requests that are already MPI_REQUEST_NULL retire at once; an empty
\* batch, and one whose requests are all null, completes at once.
StartNative ==
    /\ owner = "start"
    /\ \E live \in SUBSET (1 .. NReq[cur]) :
        LET added == ascending(live)
        IN  /\ requests' = requests \o [i \in DOMAIN added |-> <<cur, added[i]>>]
            /\ active' = active \o [i \in DOMAIN added |-> [group |-> cur, index |-> added[i]]]
            /\ remaining' = [remaining EXCEPT ![cur] = Cardinality(live)]
            /\ owner' = IF live = {} THEN "deliver" ELSE "queue"
    /\ back' = "queue"
    /\ initiated' = Append(initiated, cur)
    /\ UNCHANGED <<queueVars, phaseVars, laneVars, tokenVars, arrived, place, cur, batch, pending,
                   main, client, terminated>>

\* NativeGroup::completed: the receiver gets its value.
Deliver ==
    /\ owner = "deliver"
    /\ place' = [place EXCEPT ![cur] = "completed"]
    /\ owner' = "finish"
    /\ UNCHANGED <<queueVars, phaseVars, laneVars, tokenVars, reqVars, arrived, initiated, cur,
                   back, batch, pending, main, client, terminated>>

\* finishOperation.
FinishOperation ==
    /\ owner = "finish"
    /\ outstanding' = outstanding - 1
    /\ place' = [place EXCEPT ![cur] = "retired"]
    /\ owner' = back /\ cur' = None
    /\ UNCHANGED <<queue, phaseVars, laneVars, tokenVars, reqVars, arrived, initiated, back, batch,
                   pending, main, client, terminated>>

\* Mutant: retire any committed entry, not only the front.
PopCollective_AnyCommitted ==
    /\ owner = "lanes" /\ batch > 0
    /\ \E c \in Comms : \E i \in DOMAIN entries[c] :
        /\ entries[c][i].state = "committed"
        /\ LET e == entries[c][i] IN
            /\ entries' = [entries EXCEPT ![c] = SubSeq(@, 1, i - 1) \o SubSeq(@, i + 1, Len(@))]
            /\ cur' = e.start
            /\ place' = [place EXCEPT ![e.op] = "popped"]
            /\ owner' = "collective"
    /\ outstanding' = outstanding - 1
    /\ batch' = batch - 1
    /\ UNCHANGED <<queue, first, phaseVars, tokenVars, reqVars, arrived, initiated, back, pending,
                   main, client, terminated>>

\* drainManagedCollectives: popReady of the first ready lane the map yields.
PopCollective ==
    /\ owner = "lanes" /\ batch > 0
    /\ \E c \in Comms :
        /\ laneReady(c)
        /\ LET e == Head(entries[c]) IN
            /\ entries' = [entries EXCEPT ![c] = Tail(@)]
            /\ first' = [first EXCEPT ![c] = @ + 1]
            /\ cur' = e.start
            /\ place' = [place EXCEPT ![e.op] = IF e.start = None THEN "dropped" ELSE "popped"]
            /\ owner' = IF e.start = None THEN "lanes" ELSE "collective"
    /\ outstanding' = outstanding - 1
    /\ batch' = batch - 1
    /\ UNCHANGED <<queue, phaseVars, tokenVars, reqVars, arrived, initiated, back, pending, main,
                   client, terminated>>

\* The start function of a committed entry: the successor submits itself.
StartCollective ==
    /\ owner = "collective"
    /\ submit(cur)
    /\ owner' = "lanes" /\ cur' = None
    /\ UNCHANGED <<phaseVars, laneVars, tokenVars, reqVars, arrived, initiated, back, batch,
                   pending, main, client>>

\* drainManagedCollectives returns.
LanesDrained ==
    /\ owner = "lanes" /\ (batch = 0 \/ ~hasReadyManagedCollective)
    /\ owner' = "requests"
    /\ UNCHANGED <<queueVars, phaseVars, laneVars, tokenVars, reqVars, arrived, place, initiated,
                   cur, back, batch, pending, main, client, terminated>>

\* progressRequests: MPI_Testsome nulls the requests that have completed and
\* reports their indices.
TestSome ==
    /\ owner = "requests"
    /\ LET hit == {i \in DOMAIN requests : requests[i] \in arrived}
       IN  /\ requests' = [i \in DOMAIN requests |-> IF i \in hit THEN None ELSE requests[i]]
           /\ pending' = ascending(hit)
           /\ owner' = IF hit = {} THEN "decide" ELSE "retire"
    /\ UNCHANGED <<queueVars, phaseVars, laneVars, tokenVars, active, remaining, arrived, place,
                   initiated, cur, back, batch, main, client, terminated>>

\* retireActive for the next reported index; the last request of a group
\* completes it.
Retire ==
    /\ owner = "retire" /\ pending # <<>>
    /\ LET g == active[Head(pending)].group IN
        /\ remaining' = [remaining EXCEPT ![g] = @ - 1]
        /\ cur' = IF remaining[g] = 1 THEN g ELSE None
        /\ owner' = IF remaining[g] = 1 THEN "deliver" ELSE "retire"
    /\ pending' = Tail(pending)
    /\ back' = "retire"
    /\ UNCHANGED <<queueVars, phaseVars, laneVars, tokenVars, requests, active, arrived, place,
                   initiated, batch, main, client, terminated>>

\* Mutant: m_active is truncated, not compacted.
Compact_RequestsOnly ==
    /\ owner = "retire" /\ pending = <<>>
    /\ LET kept == ascending({i \in DOMAIN requests : requests[i] # None})
       IN  /\ requests' = [n \in DOMAIN kept |-> requests[kept[n]]]
           /\ active' = SubSeq(active, 1, Len(kept))
    /\ owner' = "decide"
    /\ UNCHANGED <<queueVars, phaseVars, laneVars, tokenVars, remaining, arrived, place, initiated,
                   cur, back, batch, pending, main, client, terminated>>

\* progressRequests: compact both vectors.
Compact ==
    /\ owner = "retire" /\ pending = <<>>
    /\ LET kept == ascending({i \in DOMAIN requests : requests[i] # None})
       IN  /\ requests' = [n \in DOMAIN kept |-> requests[kept[n]]]
           /\ active' = [n \in DOMAIN kept |-> active[kept[n]]]
    /\ owner' = "decide"
    /\ UNCHANGED <<queueVars, phaseVars, laneVars, tokenVars, remaining, arrived, place, initiated,
                   cur, back, batch, pending, main, client, terminated>>

\* Mutant: stop as soon as shutdown is requested.
Decide_StopNow ==
    /\ owner = "decide"
    /\ owner' = IF stopping THEN "release" ELSE "idle"
    /\ UNCHANGED <<queueVars, phaseVars, laneVars, tokenVars, reqVars, arrived, place, initiated,
                   cur, back, batch, pending, main, client, terminated>>

\* The end of progress(): go on while running or anything is outstanding.
Decide ==
    /\ owner = "decide"
    /\ owner' = IF stopping /\ outstanding = 0 THEN "release" ELSE "idle"
    /\ UNCHANGED <<queueVars, phaseVars, laneVars, tokenVars, reqVars, arrived, place, initiated,
                   cur, back, batch, pending, main, client, terminated>>

\* releaseCommunicators, m_finished; run() returns, MPI_Finalize, ~MpiContext.
Finalize ==
    /\ owner = "release"
    /\ finished' = TRUE /\ owner' = "gone"
    /\ UNCHANGED <<queueVars, accepting, stopping, laneVars, tokenVars, reqVars, arrived, place,
                   initiated, cur, back, batch, pending, main, client, terminated>>

\* Mutant: sleep while requests are active.
Idle_IgnoresRequests ==
    /\ owner = "idle"
    /\ LET work == \/ queue # <<>> \/ hasReadyManagedCollective
                   \/ stopping /\ outstanding = 0
       IN  owner' = IF work THEN "queue" ELSE "sleep"
    /\ batch' = BatchSize
    /\ UNCHANGED <<queueVars, phaseVars, laneVars, tokenVars, reqVars, arrived, place, initiated,
                   cur, back, pending, main, client, terminated>>

\* run() between two progress() calls: sleep when there is nothing to poll, no
\* command, no ready lane and shutdown cannot finish.
Idle ==
    /\ owner = "idle"
    /\ LET work == \/ requests # <<>> \/ queue # <<>> \/ hasReadyManagedCollective
                   \/ stopping /\ outstanding = 0
       IN  owner' = IF work THEN "queue" ELSE "sleep"
    /\ batch' = BatchSize
    /\ UNCHANGED <<queueVars, phaseVars, laneVars, tokenVars, reqVars, arrived, place, initiated,
                   cur, back, pending, main, client, terminated>>

\* A condition variable may wake without a notification.
SpuriousWake ==
    /\ owner = "sleep"
    /\ owner' = "idle"
    /\ UNCHANGED <<queueVars, phaseVars, laneVars, tokenVars, reqVars, arrived, place, initiated,
                   cur, back, batch, pending, main, client, terminated>>

\* MPI completes a started request.
Arrive ==
    /\ \E i \in DOMAIN requests :
        /\ requests[i] # None /\ requests[i] \notin arrived
        /\ arrived' = arrived \cup {requests[i]}
    /\ UNCHANGED <<queueVars, phaseVars, laneVars, tokenVars, reqVars, place, initiated, ownerVars,
                   main, client, terminated>>

\* The process ends.
Over == main = "done" /\ client = {} /\ UNCHANGED vars

Owner == \/ PopCommand \/ QueueDrained \/ StartNative \/ Deliver \/ FinishOperation
         \/ PopCollective \/ StartCollective \/ LanesDrained \/ TestSome \/ Retire
         \/ Compact \/ Decide \/ Finalize \/ Idle

Next ==
    \/ \E o \in Ops : Submit(o) \/ Notify(o)
    \/ \E k \in Managed : Reserve(k) \/ StartPredecessor(k) \/ Commit(k) \/ Abandon(k)
    \/ RequestShutdown \/ NotifyShutdown \/ Join
    \/ Owner \/ SpuriousWake \/ Arrive \/ Over

\* The owner thread runs, MPI completes what was started, and a thread that took
\* the lock goes on to notify.  The application owes no call.
Fairness ==
    /\ WF_vars(Owner) /\ WF_vars(Arrive)
    /\ WF_vars(\E o \in Ops : Notify(o))
    /\ WF_vars(NotifyShutdown)

Spec == Init /\ [][Next]_vars /\ Fairness

-----------------------------------------------------------------------------
\* Operations that count in m_outstanding.
Owned == {o \in Ops : place[o] \in {"lane", "queued", "flight", "completed"}}

Entry == [op : Managed, start : Managed \cup {None},
          state : {"reserved", "committed", "skipped"}]

\* Every variable has its type.
TypeOK ==
    /\ queue \in Seq(Ops) /\ outstanding \in Nat
    /\ accepting \in BOOLEAN /\ stopping \in BOOLEAN /\ finished \in BOOLEAN
    /\ first \in [Comms -> Nat] /\ entries \in [Comms -> Seq(Entry)]
    /\ ticket \in [Managed -> Nat]
    /\ token \in [Managed -> {"none", "sender", "running", "released"}]
    /\ requests \in Seq((Ops \X Nat) \cup {None})
    /\ active \in Seq([group : Ops, index : Nat])
    /\ remaining \in [Ops -> Int] /\ arrived \subseteq Ops \X Nat
    /\ place \in [Ops -> {"new", "lane", "dropped", "popped", "queued", "flight",
                          "completed", "retired"}]
    /\ initiated \in Seq(Ops)
    /\ owner \in {"queue", "start", "deliver", "finish", "lanes", "collective", "requests",
                  "retire", "decide", "release", "gone", "idle", "sleep"}
    /\ cur \in Ops \cup {None} /\ back \in {"queue", "retire"}
    /\ batch \in 0 .. BatchSize /\ pending \in Seq(Nat)
    /\ main \in {"app", "notify", "join", "done"}
    /\ client \subseteq Ops /\ terminated \in BOOLEAN

\* m_outstanding counts exactly the submitted operations that have not finished
\* and the reserved tickets that have not been popped, which is what progress()
\* and run() decide shutdown by.
OutstandingExact == outstanding = Cardinality(Owned)

\* context.hpp: "The deque contains every non-retired ticket in contiguous
\* sequence order."  The entry a ticket finds is the one its operation reserved.
TicketsContiguous ==
    \A k \in Managed : place[k] = "lane" =>
        LET i == find(CommOf[k], ticket[k]) IN i # 0 /\ entries[CommOf[k]][i].op = k

\* CollectiveLane plans "local collective initiation order independently of
\* predecessor readiness": the native calls of one communicator's managed
\* collectives are made in the order their slots were reserved, whatever the
\* order the predecessors completed in.
LaneOrder ==
    \A i, j \in DOMAIN initiated :
        LET a == initiated[i] b == initiated[j] IN
        i < j /\ a \in Managed /\ b \in Managed /\ CommOf[a] = CommOf[b] => ticket[a] < ticket[b]

\* The managed collectives of a communicator are found by their tickets and initiated in
\* ticket order, through reordered predecessors, abandoned tickets and shutdown.
LanesInOrder == TicketsContiguous /\ LaneOrder

\* m_requests and m_active stay parallel through MPI_Testsome, retirement and
\* compaction: every live request is the one its entry names, and a group has
\* as many requests left to retire as the table holds for it.
RequestTable ==
    /\ Len(requests) = Len(active)
    /\ \A i \in DOMAIN requests :
          requests[i] # None => requests[i] = <<active[i].group, active[i].index>>
    /\ \A o \in Ops : remaining[o] =
          Cardinality({i \in DOMAIN requests : requests[i] # None /\ active[i].group = o})
        + Cardinality({n \in DOMAIN pending : active[pending[n]].group = o})

\* The receiver of an operation gets its value only when MPI has completed every
\* request of its batch.
CompleteOnlyWhenDone ==
    \A o \in Ops : place[o] \in {"completed", "retired"} =>
        /\ remaining[o] = 0
        /\ \A i \in DOMAIN requests : requests[i] # None => requests[i][1] # o

\* An operation completes exactly when the last of its requests retires, whatever
\* MPI_Testsome reports together and compact() moves in between.
RequestsRetire == RequestTable /\ CompleteOnlyWhenDone

\* run() sleeps through no work: if its predicate is true while it sleeps, a
\* notify_one is still to come.
NoSleepOnWork ==
    owner = "sleep" =>
        \/ queue = <<>> /\ ~hasReadyManagedCollective /\ ~(stopping /\ outstanding = 0)
        \/ client # {} \/ main = "notify"

\* When the context is gone every accepted operation has completed or, if its
\* token was never released, has been skipped: shutdown loses nothing.
ShutdownLosesNothing ==
    owner = "gone" => /\ queue = <<>> /\ requests = <<>>
                      /\ \A c \in Comms : entries[c] = <<>>
                      /\ \A o \in Ops : place[o] \in {"new", "dropped", "retired"}

\* None of the std::terminate paths of submit() and of a commit that throws is
\* taken.
NoTerminate == ~terminated

\* Shutdown is decided from an exact count, loses no accepted operation and terminates
\* no process.
ShutdownClean == OutstandingExact /\ ShutdownLosesNothing /\ NoTerminate

\* runtime.cpp: whether the application returned or threw, "shut the worker down
\* cleanly, then rethrow to the process entry point".  A committed collective is
\* only started while submissions are accepted: its start submits the successor,
\* and submit() terminates the process once requestShutdown has run.
CommittedCollectivesDrain == owner = "collective" => accepting

\* runtime.cpp: the runtime means to "shut the worker down cleanly".  No thread
\* is still inside a member function of the context when the worker destroys it.
ContextOutlivesCalls == owner = "gone" => client = {} /\ main # "notify"

\* Every accepted operation eventually completes.
SubmittedCompletes == \A o \in Ops : place[o] = "queued" ~> place[o] = "retired"

\* requestShutdown always leads to the end of the owner thread.
ShutdownEnds == stopping ~> owner = "gone"

\* The owner thread makes progress: it sleeps through no accepted operation and through no
\* requested shutdown, whatever tickets were reserved and never used.
OwnerProgresses == SubmittedCompletes /\ ShutdownEnds
=============================================================================
