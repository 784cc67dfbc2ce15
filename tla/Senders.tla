------------------------------ MODULE Senders ------------------------------
(***************************************************************************)
(* One syncWait over an expression of sender adaptors: whenAll, graph,     *)
(* then, letValue (and sequence), repeatUntil, startsOn and continuesOn    *)
(* (and on), and events that other threads complete                        *)
(* (caravan/core/sender/, caravan/core/eager.hpp).                         *)
(*                                                                         *)
(* Every thread has a stack of calls.  A step is what the call on top does *)
(* up to its next lock, atomic operation or call into another operation.   *)
(* A call whose last act is another call is replaced by it.  An operation  *)
(* is the member of another one, so that its lifetime is known from the    *)
(* expression; a new one at the same place has a new generation.           *)
(***************************************************************************)
EXTENDS Naturals, Sequences, FiniteSets
LOCAL INSTANCE SequencesExt

CONSTANTS
    Threads,     \* threads that complete leaves and events
    Main,        \* the thread that calls syncWait
    Expr,        \* node -> its adaptor and the nodes it is made of
    Root,        \* the outermost sender
    after,       \* node of a graph -> the nodes it names in after()
    eventOf,     \* node -> the event asSender was given
    Sources,     \* events some thread completes
    Joined,      \* the event of whenAll(span)
    Joins,       \* the span, at least two of the sources
    MaxRounds    \* bound: iterations of a repeatUntil

VARIABLES
    op,      \* operation states by node
    stack,   \* calls of each thread, the running one first
    queue,   \* thread_local dispatchQueue
    event,   \* states of the events
    work,    \* leaves that started and complete asynchronously
    sync     \* state of syncWait: the State it waits on, the waiting thread

senders == <<op, stack, queue, event, work, sync>>

Nodes == DOMAIN Expr

Parts(n) == {Expr[n].args[i] : i \in DOMAIN Expr[n].args}

parent(n) == IF n = Root THEN "sync" ELSE CHOOSE p \in Nodes : n \in Parts(p)

\* Adaptors that start what they are made of one after the other: the predecessor and its
\* successor, the schedule operation and the child, the sender and the schedule operation.
Chains == {"then", "letValue", "startsOn", "continuesOn"}

\* Operations constructed in the constructor of n's: a successor and an iteration are
\* emplaced later.
connected[n \in Nodes] ==
    {n} \cup CASE Expr[n].kind = "letValue" -> connected[Expr[n].args[1]]
               [] Expr[n].kind = "repeat"   -> {}
               [] OTHER -> UNION {connected[c] : c \in Parts(n)}

members[n \in Nodes] == {n} \cup UNION {members[c] : c \in Parts(n)}

\* m_remaining, m_remainingPredecessors, m_values or m_resolved, m_state and m_done.
constructed(n, g) ==
    [gen |-> g, alive |-> TRUE, left |-> Len(Expr[n].args),
     preds |-> [c \in Parts(n) |-> IF Expr[n].kind = "graph" THEN Cardinality(after[c]) ELSE 0],
     values |-> {}, state |-> "starting", done |-> FALSE, round |-> 0, starts |-> 0, completions |-> 0]

construct(ops, n) ==
    [x \in Nodes |-> IF x \in connected[n] THEN constructed(x, ops[x].gen + 1) ELSE ops[x]]

destroy(ops, n) == [x \in Nodes |-> IF x \in members[n] THEN [ops[x] EXCEPT !.alive = FALSE] ELSE ops[x]]

-----------------------------------------------------------------------------
(* Calls.                                                                  *)

Call(at, n, g, rest) == [at |-> at, n |-> n, g |-> g, rest |-> rest]

start(ops, n) == Call("start", n, ops[n].gen, <<>>)

\* n calls set_value of its receiver.
complete(ops, n) == Call("value", n, ops[n].gen, <<>>)

top(t) == Head(stack[t])

runs(t, at) == stack[t] # <<>> /\ top(t).at = at

\* The running call ends, or goes on as the given ones.
goOn(t, calls) == stack' = [stack EXCEPT ![t] = calls \o Tail(@)]

\* whenAll(span) has a State of its own; it subscribes to its events before syncWait
\* starts the operation.
SendersInit ==
    /\ op = [n \in Nodes |-> IF n \in connected[Root] THEN constructed(n, 1)
                             ELSE [constructed(n, 0) EXCEPT !.alive = FALSE]]
    /\ stack = [t \in Threads \cup {Main} |->
                  IF t = Main
                  THEN <<Call("join", Joined, 0, Joins), start(op, Root), Call("wait", Root, 0, <<>>)>>
                  ELSE <<>>]
    /\ queue = [t \in Threads \cup {Main} |-> <<>>]
    /\ event = [e \in Sources \cup {Joined} |-> [ready |-> FALSE, subs |-> <<>>, left |-> Len(Joins)]]
    /\ work = {}
    /\ sync = [ready |-> FALSE, alive |-> TRUE, asleep |-> FALSE]

-----------------------------------------------------------------------------
(* Events.                                                                 *)

\* dispatch(): a task is run by the thread's outermost dispatch, after the ones before it.
dispatched(t, task, rest) ==
    /\ queue' = [queue EXCEPT ![t] = Append(@, task)]
    /\ goOn(t, IF \E i \in DOMAIN stack[t] : stack[t][i].at = "drain" THEN rest
               ELSE <<Call("drain", Root, 0, <<>>)>> \o rest)

\* State::subscribe, then the calls of rest.
subscribed(t, e, task, rest) ==
    IF event[e].ready THEN dispatched(t, task, rest) /\ UNCHANGED event
    ELSE /\ event' = [event EXCEPT ![e].subs = Append(@, task)]
         /\ goOn(t, rest) /\ UNCHANGED queue

\* One round of the loop of whenAll(span).
Join(t) ==
    LET f == top(t) IN
    /\ runs(t, "join")
    /\ subscribed(t, Head(f.rest), Call("arrive", Joined, 0, <<>>),
                  IF Len(f.rest) = 1 THEN <<>> ELSE <<[f EXCEPT !.rest = Tail(@)]>>)
    /\ UNCHANGED <<op, work, sync>>

\* The loop of dispatch().
Drain(t) ==
    /\ runs(t, "drain")
    /\ IF queue[t] = <<>> THEN goOn(t, <<>>) /\ UNCHANGED queue
       ELSE goOn(t, <<Head(queue[t]), top(t)>>) /\ queue' = [queue EXCEPT ![t] = Tail(@)]
    /\ UNCHANGED <<op, event, work, sync>>

\* Mutant: the value after the decrement is compared.
arrived_After(e) == event[e].left = 0

\* fetch_sub returned 1.
arrived(e) == event[e].left = 1

Arrive(t) ==
    LET e == top(t).n IN
    /\ runs(t, "arrive")
    /\ event' = [event EXCEPT ![e].left = @ - 1]
    /\ goOn(t, IF arrived(e) THEN <<Call("ready", e, 0, <<>>)>> ELSE <<>>)
    /\ UNCHANGED <<op, queue, work, sync>>

\* State::complete: the state is published and its continuations taken under the lock.
SetReady(t) ==
    LET e == top(t).n IN
    /\ runs(t, "ready")
    /\ event' = [event EXCEPT ![e].ready = TRUE, ![e].subs = <<>>]
    /\ goOn(t, IF event[e].ready THEN <<>> ELSE <<Call("post", e, 0, event[e].subs)>>)
    /\ UNCHANGED <<op, queue, work, sync>>

\* They are dispatched one by one after it.
Post(t) ==
    LET f == top(t) IN
    /\ runs(t, "post")
    /\ IF f.rest = <<>> THEN goOn(t, <<>>) /\ UNCHANGED queue
       ELSE dispatched(t, Head(f.rest), <<[f EXCEPT !.rest = Tail(@)]>>)
    /\ UNCHANGED <<op, event, work, sync>>

\* A thread completes a source.
Fire(t) ==
    /\ stack[t] = <<>>
    /\ \E e \in Sources :
          /\ ~event[e].ready
          /\ \A u \in Threads : \A i \in DOMAIN stack[u] : stack[u][i].at = "ready" => stack[u][i].n # e
          /\ stack' = [stack EXCEPT ![t] = <<Call("ready", e, 0, <<>>)>>]
    /\ UNCHANGED <<op, queue, event, work, sync>>

-----------------------------------------------------------------------------
(* Operations.                                                             *)

\* Nodes of a graph without predecessors left, in the order of its arguments.
readyNodes(n, preds, among) ==
    SelectSeq(Expr[n].args, LAMBDA c : c \in among /\ preds[c] = 0)

\* A leaf completes within start(), or later on some thread.
startLeaf(t, o, n) ==
    /\ \/ goOn(t, <<complete(o, n)>>) /\ UNCHANGED work
       \/ goOn(t, <<>>) /\ work' = work \cup {complete(o, n)}
    /\ UNCHANGED <<queue, event>>

\* EventOperation.
startEvent(t, o, n) == subscribed(t, eventOf[n], complete(o, n), <<>>) /\ UNCHANGED work

\* operation.start() of any adaptor.
Start(t) ==
    LET f == top(t)
        n == f.n
        o == [op EXCEPT ![n].starts = @ + 1]
        only(calls) == goOn(t, calls) /\ UNCHANGED <<queue, event, work>>
    IN  /\ runs(t, "start") /\ op' = o
        /\ CASE Expr[n].kind = "leaf" -> startLeaf(t, o, n)
             [] Expr[n].kind = "event" -> startEvent(t, o, n)
             [] Expr[n].kind \in {"whenAll", "graph"} ->
                   only(<<Call("each", n, f.g, readyNodes(n, op[n].preds, Parts(n)))>>)
             [] Expr[n].kind \in Chains -> only(<<start(o, Expr[n].args[1])>>)
             [] Expr[n].kind = "repeat" -> only(<<Call("run", n, f.g, <<>>)>>)
        /\ UNCHANGED sync

\* The fold over the children, startNodes: nothing is accessed after the last start.
Each(t) ==
    LET f == top(t) IN
    /\ runs(t, "each")
    /\ goOn(t, <<start(op, Head(f.rest))>> \o
               IF Len(f.rest) = 1 THEN <<>> ELSE <<[f EXCEPT !.rest = Tail(@)]>>)
    /\ UNCHANGED <<op, queue, event, work, sync>>

\* Someone completes a leaf.
CompleteLeaf(t) ==
    /\ stack[t] = <<>>
    /\ \E c \in work : /\ stack' = [stack EXCEPT ![t] = <<c>>]
                       /\ work' = work \ {c}
    /\ UNCHANGED <<op, queue, event, sync>>

-----------------------------------------------------------------------------
(* What each adaptor does when its part c has completed; o are the operations with that    *)
(* completion counted.                                                                     *)

\* Under the lock of whenAll or graph.
counted(n, c) ==
    [op[n] EXCEPT !.left = @ - 1, !.values = @ \cup {c},
                  !.preds = [d \in Parts(n) |->
                               IF Expr[n].kind = "graph" /\ c \in after[d] THEN @[d] - 1 ELSE @[d]]]

whenAll(t, n, c, o) ==
    /\ op' = [o EXCEPT ![n] = counted(n, c)]
    /\ goOn(t, IF op'[n].left = 0 THEN <<complete(o, n)>> ELSE <<>>)

graph(t, n, c, o) ==
    LET successors == {d \in Parts(n) : c \in after[d]}
    IN  /\ op' = [o EXCEPT ![n] = counted(n, c)]
        /\ goOn(t, IF op'[n].left = 0 THEN <<complete(o, n)>>
                   ELSE IF readyNodes(n, op'[n].preds, successors) = <<>> THEN <<>>
                   ELSE <<Call("each", n, op[n].gen, readyNodes(n, op'[n].preds, successors))>>)

\* The function is called and its result passed on.
then(t, n, o) == op' = o /\ goOn(t, <<complete(o, n)>>)

\* The values are kept, the successor is made from them and started.
letValue(t, n, c, o) ==
    IF c = Last(Expr[n].args) THEN op' = o /\ goOn(t, <<complete(o, n)>>)
    ELSE op' = construct(o, Expr[n].args[2]) /\ goOn(t, <<start(op', Expr[n].args[2])>>)

\* The schedule operation starts the child.
startsOn(t, n, c, o) ==
    op' = o /\ goOn(t, <<IF c = Last(Expr[n].args) THEN complete(o, n) ELSE start(o, Expr[n].args[2])>>)

\* The values are kept while the schedule operation runs.
continuesOn(t, n, c, o) ==
    op' = o /\ goOn(t, <<IF c = Last(Expr[n].args) THEN complete(o, n) ELSE start(o, Expr[n].args[2])>>)

repeatUntil(t, n, o) ==
    /\ \E done \in (IF op[n].round < MaxRounds THEN BOOLEAN ELSE {TRUE}) :
          op' = [o EXCEPT ![n].done = done]
    /\ goOn(t, <<Call("handoff", n, op[n].gen, <<>>)>>)

\* The operation of syncWait is complete.
syncReady(t, o) ==
    /\ op' = o /\ sync' = [sync EXCEPT !.ready = TRUE]
    /\ goOn(t, <<Call("notify", Root, 0, <<>>)>>)

\* An operation completes: set_value of its receiver, which belongs to n.
SetValue(t) ==
    LET c == top(t).n
        n == parent(c)
        o == [op EXCEPT ![c].completions = @ + 1]
    IN  /\ runs(t, "value") /\ UNCHANGED <<queue, event, work>>
        /\ IF n = "sync" THEN syncReady(t, o)
           ELSE /\ UNCHANGED sync
                /\ CASE Expr[n].kind = "whenAll"     -> whenAll(t, n, c, o)
                     [] Expr[n].kind = "graph"       -> graph(t, n, c, o)
                     [] Expr[n].kind = "then"        -> then(t, n, o)
                     [] Expr[n].kind = "letValue"    -> letValue(t, n, c, o)
                     [] Expr[n].kind = "startsOn"    -> startsOn(t, n, c, o)
                     [] Expr[n].kind = "continuesOn" -> continuesOn(t, n, c, o)
                     [] Expr[n].kind = "repeat"      -> repeatUntil(t, n, o)

\* Mutant: the completing thread always drives.
drives_Always(old) == TRUE

\* start() has returned: the completing thread is the driver.
drives(old) == old = "waiting"

\* RepeatUntilOperation::complete.
Handoff(t) ==
    LET f == top(t) IN
    /\ runs(t, "handoff")
    /\ op' = [op EXCEPT ![f.n].state = "completed"]
    /\ goOn(t, IF drives(op[f.n].state) THEN <<[f EXCEPT !.at = "run"]>> ELSE <<>>)
    /\ UNCHANGED <<queue, event, work, sync>>

\* RepeatUntilOperation::run up to the start of the iteration.
Run(t) ==
    LET f == top(t)
        n == f.n
        c == Expr[n].args[1]
        o == construct(destroy([op EXCEPT ![n].state = "starting", ![n].round = @ + 1], c), c)
    IN  /\ runs(t, "run")
        /\ IF op[n].done THEN op' = destroy(op, c) /\ goOn(t, <<complete(op, n)>>)
           ELSE op' = o /\ goOn(t, <<start(o, c), [f EXCEPT !.at = "publish"]>>)
        /\ UNCHANGED <<queue, event, work, sync>>

\* start() returned: hand the driver over, or go on with a completion that came before.
Publish(t) ==
    LET f == top(t) IN
    /\ runs(t, "publish")
    /\ op' = [op EXCEPT ![f.n].state = "waiting"]
    /\ goOn(t, IF op[f.n].state = "completed" THEN <<[f EXCEPT !.at = "run"]>> ELSE <<>>)
    /\ UNCHANGED <<queue, event, work, sync>>

-----------------------------------------------------------------------------
(* syncWait.                                                               *)

\* State::wait: its end destroys the operation and the state.
Wait(t) ==
    /\ runs(t, "wait") /\ ~sync.asleep
    /\ IF sync.ready
       THEN /\ sync' = [sync EXCEPT !.alive = FALSE] /\ op' = destroy(op, Root) /\ goOn(t, <<>>)
       ELSE sync' = [sync EXCEPT !.asleep = TRUE] /\ UNCHANGED <<op, stack>>
    /\ UNCHANGED <<queue, event, work>>

\* notify_all after the unlock.
NotifyAll(t) ==
    /\ runs(t, "notify") /\ goOn(t, <<>>)
    /\ sync' = [sync EXCEPT !.asleep = FALSE]
    /\ UNCHANGED <<op, queue, event, work>>

-----------------------------------------------------------------------------
Runs(t) ==
    \/ Join(t) \/ Drain(t) \/ Arrive(t) \/ SetReady(t) \/ Post(t)
    \/ Start(t) \/ Each(t) \/ SetValue(t) \/ Handoff(t) \/ Run(t) \/ Publish(t)
    \/ Wait(t) \/ NotifyAll(t)

Returned == ~sync.alive

SendersOver == (\A t \in Threads \cup {Main} : stack[t] = <<>>) /\ Returned /\ UNCHANGED senders

SendersNext ==
    \/ \E t \in Threads \cup {Main} : Runs(t)
    \/ \E t \in Threads : Fire(t) \/ CompleteLeaf(t)
    \/ SendersOver

\* Every thread goes on, and what started asynchronously is completed.
SendersFairness ==
    /\ \A t \in Threads \cup {Main} : WF_senders(Runs(t))
    /\ WF_senders(\E t \in Threads : Fire(t)) /\ WF_senders(\E t \in Threads : CompleteLeaf(t))

SendersSpec == SendersInit /\ [][SendersNext]_senders /\ SendersFairness

-----------------------------------------------------------------------------
Stacked(t) == {stack[t][i] : i \in DOMAIN stack[t]}

Ongoing == UNION {Stacked(t) : t \in Threads \cup {Main}}

\* Calls of operations, which access members of the operation when they run or go on.
ofOperation(f) == f.at \in {"start", "each", "value", "handoff", "run", "publish"}

waitingTasks == work \cup UNION {{queue[t][i] : i \in DOMAIN queue[t]} : t \in Threads \cup {Main}}
                     \cup UNION {{event[e].subs[i] : i \in DOMAIN event[e].subs} : e \in DOMAIN event}

\* No thread will access an operation that was destroyed or replaced: an iteration lives
\* until its start() has returned, and a completed operation is not touched again
\* (repeat_until.hpp: "Completion permits destruction of the child, but never before its
\* start() returns").
LiveAccess ==
    \A f \in Ongoing \cup waitingTasks : ofOperation(f) => op[f.n].alive /\ op[f.n].gen = f.g

\* Every operation is started and completes at most once; a whenAll and a graph complete
\* after all they are made of, a node of a graph starts after the ones it names, and an
\* event sender completes after its event, the joined event after all of the span.
JoinsComplete ==
    /\ \A n \in Nodes : op[n].starts <= 1 /\ op[n].completions <= op[n].starts
    /\ \A n \in Nodes : op[n].alive /\ op[n].completions = 1 =>
          /\ Expr[n].kind \in {"whenAll", "graph"} => op[n].values = Parts(n)
          /\ Expr[n].kind = "event" => event[eventOf[n]].ready
    /\ \A n \in Nodes : Expr[n].kind = "graph" => \A c \in Parts(n) : op[c].starts = 1 =>
          \A p \in after[c] : op[p].completions = 1
    /\ event[Joined].ready => \A i \in DOMAIN Joins : event[Joins[i]].ready

\* repeat_until.hpp: the loop "uses constant stack space for inline completion", and has
\* one driver whichever thread completes an iteration; dispatch() never nests.
OneDriver ==
    /\ \A t \in Threads \cup {Main} : \A i, j \in DOMAIN stack[t] :
          stack[t][i].at = "drain" /\ stack[t][j].at = "drain" => i = j
    /\ \A t, u \in Threads \cup {Main} : \A i \in DOMAIN stack[t], j \in DOMAIN stack[u] :
          /\ {stack[t][i].at, stack[u][j].at} \subseteq {"run", "publish"}
          /\ stack[t][i].n = stack[u][j].n
          => <<t, i>> = <<u, j>>

\* Adaptors compose: at any time, in any interleaving of the threads that complete
\* leaves and events.
SendersSound == LiveAccess /\ JoinsComplete /\ OneDriver

\* The state syncWait waits on outlives the call that completes it.
SyncStateOutlives == \A f \in Ongoing : f.at = "notify" => sync.alive

\* syncWait returns.
SyncWaitReturns == <>Returned
=============================================================================
