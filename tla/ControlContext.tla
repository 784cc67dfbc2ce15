--------------------------- MODULE ControlContext ---------------------------
(***************************************************************************)
(* caravan::ControlContext: a RunLoop pumped by one control thread, an     *)
(* AsyncScope that owns every spawned operation, and the eager Events the  *)
(* control thread waits for (core/run_loop.hpp, core/async_scope.hpp,      *)
(* core/control_context.hpp, core/eager.hpp, core/sender/continues_on.hpp).*)
(*                                                                         *)
(* Threads: the control thread (variable pc), one completing thread per    *)
(* spawned operation (the MPI owner thread, the device completion thread)  *)
(* and one per external event (a thread of the application that calls      *)
(* EventSource::setReady).  A step is one critical section of a mutex, or  *)
(* control-thread work no other thread can observe.                        *)
(*                                                                         *)
(* Abstracted: the values operations carry; the linger spin of runOne,     *)
(* which probes the same predicate the condition variable waits for.       *)
(***************************************************************************)
EXTENDS Naturals, Sequences, FiniteSets

CONSTANTS
    Ops,         \* operations the application may spawn
    Repeating,   \* the ones among them that re-post control work for ever
    Externals,   \* events set ready by threads the scope does not own
    Joined,      \* AsyncScopeState::m_joined
    Wake,        \* the empty task ControlContext::wait posts through continueWith
    None,        \* no operation
    MaxRounds,   \* bound: control continuations an operation runs before its last
    MaxBacklog   \* bound: wait() is not called with a longer queue

ASSUME ConstantsAssumption ==
    /\ IsFiniteSet(Ops)
    /\ Repeating \subseteq Ops
    /\ Ops \cap Externals = {}
    /\ Joined \notin Ops \cup Externals
    /\ Wake \notin Ops
    /\ None \notin Ops
    /\ MaxRounds \in Nat
    /\ MaxBacklog \in Nat

Events  == Ops \cup Externals \cup {Joined}
Threads == Ops \cup Externals
Task    == Ops \cup {Wake}

VARIABLES
    tasks,       \* RunLoop::m_tasks
    finished,    \* RunLoop::m_finished
    status,      \* AsyncScopeState::m_status
    operations,  \* AsyncScopeState::m_operations
    op,          \* where each SpawnOperation is in its life
    rounds,      \* control continuations each operation has already run
    ready,       \* events whose State::m_completion is ready
    conts,       \* pending events with the wake of wait() in m_continuations
    thread,      \* where each completing thread is
    pc,          \* where the control thread is
    caller,      \* the pump that runs the current task: wait() or runReady()
    target,      \* the event wait() waits for
    budget,      \* tasks runReady() may still run
    current,     \* the operation whose completion task is running
    destroying,  \* the control thread is in ~ControlContext
    terminated   \* std::terminate was called

loopVars  == <<tasks, finished>>
scopeVars == <<status, operations>>
opVars    == <<op, rounds>>
eventVars == <<ready, conts>>
ctlVars   == <<caller, target, budget, current, destroying>>
vars == <<tasks, finished, status, operations, op, rounds, ready, conts, thread,
          pc, caller, target, budget, current, destroying, terminated>>

Init ==
    /\ tasks = <<>> /\ finished = FALSE
    /\ status = "open" /\ operations = 0
    /\ op = [o \in Ops |-> "unborn"]
    /\ rounds = [o \in Ops |-> 0]
    /\ ready = {} /\ conts = {}
    /\ thread = [t \in Threads |-> "idle"]
    /\ pc = "app" /\ caller = "check" /\ target = Joined
    /\ budget = 0 /\ current = None
    /\ destroying = FALSE /\ terminated = FALSE

-----------------------------------------------------------------------------
(* Building blocks shared by the actions.                                  *)

\* RunLoop::post under the loop's mutex.  Every caller is noexcept, so posting
\* to a finished loop is std::terminate.
post(task) ==
    /\ tasks' = IF finished THEN tasks ELSE Append(tasks, task)
    /\ terminated' = (terminated \/ finished)

\* RunLoop::m_ready.notify_one / notify_all: only the control thread waits.
notified == IF pc = "blocked" THEN "runOne" ELSE pc

\* Mutant: a pending event gets no wake.
continueWith_NoWake(e) ==
    IF e \in ready
    THEN post(Wake) /\ UNCHANGED conts
    ELSE UNCHANGED <<conts, tasks, terminated>>

\* Event::continueWith(loop.scheduler(), noop), State::subscribe: register while
\* pending, otherwise dispatch on the calling thread, which posts at once.
continueWith(e) ==
    IF e \in ready
    THEN post(Wake) /\ UNCHANGED conts
    ELSE conts' = conts \cup {e} /\ UNCHANGED <<tasks, terminated>>

\* State::complete called on the control thread: publish ready, swap the
\* continuations out and dispatch them.  A second call returns false.
setReady(e) ==
    /\ ready' = ready \cup {e}
    /\ conts' = conts \ {e}
    /\ IF e \in conts THEN post(Wake) ELSE UNCHANGED <<tasks, terminated>>

-----------------------------------------------------------------------------
(* The application on the control thread.                                  *)

\* spawn() is called by the application or by a control continuation, which runs inside a task.
maySpawn == pc \in {"app", "deliver"}

\* Mutant: the scope entry is not reserved.
Spawn_NoReserve(o) ==
    /\ maySpawn /\ status = "open" /\ op[o] = "unborn"
    /\ op' = [op EXCEPT ![o] = "running"]
    /\ UNCHANGED <<loopVars, scopeVars, rounds, eventVars, thread, pc, ctlVars, terminated>>

\* Mutant: spawn after the scope was closed.
Spawn_Closed(o) ==
    /\ maySpawn /\ op[o] = "unborn"
    /\ operations' = operations + 1
    /\ op' = [op EXCEPT ![o] = "running"]
    /\ UNCHANGED <<loopVars, status, rounds, eventVars, thread, pc, ctlVars, terminated>>

\* ControlContext::spawn with AsyncScope::spawn: reserve the scope entry, start
\* the upstream operation.  A closed scope throws in reserve and nothing changes (a task that
\* lets the exception escape terminates the program: tasks are noexcept).
Spawn(o) ==
    /\ maySpawn /\ status = "open" /\ op[o] = "unborn"
    /\ operations' = operations + 1
    /\ op' = [op EXCEPT ![o] = "running"]
    /\ UNCHANGED <<loopVars, status, rounds, eventVars, thread, pc, ctlVars, terminated>>

\* The same when the upstream completes inside start(): ContinuesOnOperation
\* posts the terminal completion from the control thread.
SpawnInline(o) ==
    /\ maySpawn /\ status = "open" /\ op[o] = "unborn"
    /\ operations' = operations + 1
    /\ op' = [op EXCEPT ![o] = "queued"]
    /\ post(o)
    /\ UNCHANGED <<finished, status, rounds, eventVars, thread, pc, ctlVars>>

\* ControlContext::wait(event) up to its loop; it throws before changing anything
\* when called from a running task.
Wait(e) ==
    /\ pc = "app" /\ Len(tasks) <= MaxBacklog
    /\ IF e \in Ops THEN op[e] # "unborn" ELSE e \in Externals
    /\ continueWith(e)
    /\ target' = e /\ pc' = "check"
    /\ UNCHANGED <<finished, scopeVars, opVars, ready, thread, caller, budget,
                   current, destroying>>

\* drain() (destroy = FALSE) and ~ControlContext (TRUE): AsyncScopeState::join
\* followed by the head of wait().  All state but the queue belongs to the
\* control thread here.
Close(destroy) ==
    /\ pc = "app" /\ Len(tasks) <= MaxBacklog
    /\ status' = CASE operations = 0 -> "joined"
                   [] operations # 0 /\ status = "open" -> "joining"
                   [] OTHER -> status
    /\ IF operations = 0
         THEN ready' = ready \cup {Joined} /\ post(Wake) /\ UNCHANGED conts
         ELSE continueWith(Joined) /\ UNCHANGED ready
    /\ target' = Joined /\ pc' = "check" /\ destroying' = destroy
    /\ UNCHANGED <<finished, operations, opVars, thread, caller, budget, current>>

\* RunLoop::runReady: take the snapshot of the queue length.
RunReady ==
    /\ pc = "app" /\ tasks # <<>>
    /\ budget' = Len(tasks) /\ pc' = "batch"
    /\ UNCHANGED <<loopVars, scopeVars, opVars, eventVars, thread, caller, target,
                   current, destroying, terminated>>

-----------------------------------------------------------------------------
(* The control thread inside wait(), runReady() and the tasks they run.    *)

\* Mutant: the destructor does not wait for the joined event.
Check_NoJoin ==
    /\ pc = "check"
    /\ pc' = CASE destroying -> "finish"
               [] ~destroying /\ target \notin ready -> "runOne"
               [] OTHER -> "app"
    /\ UNCHANGED <<loopVars, scopeVars, opVars, eventVars, thread, ctlVars, terminated>>

\* The loop condition of wait(): leave when the event is ready, into the caller
\* or, from the destructor, to RunLoop::finish.
Check ==
    /\ pc = "check"
    /\ pc' = CASE target \notin ready -> "runOne"
               [] target \in ready /\ destroying -> "finish"
               [] OTHER -> "app"
    /\ UNCHANGED <<loopVars, scopeVars, opVars, eventVars, thread, ctlVars, terminated>>

\* Pop the front task.  A Wake runs an empty function; a completion task starts
\* ContinuesOnOperation::complete.
take(from) ==
    /\ tasks' = Tail(tasks)
    /\ caller' = from
    /\ IF Head(tasks) = Wake
         THEN pc' = from /\ UNCHANGED current
         ELSE pc' = "deliver" /\ current' = Head(tasks)

\* RunLoop::runOne finds a task.
RunOne ==
    /\ pc = "runOne" /\ tasks # <<>>
    /\ take("check")
    /\ UNCHANGED <<finished, scopeVars, opVars, eventVars, thread, target, budget,
                   destroying, terminated>>

\* Mutant: wait on m_ready without testing the predicate.
Block_NoPredicate ==
    /\ pc = "runOne"
    /\ pc' = "blocked"
    /\ UNCHANGED <<loopVars, scopeVars, opVars, eventVars, thread, ctlVars, terminated>>

\* RunLoop::runOne: the predicate is false under the lock, wait on m_ready.
Block ==
    /\ pc = "runOne" /\ tasks = <<>> /\ ~finished
    /\ pc' = "blocked"
    /\ UNCHANGED <<loopVars, scopeVars, opVars, eventVars, thread, ctlVars, terminated>>

\* condition_variable::wait may wake without a notification and tests again.
SpuriousWake ==
    /\ pc = "blocked"
    /\ pc' = "runOne"
    /\ UNCHANGED <<loopVars, scopeVars, opVars, eventVars, thread, ctlVars, terminated>>

\* Mutant: run until the queue is empty instead of a snapshot.
BatchTake_UntilEmpty ==
    /\ pc = "batch" /\ tasks # <<>>
    /\ take("batch")
    /\ UNCHANGED <<finished, scopeVars, opVars, eventVars, thread, target, budget,
                   destroying, terminated>>

\* RunLoop::runReady runs the next task of its snapshot.
BatchTake ==
    /\ pc = "batch" /\ budget > 0 /\ tasks # <<>>
    /\ budget' = budget - 1
    /\ take("batch")
    /\ UNCHANGED <<finished, scopeVars, opVars, eventVars, thread, target,
                   destroying, terminated>>

\* RunLoop::runReady returns.
BatchReturn ==
    /\ pc = "batch" /\ (budget = 0 \/ tasks = <<>>)
    /\ budget' = 0 /\ pc' = "app"
    /\ UNCHANGED <<loopVars, scopeVars, opVars, eventVars, thread, caller, target,
                   current, destroying, terminated>>

\* A control continuation that is not the operation's last.
continues ==
    /\ pc = "deliver"
    /\ current \in Repeating \/ rounds[current] < MaxRounds
    /\ rounds' = IF current \in Repeating THEN rounds
                 ELSE [rounds EXCEPT ![current] = @ + 1]
    /\ pc' = caller /\ current' = None

\* let_value starts the next asynchronous stage of the same operation.
NextStage ==
    /\ continues
    /\ op' = [op EXCEPT ![current] = "running"]
    /\ UNCHANGED <<loopVars, scopeVars, eventVars, thread, caller, target, budget,
                   destroying, terminated>>

\* The next stage completes inside start(): the task posts its successor.
NextStageInline ==
    /\ continues
    /\ post(current)
    /\ UNCHANGED <<finished, scopeVars, op, eventVars, thread, caller, target, budget,
                   destroying>>

\* ScopeReceiver::set_value: output.setReady().
Deliver ==
    /\ pc = "deliver" /\ current \notin Repeating
    /\ setReady(current)
    /\ pc' = "release"
    /\ UNCHANGED <<finished, scopeVars, opVars, thread, ctlVars>>

\* Mutant: joined is tested before the decrement.
Release_TestBeforeDecrement ==
    /\ pc = "release"
    /\ op' = [op EXCEPT ![current] = "destroyed"]
    /\ operations' = operations - 1
    /\ LET joined == status = "joining" /\ operations = 0
       IN  /\ status' = IF joined THEN "joined" ELSE status
           /\ pc' = IF joined THEN "joined" ELSE caller
    /\ current' = None
    /\ UNCHANGED <<loopVars, rounds, eventVars, thread, caller, target, budget,
                   destroying, terminated>>

\* Mutant: complete() reports joined while other operations are live.
Release_JoinsEarly ==
    /\ pc = "release"
    /\ op' = [op EXCEPT ![current] = "destroyed"]
    /\ operations' = operations - 1
    /\ LET joined == status = "joining"
       IN  /\ status' = IF joined THEN "joined" ELSE status
           /\ pc' = IF joined THEN "joined" ELSE caller
    /\ current' = None
    /\ UNCHANGED <<loopVars, rounds, eventVars, thread, caller, target, budget,
                   destroying, terminated>>

\* finishSpawn: destroy the operation, then AsyncScopeState::complete up to the
\* end of its critical section.
Release ==
    /\ pc = "release"
    /\ op' = [op EXCEPT ![current] = "destroyed"]
    /\ operations' = operations - 1
    /\ LET joined == status = "joining" /\ operations = 1
       IN  /\ status' = IF joined THEN "joined" ELSE status
           /\ pc' = IF joined THEN "joined" ELSE caller
    /\ current' = None
    /\ UNCHANGED <<loopVars, rounds, eventVars, thread, caller, target, budget,
                   destroying, terminated>>

\* AsyncScopeState::complete: m_joined.setReady() after the unlock.
SetJoined ==
    /\ pc = "joined"
    /\ setReady(Joined)
    /\ pc' = caller
    /\ UNCHANGED <<finished, scopeVars, opVars, thread, ctlVars>>

\* ~ControlContext: RunLoop::finish.
Finish ==
    /\ pc = "finish"
    /\ finished' = TRUE
    /\ pc' = "destruct"
    /\ UNCHANGED <<tasks, scopeVars, opVars, eventVars, thread, ctlVars, terminated>>

\* The members go: ~AsyncScope terminates an unjoined scope, then ~RunLoop drops
\* the tasks still queued.
Destruct ==
    /\ pc = "destruct"
    /\ terminated' = (terminated \/ status # "joined")
    /\ tasks' = <<>>
    /\ pc' = "gone"
    /\ UNCHANGED <<finished, scopeVars, opVars, eventVars, thread, ctlVars>>

-----------------------------------------------------------------------------
(* The other threads.                                                      *)

\* The upstream of o completes on its thread: ContinuesOnOperation::transferValue
\* starts the schedule operation, which appends the completion task.
UpstreamComplete(o) ==
    /\ op[o] = "running" /\ thread[o] = "idle"
    /\ post(o)
    /\ op' = [op EXCEPT ![o] = "queued"]
    /\ thread' = [thread EXCEPT ![o] = "notify"]
    /\ UNCHANGED <<finished, scopeVars, rounds, eventVars, pc, ctlVars>>

\* An application thread completes its event: State::complete up to the unlock.
ExternalReady(x) ==
    /\ x \notin ready
    /\ ready' = ready \cup {x}
    /\ conts' = conts \ {x}
    /\ thread' = [thread EXCEPT ![x] = IF x \in conts THEN "dispatch" ELSE "done"]
    /\ UNCHANGED <<loopVars, scopeVars, opVars, pc, ctlVars, terminated>>

\* ... and afterwards dispatches the wake it took out of m_continuations.
ExternalDispatch(x) ==
    /\ thread[x] = "dispatch"
    /\ post(Wake)
    /\ thread' = [thread EXCEPT ![x] = "notify"]
    /\ UNCHANGED <<finished, scopeVars, opVars, eventVars, pc, ctlVars>>

\* RunLoop::post: m_ready.notify_one() after the mutex is released.
Notify(t) ==
    /\ thread[t] = "notify"
    /\ thread' = [thread EXCEPT ![t] = IF t \in Ops THEN "idle" ELSE "done"]
    /\ pc' = notified
    /\ UNCHANGED <<loopVars, scopeVars, opVars, eventVars, ctlVars, terminated>>

\* The context is gone and nothing runs any more.
Over ==
    /\ pc = "gone" /\ \A t \in Threads : thread[t] \in {"idle", "done"}
    /\ Externals \subseteq ready
    /\ UNCHANGED vars

Control == \/ Check \/ RunOne \/ Block \/ BatchTake \/ BatchReturn
           \/ NextStageInline \/ NextStage \/ Deliver \/ Release \/ SetJoined
           \/ Finish \/ Destruct

Next ==
    \/ \E o \in Ops : Spawn(o) \/ SpawnInline(o) \/ UpstreamComplete(o)
    \/ \E e \in Ops \cup Externals : Wait(e)
    \/ \E destroy \in BOOLEAN : Close(destroy)
    \/ RunReady \/ SpuriousWake \/ Control
    \/ \E x \in Externals : ExternalReady(x) \/ ExternalDispatch(x)
    \/ \E t \in Threads : Notify(t)
    \/ Over

\* The control thread keeps running inside a call it made; every started
\* operation is eventually completed by its thread.  The application owes no
\* call, and no external event need ever become ready.
Fairness ==
    /\ WF_vars(Control)
    /\ \A o \in Ops : WF_vars(UpstreamComplete(o)) /\ WF_vars(Notify(o))
    /\ \A x \in Externals : WF_vars(ExternalDispatch(x)) /\ WF_vars(Notify(x))

Spec == Init /\ [][Next]_vars /\ Fairness

-----------------------------------------------------------------------------
Live == {o \in Ops : op[o] \in {"running", "queued"}}

TypeOK ==
    /\ tasks \in Seq(Task) /\ finished \in BOOLEAN
    /\ status \in {"open", "joining", "joined"} /\ operations \in Nat
    /\ op \in [Ops -> {"unborn", "running", "queued", "destroyed"}]
    /\ rounds \in [Ops -> 0 .. MaxRounds]
    /\ ready \subseteq Events /\ conts \subseteq Events
    /\ thread \in [Threads -> {"idle", "dispatch", "notify", "done"}]
    /\ pc \in {"app", "check", "runOne", "blocked", "batch", "deliver", "release",
               "joined", "finish", "destruct", "gone"}
    /\ caller \in {"check", "batch"} /\ target \in Events
    /\ budget \in Nat /\ current \in Ops \cup {None}
    /\ destroying \in BOOLEAN /\ terminated \in BOOLEAN

\* async_scope.hpp: "join() ... completes when every operation is quiescent".
\* Once the scope reports joined, every spawned operation has been destroyed and
\* has published its output, and no task of any of them is left to run.
JoinedQuiescent ==
    status = "joined" =>
        /\ \A o \in Ops : op[o] # "unborn" => op[o] = "destroyed" /\ o \in ready
        /\ \A i \in 1 .. Len(tasks) : tasks[i] = Wake

\* No thread posts to a finished loop and the scope is joined when it is
\* destroyed: none of the std::terminate paths of RunLoop::post and ~AsyncScope
\* is taken.
NoTerminate == ~terminated

\* RunLoop::runOne sleeps through no task: when the control thread is blocked on
\* a non-empty queue, the notify_one that follows the append is still to come.
NoLostTask ==
    pc = "blocked" /\ tasks # <<>> => \E t \in Threads : thread[t] = "notify"

\* ControlContext::wait never sleeps on an event that is already ready without a
\* wake on its way: queued, or still being dispatched by the completing thread.
WakeGuaranteed ==
    pc = "blocked" /\ target \in ready =>
        \/ tasks # <<>>
        \/ \E x \in Externals : thread[x] \in {"dispatch", "notify"}

\* run_loop.hpp: "Cheap scheduling handle; its RunLoop must outlive it."  No
\* thread is inside RunLoop::post, whose last step notifies m_ready, when
\* ~ControlContext has destroyed the loop.
LoopOutlivesPosts ==
    pc = "gone" => \A t \in Threads : thread[t] # "notify"

\* The scope implements the abstract structured scope: no operation enters a
\* closed scope, and joined means that none is live.
Scope == INSTANCE StructuredScope WITH
    phase <- status,
    live <- Live,
    done <- {o \in Ops : op[o] = "destroyed"}

\* AsyncScope as ControlContext drives it keeps the promise of StructuredScope,
\* the completion of every live operation after join() included.
ScopeRefinement == Scope!Spec

\* Destruction "may block" (control_context.hpp) but ends once every owned
\* operation has completed: ~ControlContext always returns.
DestructionReturns == destroying ~> pc = "gone"

\* runReady() runs a snapshot, so tasks that keep arriving, re-posted ones
\* included, cannot monopolize the caller: it always returns.
RunReadyReturns == pc = "batch" ~> pc = "app"
=============================================================================
