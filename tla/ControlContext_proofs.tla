----------------------- MODULE ControlContext_proofs -----------------------
(***************************************************************************)
(* Proofs about ControlContext, for every set of operations and external   *)
(* events.                                                                 *)
(***************************************************************************)
EXTENDS ControlContext, FiniteSetTheorems, TLAPS

(* The queue holds at most one completion task per operation, only of      *)
(* operations whose upstream has completed, and never of the one whose     *)
(* task is running.                                                        *)
TaskInv ==
    /\ \A i \in 1 .. Len(tasks) : tasks[i] \in Ops => op[tasks[i]] = "queued"
    /\ \A i, j \in 1 .. Len(tasks) : tasks[i] = tasks[j] /\ tasks[i] \in Ops => i = j
    /\ pc \in {"deliver", "release"} =>
          /\ current \in Ops /\ op[current] = "queued"
          /\ \A i \in 1 .. Len(tasks) : tasks[i] # current

(* m_operations counts the operations the scope owns.                      *)
CountInv ==
    /\ operations = Cardinality(Live)
    /\ status = "joined" => operations = 0
    /\ status = "joining" => operations # 0

(* What the position of the control thread says about the other state.     *)
PhaseInv ==
    /\ finished <=> pc \in {"destruct", "gone"}
    /\ pc \in {"joined", "finish", "destruct", "gone"} => status = "joined"
    /\ Joined \in ready => status = "joined"
    /\ destroying => /\ target = Joined
                     /\ pc \notin {"app", "batch"}
                     /\ pc \in {"deliver", "release", "joined"} => caller = "check"

(* An operation publishes its output before it is destroyed.               *)
OutputInv ==
    /\ \A o \in Ops : op[o] = "destroyed" => o \in ready
    /\ pc = "release" => current \in ready

IInv == TypeOK /\ TaskInv /\ CountInv /\ PhaseInv /\ OutputInv

-----------------------------------------------------------------------------
LEMMA LiveFinite == IsFiniteSet(Live)
  <1>1. Live \subseteq Ops
    BY DEF Live
  <1> QED
    BY <1>1, FS_Subset, ConstantsAssumption DEF ConstantsAssumption

(* An operation that is live keeps the scope from being joined and the     *)
(* loop from being finished.                                               *)
LEMMA LiveKeepsLoop ==
  ASSUME CountInv, PhaseInv, NEW o \in Ops, op[o] \in {"running", "queued"}
  PROVE  status # "joined" /\ ~finished
  <1>1. o \in Live
    BY DEF Live
  <1>2. Cardinality(Live) # 0
    BY <1>1, LiveFinite, FS_EmptySet
  <1> QED
    BY <1>2 DEF CountInv, PhaseInv

(* RunLoop::post leaves a queue of tasks, whichever way it goes.           *)
LEMMA PostType ==
  ASSUME TypeOK, NEW task \in Task, post(task)
  PROVE  tasks' \in Seq(Task) /\ terminated' \in BOOLEAN
  BY DEF TypeOK, post

(* The same for subscribing a wake and for completing an event.            *)
LEMMA SubscribeType ==
  ASSUME TypeOK, NEW e \in Events, continueWith(e)
  PROVE  tasks' \in Seq(Task) /\ terminated' \in BOOLEAN /\ conts' \subseteq Events
  <1>1. CASE e \in ready
    BY <1>1, PostType DEF continueWith, TypeOK, Task
  <1>2. CASE e \notin ready
    BY <1>2 DEF continueWith, TypeOK
  <1> QED
    BY <1>1, <1>2

LEMMA SetReadyType ==
  ASSUME TypeOK, NEW e \in Events, setReady(e)
  PROVE  /\ tasks' \in Seq(Task) /\ terminated' \in BOOLEAN
         /\ ready' \subseteq Events /\ conts' \subseteq Events
  <1>1. CASE e \in conts
    BY <1>1, PostType DEF setReady, TypeOK, Task
  <1>2. CASE e \notin conts
    BY <1>2 DEF setReady, TypeOK
  <1> QED
    BY <1>1, <1>2

(* The operation whose task is running is still counted.                   *)
LEMMA RunningCounted ==
  ASSUME IInv, pc \in {"deliver", "release"}
  PROVE  /\ current \in Live
         /\ operations >= 1
         /\ status # "joined"
  <1>1. current \in Live
    BY DEF IInv, TaskInv, Live
  <1>2. Cardinality(Live) \in Nat /\ Cardinality(Live) # 0
    BY <1>1, LiveFinite, FS_EmptySet, FS_CardinalityType
  <1> QED
    BY <1>1, <1>2 DEF IInv, CountInv

(* The initial state satisfies the inductive invariant.                    *)
LEMMA InitIInv == Init => IInv
  <1> SUFFICES ASSUME Init PROVE IInv
    OBVIOUS
  <1>1. TypeOK
    <2>1. tasks \in Seq(Task) /\ operations \in Nat /\ budget \in Nat
      BY DEF Init
    <2>2. finished \in BOOLEAN /\ destroying \in BOOLEAN /\ terminated \in BOOLEAN
      BY Zenon DEF Init
    <2>3. rounds \in [Ops -> 0 .. MaxRounds]
      BY ConstantsAssumption DEF Init, ConstantsAssumption
    <2>4. /\ op \in [Ops -> {"unborn", "running", "queued", "destroyed"}]
          /\ thread \in [Threads -> {"idle", "dispatch", "notify", "done"}]
          /\ ready \subseteq Events /\ conts \subseteq Events
          /\ target \in Events /\ current \in Ops \cup {None}
      BY DEF Init, Events
    <2> QED
      BY <2>1, <2>2, <2>3, <2>4 DEF Init, TypeOK
  <1>2. Live = {}
    BY DEF Init, Live
  <1>3. CountInv
    BY <1>2, FS_EmptySet DEF Init, CountInv
  <1>4. TaskInv /\ PhaseInv /\ OutputInv
    BY DEF Init, TaskInv, PhaseInv, OutputInv
  <1> QED
    BY <1>1, <1>3, <1>4 DEF IInv

(* Every step preserves the types.                                         *)
LEMMA TypeStep == IInv /\ [Next]_vars => TypeOK'
  <1> SUFFICES ASSUME IInv, [Next]_vars PROVE TypeOK'
    OBVIOUS
  <1> USE DEF IInv, TypeOK
  <1>1. ASSUME NEW o \in Ops, Spawn(o) PROVE TypeOK'
    BY <1>1 DEF Spawn, maySpawn, loopVars, opVars, eventVars, ctlVars
  <1>2. ASSUME NEW o \in Ops, SpawnInline(o) PROVE TypeOK'
    BY <1>2 DEF SpawnInline, maySpawn, post, eventVars, ctlVars, Task
  <1>3. ASSUME NEW o \in Ops, UpstreamComplete(o) PROVE TypeOK'
    BY <1>3 DEF UpstreamComplete, post, scopeVars, eventVars, ctlVars, Task, Threads
  <1>4. ASSUME NEW e \in Ops \cup Externals, Wait(e) PROVE TypeOK'
    <2>1. e \in Events
      BY <1>4 DEF Events
    <2> QED
      BY <1>4, <2>1, SubscribeType DEF Wait, scopeVars, opVars
  <1>5. ASSUME NEW destroy \in BOOLEAN, Close(destroy) PROVE TypeOK'
    <2>1. Joined \in Events
      BY DEF Events
    <2>2. /\ tasks' \in Seq(Task) /\ terminated' \in BOOLEAN
          /\ ready' \subseteq Events /\ conts' \subseteq Events
      <3>1. CASE operations = 0
        BY <1>5, <2>1, <3>1, PostType DEF Close, Task
      <3>2. CASE operations # 0
        BY <1>5, <2>1, <3>2, SubscribeType DEF Close
      <3> QED
        BY <3>1, <3>2
    <2> QED
      BY <1>5, <2>1, <2>2 DEF Close, opVars
  <1>6. CASE RunReady
    BY <1>6 DEF RunReady, loopVars, scopeVars, opVars, eventVars
  <1>7. CASE SpuriousWake
    BY <1>7 DEF SpuriousWake, loopVars, scopeVars, opVars, eventVars, ctlVars
  <1>8. CASE Check
    BY <1>8 DEF Check, loopVars, scopeVars, opVars, eventVars, ctlVars
  <1>9. CASE RunOne
    BY <1>9 DEF RunOne, take, scopeVars, opVars, eventVars, Task
  <1>10. CASE Block
    BY <1>10 DEF Block, loopVars, scopeVars, opVars, eventVars, ctlVars
  <1>11. CASE BatchTake
    BY <1>11 DEF BatchTake, take, scopeVars, opVars, eventVars, Task
  <1>12. CASE BatchReturn
    BY <1>12 DEF BatchReturn, loopVars, scopeVars, opVars, eventVars
  <1>13. CASE NextStageInline
    <2>1. current \in Ops
      BY <1>13, RunningCounted DEF NextStageInline, continues, Live
    <2>2. rounds' \in [Ops -> 0 .. MaxRounds]
      BY <1>13, <2>1, ConstantsAssumption
         DEF NextStageInline, continues, ConstantsAssumption
    <2> QED
      BY <1>13, <2>1, <2>2, PostType DEF NextStageInline, continues, Task, scopeVars, eventVars
  <1>14. CASE NextStage
    <2>1. current \in Ops
      BY <1>14, RunningCounted DEF NextStage, continues, Live
    <2>2. rounds' \in [Ops -> 0 .. MaxRounds]
      BY <1>14, <2>1, ConstantsAssumption DEF NextStage, continues, ConstantsAssumption
    <2> QED
      BY <1>14, <2>1, <2>2 DEF NextStage, continues, loopVars, scopeVars, eventVars
  <1>15. CASE Deliver
    <2>1. current \in Events
      BY <1>15, RunningCounted DEF Deliver, Live, Events
    <2> QED
      BY <1>15, <2>1, SetReadyType DEF Deliver, scopeVars, opVars, ctlVars
  <1>16. CASE Release
    <2>1. operations >= 1 /\ current \in Ops
      BY <1>16, RunningCounted DEF Release, Live
    <2> QED
      BY <1>16, <2>1 DEF Release, loopVars, eventVars
  <1>17. CASE SetJoined
    <2>1. Joined \in Events
      BY DEF Events
    <2> QED
      BY <1>17, <2>1, SetReadyType DEF SetJoined, scopeVars, opVars, ctlVars
  <1>18. CASE Finish
    BY <1>18 DEF Finish, scopeVars, opVars, eventVars, ctlVars
  <1>19. CASE Destruct
    BY <1>19 DEF Destruct, scopeVars, opVars, eventVars, ctlVars
  <1>20. ASSUME NEW x \in Externals, ExternalReady(x) PROVE TypeOK'
    BY <1>20 DEF ExternalReady, loopVars, scopeVars, opVars, ctlVars, Events, Threads
  <1>21. ASSUME NEW x \in Externals, ExternalDispatch(x) PROVE TypeOK'
    BY <1>21 DEF ExternalDispatch, post, scopeVars, opVars, eventVars, ctlVars, Task,
        Threads
  <1>22. ASSUME NEW t \in Threads, Notify(t) PROVE TypeOK'
    BY <1>22 DEF Notify, notified, loopVars, scopeVars, opVars, eventVars, ctlVars,
        Threads
  <1>23. CASE UNCHANGED vars
    BY <1>23 DEF vars
  <1> QED
    BY <1>1, <1>2, <1>3, <1>4, <1>5, <1>6, <1>7, <1>8, <1>9, <1>10, <1>11, <1>12,
        <1>13, <1>14, <1>15, <1>16, <1>17, <1>18, <1>19, <1>20, <1>21, <1>22, <1>23 DEF Next, Control, Over

(* Posting a wake, or nothing, disturbs no completion task.                *)
LEMMA WakeTask ==
  ASSUME TypeOK, TaskInv, post(Wake) \/ tasks' = tasks, op' = op, current' = current
  PROVE  /\ \A i \in 1 .. Len(tasks') : tasks'[i] \in Ops => op'[tasks'[i]] = "queued"
         /\ \A i, j \in 1 .. Len(tasks') :
               tasks'[i] = tasks'[j] /\ tasks'[i] \in Ops => i = j
         /\ pc \in {"deliver", "release"} =>
               /\ current' \in Ops /\ op'[current'] = "queued"
               /\ \A i \in 1 .. Len(tasks') : tasks'[i] # current'
  <1>1. CASE tasks' = tasks
    BY <1>1 DEF TaskInv
  <1>2. CASE tasks' = Append(tasks, Wake)
    BY <1>2, ConstantsAssumption DEF TypeOK, TaskInv, Task, ConstantsAssumption
  <1> QED
    BY <1>1, <1>2 DEF post

(* The three ways an action changes the set of live operations.            *)
LEMMA LiveSame ==
  ASSUME CountInv, Live' = Live, operations' = operations
  PROVE  operations' = Cardinality(Live')
  BY DEF CountInv

LEMMA LiveAdd ==
  ASSUME CountInv, operations \in Nat, NEW o \in Ops, o \notin Live,
         Live' = Live \cup {o}, operations' = operations + 1
  PROVE  operations' = Cardinality(Live')
  <1>1. Cardinality(Live \cup {o}) = Cardinality(Live) + 1
    BY LiveFinite, FS_AddElement
  <1> QED
    BY <1>1 DEF CountInv

LEMMA LiveRemove ==
  ASSUME CountInv, operations \in Nat, NEW o \in Live,
         Live' = Live \ {o}, operations' = operations - 1
  PROVE  operations' = Cardinality(Live')
  <1>1. Cardinality(Live \ {o}) = Cardinality(Live) - 1
    BY LiveFinite, FS_RemoveElement
  <1> QED
    BY <1>1 DEF CountInv

(* Every step preserves the shape of the queue.                            *)
LEMMA TaskStep == IInv /\ TypeOK' /\ [Next]_vars => TaskInv'
  <1> SUFFICES ASSUME IInv, TypeOK', [Next]_vars PROVE TaskInv'
    OBVIOUS
  <1> USE ConstantsAssumption DEF IInv, TypeOK, TaskInv, Task, ConstantsAssumption
  <1>1. ASSUME NEW o \in Ops, Spawn(o) PROVE TaskInv'
    BY <1>1 DEF Spawn, maySpawn, loopVars, opVars, eventVars, ctlVars
  <1>2. ASSUME NEW o \in Ops, SpawnInline(o) PROVE TaskInv'
    BY <1>2 DEF SpawnInline, maySpawn, post, eventVars, ctlVars
  <1>3. ASSUME NEW o \in Ops, UpstreamComplete(o) PROVE TaskInv'
    BY <1>3 DEF UpstreamComplete, post, scopeVars, eventVars, ctlVars
  <1>4. ASSUME NEW e \in Ops \cup Externals, Wait(e) PROVE TaskInv'
    <2>1. (post(Wake) \/ tasks' = tasks) /\ op' = op /\ current' = current
      BY <1>4 DEF Wait, continueWith, opVars
    <2> QED
      BY <1>4, <2>1, WakeTask DEF Wait
  <1>5. ASSUME NEW destroy \in BOOLEAN, Close(destroy) PROVE TaskInv'
    <2>1. (post(Wake) \/ tasks' = tasks) /\ op' = op /\ current' = current
      BY <1>5 DEF Close, continueWith, opVars
    <2> QED
      BY <1>5, <2>1, WakeTask DEF Close
  <1>6. CASE RunReady
    BY <1>6 DEF RunReady, loopVars, scopeVars, opVars, eventVars
  <1>7. CASE SpuriousWake
    BY <1>7 DEF SpuriousWake, loopVars, scopeVars, opVars, eventVars, ctlVars
  <1>8. CASE Check
    BY <1>8 DEF Check, loopVars, scopeVars, opVars, eventVars, ctlVars
  <1>9. CASE RunOne
    BY <1>9 DEF RunOne, take, scopeVars, opVars, eventVars
  <1>10. CASE Block
    BY <1>10 DEF Block, loopVars, scopeVars, opVars, eventVars, ctlVars
  <1>11. CASE BatchTake
    BY <1>11 DEF BatchTake, take, scopeVars, opVars, eventVars
  <1>12. CASE BatchReturn
    BY <1>12 DEF BatchReturn, loopVars, scopeVars, opVars, eventVars
  <1>13. CASE NextStageInline
    BY <1>13 DEF NextStageInline, continues, post, scopeVars, eventVars
  <1>14. CASE NextStage
    BY <1>14 DEF NextStage, continues, loopVars, scopeVars, opVars, eventVars
  <1>15. CASE Deliver
    <2>1. (post(Wake) \/ tasks' = tasks) /\ op' = op /\ current' = current
      BY <1>15 DEF Deliver, setReady, opVars, ctlVars
    <2> QED
      BY <1>15, <2>1, WakeTask DEF Deliver
  <1>16. CASE Release
    BY <1>16 DEF Release, loopVars, opVars, eventVars
  <1>17. CASE SetJoined
    <2>1. (post(Wake) \/ tasks' = tasks) /\ op' = op /\ current' = current
      BY <1>17 DEF SetJoined, setReady, opVars, ctlVars
    <2>2. pc' \notin {"deliver", "release"}
      BY <1>17 DEF SetJoined
    <2> QED
      BY <2>1, <2>2, WakeTask
  <1>18. CASE Finish
    BY <1>18 DEF Finish, scopeVars, opVars, eventVars, ctlVars
  <1>19. CASE Destruct
    BY <1>19 DEF Destruct, scopeVars, opVars, eventVars, ctlVars
  <1>20. ASSUME NEW x \in Externals, ExternalReady(x) PROVE TaskInv'
    BY <1>20 DEF ExternalReady, loopVars, scopeVars, opVars, ctlVars
  <1>21. ASSUME NEW x \in Externals, ExternalDispatch(x) PROVE TaskInv'
    BY <1>21 DEF ExternalDispatch, post, scopeVars, opVars, eventVars, ctlVars
  <1>22. ASSUME NEW t \in Threads, Notify(t) PROVE TaskInv'
    BY <1>22 DEF Notify, notified, loopVars, scopeVars, opVars, eventVars, ctlVars
  <1>23. CASE UNCHANGED vars
    BY <1>23 DEF vars
  <1> QED
    BY <1>1, <1>2, <1>3, <1>4, <1>5, <1>6, <1>7, <1>8, <1>9, <1>10, <1>11, <1>12,
        <1>13, <1>14, <1>15, <1>16, <1>17, <1>18, <1>19, <1>20, <1>21, <1>22, <1>23 DEF Next, Control, Over

(* Every step preserves the count of the scope.                            *)
LEMMA CountStep == IInv /\ TypeOK' /\ [Next]_vars => CountInv'
  <1> SUFFICES ASSUME IInv, TypeOK', [Next]_vars PROVE CountInv'
    OBVIOUS
  <1> USE DEF IInv, TypeOK, CountInv
  <1>1. ASSUME NEW o \in Ops, Spawn(o) PROVE CountInv'
    <2>1. o \notin Live /\ Live' = Live \cup {o} /\ operations' = operations + 1
      BY <1>1 DEF Spawn, maySpawn, Live
    <2>2. operations' = Cardinality(Live')
      BY <2>1, LiveAdd
    <2> QED
      BY <1>1, <2>2 DEF Spawn, maySpawn
  <1>2. ASSUME NEW o \in Ops, SpawnInline(o) PROVE CountInv'
    <2>1. o \notin Live /\ Live' = Live \cup {o} /\ operations' = operations + 1
      BY <1>2 DEF SpawnInline, maySpawn, Live
    <2>2. operations' = Cardinality(Live')
      BY <2>1, LiveAdd
    <2> QED
      BY <1>2, <2>2 DEF SpawnInline, maySpawn
  <1>3. ASSUME NEW o \in Ops, UpstreamComplete(o) PROVE CountInv'
    <2>1. Live' = Live
      BY <1>3, ConstantsAssumption DEF UpstreamComplete, scopeVars, Live, ConstantsAssumption, TaskInv
    <2> QED
      BY <1>3, <2>1, LiveSame DEF UpstreamComplete, scopeVars
  <1>4. ASSUME NEW e \in Ops \cup Externals, Wait(e) PROVE CountInv'
    BY <1>4 DEF Wait, continueWith, post, scopeVars, opVars, Live
  <1>5. ASSUME NEW destroy \in BOOLEAN, Close(destroy) PROVE CountInv'
    BY <1>5 DEF Close, continueWith, post, opVars, Live
  <1>6. CASE RunReady
    BY <1>6 DEF RunReady, loopVars, scopeVars, opVars, eventVars, Live
  <1>7. CASE SpuriousWake
    BY <1>7 DEF SpuriousWake, loopVars, scopeVars, opVars, eventVars, ctlVars, Live
  <1>8. CASE Check
    BY <1>8 DEF Check, loopVars, scopeVars, opVars, eventVars, ctlVars, Live
  <1>9. CASE RunOne
    BY <1>9 DEF RunOne, take, scopeVars, opVars, eventVars, Live
  <1>10. CASE Block
    BY <1>10 DEF Block, loopVars, scopeVars, opVars, eventVars, ctlVars, Live
  <1>11. CASE BatchTake
    BY <1>11 DEF BatchTake, take, scopeVars, opVars, eventVars, Live
  <1>12. CASE BatchReturn
    BY <1>12 DEF BatchReturn, loopVars, scopeVars, opVars, eventVars, Live
  <1>13. CASE NextStageInline
    BY <1>13 DEF NextStageInline, continues, post, scopeVars, eventVars, Live
  <1>14. CASE NextStage
    <2>1. current \in Live
      BY <1>14, RunningCounted DEF NextStage, continues
    <2>2. Live' = Live
      BY <1>14, <2>1 DEF NextStage, Live
    <2> QED
      BY <1>14, <2>2, LiveSame DEF NextStage, scopeVars
  <1>15. CASE Deliver
    BY <1>15 DEF Deliver, setReady, post, scopeVars, opVars, ctlVars, Live
  <1>16. CASE Release
    <2>1. current \in Live /\ operations >= 1 /\ status # "joined"
      BY <1>16, RunningCounted DEF Release
    <2>2. Live' = Live \ {current} /\ operations' = operations - 1
      BY <1>16, <2>1 DEF Release, Live
    <2>3. operations' = Cardinality(Live')
      BY <2>1, <2>2, LiveRemove
    <2> QED
      BY <1>16, <2>1, <2>2, <2>3 DEF Release
  <1>17. CASE SetJoined
    BY <1>17 DEF SetJoined, setReady, post, scopeVars, opVars, ctlVars, Live
  <1>18. CASE Finish
    BY <1>18 DEF Finish, scopeVars, opVars, eventVars, ctlVars, Live
  <1>19. CASE Destruct
    BY <1>19 DEF Destruct, scopeVars, opVars, eventVars, ctlVars, Live
  <1>20. ASSUME NEW x \in Externals, ExternalReady(x) PROVE CountInv'
    BY <1>20 DEF ExternalReady, loopVars, scopeVars, opVars, ctlVars, Live
  <1>21. ASSUME NEW x \in Externals, ExternalDispatch(x) PROVE CountInv'
    BY <1>21 DEF ExternalDispatch, post, scopeVars, opVars, eventVars, ctlVars, Live
  <1>22. ASSUME NEW t \in Threads, Notify(t) PROVE CountInv'
    BY <1>22 DEF Notify, notified, loopVars, scopeVars, opVars, eventVars, ctlVars, Live
  <1>23. CASE UNCHANGED vars
    BY <1>23 DEF vars, Live
  <1> QED
    BY <1>1, <1>2, <1>3, <1>4, <1>5, <1>6, <1>7, <1>8, <1>9, <1>10, <1>11, <1>12,
        <1>13, <1>14, <1>15, <1>16, <1>17, <1>18, <1>19, <1>20, <1>21, <1>22, <1>23 DEF Next, Control, Over

(* Every step keeps the control thread's position in step with the rest.   *)
LEMMA PhaseStep == IInv /\ TypeOK' /\ [Next]_vars => PhaseInv'
  <1> SUFFICES ASSUME IInv, TypeOK', [Next]_vars PROVE PhaseInv'
    OBVIOUS
  <1> USE DEF IInv, TypeOK, PhaseInv
  <1>1. ASSUME NEW o \in Ops, Spawn(o) PROVE PhaseInv'
    BY <1>1 DEF Spawn, maySpawn, loopVars, opVars, eventVars, ctlVars
  <1>2. ASSUME NEW o \in Ops, SpawnInline(o) PROVE PhaseInv'
    BY <1>2 DEF SpawnInline, maySpawn, post, eventVars, ctlVars
  <1>3. ASSUME NEW o \in Ops, UpstreamComplete(o) PROVE PhaseInv'
    BY <1>3 DEF UpstreamComplete, post, scopeVars, eventVars, ctlVars
  <1>4. ASSUME NEW e \in Ops \cup Externals, Wait(e) PROVE PhaseInv'
    BY <1>4 DEF Wait, continueWith, post, scopeVars, opVars
  <1>5. ASSUME NEW destroy \in BOOLEAN, Close(destroy) PROVE PhaseInv'
    <2>1. /\ operations # 0 => ready' = ready /\ status # "joined"
          /\ operations = 0 => status' = "joined"
      BY <1>5 DEF Close, CountInv
    <2> QED
      BY <1>5, <2>1 DEF Close
  <1>6. CASE RunReady
    BY <1>6 DEF RunReady, loopVars, scopeVars, opVars, eventVars
  <1>7. CASE SpuriousWake
    BY <1>7 DEF SpuriousWake, loopVars, scopeVars, opVars, eventVars, ctlVars
  <1>8. CASE Check
    BY <1>8 DEF Check, loopVars, scopeVars, opVars, eventVars, ctlVars
  <1>9. CASE RunOne
    BY <1>9 DEF RunOne, take, scopeVars, opVars, eventVars
  <1>10. CASE Block
    BY <1>10 DEF Block, loopVars, scopeVars, opVars, eventVars, ctlVars
  <1>11. CASE BatchTake
    BY <1>11 DEF BatchTake, take, scopeVars, opVars, eventVars
  <1>12. CASE BatchReturn
    BY <1>12 DEF BatchReturn, loopVars, scopeVars, opVars, eventVars
  <1>13. CASE NextStageInline
    BY <1>13 DEF NextStageInline, continues, post, scopeVars, eventVars
  <1>14. CASE NextStage
    BY <1>14 DEF NextStage, continues, loopVars, scopeVars, opVars, eventVars
  <1>15. CASE Deliver
    <2>1. current # Joined
      BY <1>15, RunningCounted, ConstantsAssumption DEF Deliver, Live, ConstantsAssumption
    <2> QED
      BY <1>15, <2>1 DEF Deliver, setReady, scopeVars, ctlVars
  <1>16. CASE Release
    BY <1>16 DEF Release, loopVars, opVars, eventVars
  <1>17. CASE SetJoined
    BY <1>17 DEF SetJoined, setReady, post, scopeVars, opVars, ctlVars
  <1>18. CASE Finish
    BY <1>18 DEF Finish, scopeVars, opVars, eventVars, ctlVars
  <1>19. CASE Destruct
    BY <1>19 DEF Destruct, scopeVars, opVars, eventVars, ctlVars
  <1>20. ASSUME NEW x \in Externals, ExternalReady(x) PROVE PhaseInv'
    <2>1. x # Joined
      BY <1>20, ConstantsAssumption DEF ConstantsAssumption
    <2> QED
      BY <1>20, <2>1 DEF ExternalReady, loopVars, scopeVars, ctlVars
  <1>21. ASSUME NEW x \in Externals, ExternalDispatch(x) PROVE PhaseInv'
    BY <1>21 DEF ExternalDispatch, post, scopeVars, opVars, eventVars, ctlVars
  <1>22. ASSUME NEW t \in Threads, Notify(t) PROVE PhaseInv'
    BY <1>22 DEF Notify, notified, loopVars, scopeVars, opVars, eventVars, ctlVars
  <1>23. CASE UNCHANGED vars
    BY <1>23 DEF vars
  <1> QED
    BY <1>1, <1>2, <1>3, <1>4, <1>5, <1>6, <1>7, <1>8, <1>9, <1>10, <1>11, <1>12,
        <1>13, <1>14, <1>15, <1>16, <1>17, <1>18, <1>19, <1>20, <1>21, <1>22, <1>23 DEF Next, Control, Over

(* Every step keeps outputs published.                                     *)
LEMMA OutputStep == IInv /\ TypeOK' /\ [Next]_vars => OutputInv'
  <1> SUFFICES ASSUME IInv, TypeOK', [Next]_vars PROVE OutputInv'
    OBVIOUS
  <1> USE DEF IInv, TypeOK, OutputInv
  <1>1. ASSUME NEW o \in Ops, Spawn(o) PROVE OutputInv'
    BY <1>1 DEF Spawn, maySpawn, loopVars, opVars, eventVars, ctlVars
  <1>2. ASSUME NEW o \in Ops, SpawnInline(o) PROVE OutputInv'
    BY <1>2 DEF SpawnInline, maySpawn, post, eventVars, ctlVars
  <1>3. ASSUME NEW o \in Ops, UpstreamComplete(o) PROVE OutputInv'
    BY <1>3 DEF UpstreamComplete, post, scopeVars, eventVars, ctlVars
  <1>4. ASSUME NEW e \in Ops \cup Externals, Wait(e) PROVE OutputInv'
    BY <1>4 DEF Wait, continueWith, post, scopeVars, opVars
  <1>5. ASSUME NEW destroy \in BOOLEAN, Close(destroy) PROVE OutputInv'
    BY <1>5 DEF Close, continueWith, post, opVars
  <1>6. CASE RunReady
    BY <1>6 DEF RunReady, loopVars, scopeVars, opVars, eventVars
  <1>7. CASE SpuriousWake
    BY <1>7 DEF SpuriousWake, loopVars, scopeVars, opVars, eventVars, ctlVars
  <1>8. CASE Check
    BY <1>8 DEF Check, loopVars, scopeVars, opVars, eventVars, ctlVars
  <1>9. CASE RunOne
    BY <1>9 DEF RunOne, take, scopeVars, opVars, eventVars
  <1>10. CASE Block
    BY <1>10 DEF Block, loopVars, scopeVars, opVars, eventVars, ctlVars
  <1>11. CASE BatchTake
    BY <1>11 DEF BatchTake, take, scopeVars, opVars, eventVars
  <1>12. CASE BatchReturn
    BY <1>12 DEF BatchReturn, loopVars, scopeVars, opVars, eventVars
  <1>13. CASE NextStageInline
    BY <1>13 DEF NextStageInline, continues, post, scopeVars, eventVars
  <1>14. CASE NextStage
    BY <1>14 DEF NextStage, continues, loopVars, scopeVars, opVars, eventVars
  <1>15. CASE Deliver
    BY <1>15 DEF Deliver, setReady, post, scopeVars, opVars, ctlVars
  <1>16. CASE Release
    BY <1>16 DEF Release, loopVars, opVars, eventVars
  <1>17. CASE SetJoined
    BY <1>17 DEF SetJoined, setReady, post, scopeVars, opVars, ctlVars
  <1>18. CASE Finish
    BY <1>18 DEF Finish, scopeVars, opVars, eventVars, ctlVars
  <1>19. CASE Destruct
    BY <1>19 DEF Destruct, scopeVars, opVars, eventVars, ctlVars
  <1>20. ASSUME NEW x \in Externals, ExternalReady(x) PROVE OutputInv'
    BY <1>20 DEF ExternalReady, loopVars, scopeVars, opVars, ctlVars
  <1>21. ASSUME NEW x \in Externals, ExternalDispatch(x) PROVE OutputInv'
    BY <1>21 DEF ExternalDispatch, post, scopeVars, opVars, eventVars, ctlVars
  <1>22. ASSUME NEW t \in Threads, Notify(t) PROVE OutputInv'
    BY <1>22 DEF Notify, notified, loopVars, scopeVars, opVars, eventVars, ctlVars
  <1>23. CASE UNCHANGED vars
    BY <1>23 DEF vars
  <1> QED
    BY <1>1, <1>2, <1>3, <1>4, <1>5, <1>6, <1>7, <1>8, <1>9, <1>10, <1>11, <1>12,
        <1>13, <1>14, <1>15, <1>16, <1>17, <1>18, <1>19, <1>20, <1>21, <1>22, <1>23 DEF Next, Control, Over

-----------------------------------------------------------------------------
(* The inductive invariant holds in every reachable state.                 *)
THEOREM Invariance == Spec => []IInv
  <1>1. IInv /\ [Next]_vars => IInv'
    BY TypeStep, TaskStep, CountStep, PhaseStep, OutputStep DEF IInv
  <1> QED
    BY <1>1, InitIInv, PTL DEF Spec

(* Type correctness of the control context.                                *)
THEOREM TypeCorrect == Spec => []TypeOK
  BY Invariance, PTL DEF IInv

(* A joined AsyncScope owns nothing: for any number of operations, each    *)
(* spawned one has published its output and been destroyed, and none of    *)
(* them has a task left in the run loop.                                   *)
THEOREM JoinedScopeIsQuiescent == Spec => []JoinedQuiescent
  <1>1. IInv => JoinedQuiescent
    <2> SUFFICES ASSUME IInv, status = "joined" PROVE JoinedQuiescent
      BY DEF JoinedQuiescent
    <2>1. \A o \in Ops : op[o] \notin {"running", "queued"}
      BY LiveKeepsLoop DEF IInv
    <2>2. \A o \in Ops : op[o] # "unborn" => op[o] = "destroyed" /\ o \in ready
      BY <2>1 DEF IInv, TypeOK, OutputInv
    <2>3. \A i \in 1 .. Len(tasks) : tasks[i] = Wake
      BY <2>1 DEF IInv, TypeOK, TaskInv, Task
    <2> QED
      BY <2>2, <2>3 DEF JoinedQuiescent
  <1> QED
    BY <1>1, Invariance, PTL

(* Without external events none of the std::terminate paths is taken: the  *)
(* completing thread of an owned operation always finds the loop open, and *)
(* the scope is joined when it is destroyed.                               *)
THEOREM OwnedWorkNeverTerminates ==
  ASSUME Externals = {}
  PROVE  Spec => []NoTerminate
  <1>1. Init => NoTerminate
    BY DEF Init, NoTerminate
  <1>2. IInv /\ NoTerminate /\ [Next]_vars => NoTerminate'
    <2> SUFFICES ASSUME IInv, NoTerminate, [Next]_vars PROVE NoTerminate'
      OBVIOUS
    <2>1. ASSUME NEW o \in Ops, UpstreamComplete(o) PROVE NoTerminate'
      BY <2>1, LiveKeepsLoop DEF UpstreamComplete, post, IInv, NoTerminate
    <2>2. ASSUME NEW o \in Ops, Spawn(o) \/ SpawnInline(o) PROVE NoTerminate'
      BY <2>2 DEF Spawn, SpawnInline, maySpawn, post, IInv, PhaseInv, NoTerminate
    <2>3. ASSUME NEW e \in Ops \cup Externals, Wait(e) PROVE NoTerminate'
      BY <2>3 DEF Wait, continueWith, post, IInv, PhaseInv, NoTerminate
    <2>4. ASSUME NEW destroy \in BOOLEAN, Close(destroy) PROVE NoTerminate'
      BY <2>4 DEF Close, continueWith, post, IInv, PhaseInv, NoTerminate
    <2>5. CASE NextStageInline \/ NextStage
      BY <2>5 DEF NextStageInline, NextStage, continues, post, IInv, PhaseInv, NoTerminate
    <2>6. CASE Deliver \/ SetJoined
      BY <2>6 DEF Deliver, SetJoined, setReady, post, IInv, PhaseInv, NoTerminate
    <2>7. CASE Destruct
      BY <2>7 DEF Destruct, IInv, PhaseInv, NoTerminate
    <2>8. CASE RunReady \/ SpuriousWake \/ Check \/ RunOne \/ Block \/ BatchTake
               \/ BatchReturn \/ Release \/ Finish
      BY <2>8 DEF RunReady, SpuriousWake, Check, RunOne, Block, BatchTake, BatchReturn,
                  Release, Finish, NoTerminate
    <2>9. ASSUME NEW t \in Threads, Notify(t) PROVE NoTerminate'
      BY <2>9 DEF Notify, NoTerminate
    <2>10. CASE UNCHANGED vars
      BY <2>10 DEF vars, NoTerminate
    <2> QED
      BY <2>1, <2>2, <2>3, <2>4, <2>5, <2>6, <2>7, <2>8, <2>9, <2>10
         DEF Next, Control, Over
  <1> QED
    BY <1>1, <1>2, Invariance, PTL DEF Spec

-----------------------------------------------------------------------------
(* The scope of a control context implements the abstract scope: its       *)
(* initial states map to initial states, and every step spawns, joins or   *)
(* completes in the abstract scope, or leaves it alone.                    *)
THEOREM ScopeImplementsStructuredScope == Spec => Scope!SafeSpec
  <1>1. Init => Scope!Init
    BY DEF Init, Scope!Init, Live
  <1>2. IInv /\ [Next]_vars => [Scope!Next]_(Scope!vars)
    <2> SUFFICES ASSUME IInv, [Next]_vars PROVE [Scope!Next]_(Scope!vars)
      OBVIOUS
    <2> USE DEF IInv, TypeOK
    <2>1. ASSUME NEW o \in Ops, Spawn(o) \/ SpawnInline(o) PROVE Scope!Spawn(o)
      BY <2>1 DEF Spawn, SpawnInline, maySpawn, Scope!Spawn, Live
    <2>2. ASSUME NEW destroy \in BOOLEAN, Close(destroy)
          PROVE  Scope!Join \/ UNCHANGED Scope!vars
      <3>1. Live' = Live /\ op' = op
        BY <2>2 DEF Close, Live, opVars
      <3>2. operations = 0 <=> Live = {}
        BY LiveFinite, FS_EmptySet DEF CountInv
      <3> QED
        BY <2>2, <3>1, <3>2 DEF Close, Scope!Join, Scope!vars, CountInv
    <2>3. CASE Release
      <3>1. current \in Live /\ current \in Ops
        BY <2>3, RunningCounted DEF Release, Live
      <3>2. Live' = Live \ {current}
        BY <2>3, <3>1 DEF Release, Live
      <3>3. Cardinality(Live \ {current}) = operations - 1
        BY <3>1, LiveFinite, FS_RemoveElement DEF CountInv
      <3>4. operations = 1 <=> Live' = {}
        <4>1. IsFiniteSet(Live \ {current})
          BY LiveFinite, FS_RemoveElement
        <4>2. Cardinality(Live \ {current}) = 0 <=> Live \ {current} = {}
          BY <4>1, FS_EmptySet
        <4>3. operations - 1 = 0 <=> operations = 1
          OBVIOUS
        <4> QED
          BY <3>2, <3>3, <4>2, <4>3
      <3>5. {o \in Ops : op'[o] = "destroyed"}
               = {o \in Ops : op[o] = "destroyed"} \cup {current}
        BY <2>3, <3>1 DEF Release
      <3> QED
        BY <2>3, <3>1, <3>2, <3>4, <3>5 DEF Release, Scope!Complete, Scope!Next
    <2>4. CASE \/ \E o \in Ops : UpstreamComplete(o)
               \/ \E e \in Ops \cup Externals : Wait(e)
               \/ RunReady \/ SpuriousWake \/ Check \/ RunOne \/ Block \/ BatchTake
               \/ BatchReturn \/ NextStageInline \/ NextStage \/ Deliver \/ SetJoined
               \/ Finish \/ Destruct
               \/ \E x \in Externals : ExternalReady(x) \/ ExternalDispatch(x)
               \/ \E t \in Threads : Notify(t)
               \/ UNCHANGED vars
      <3>1. status' = status
        BY <2>4 DEF UpstreamComplete, Wait, RunReady, SpuriousWake, Check, RunOne, Block,
             BatchTake, BatchReturn, NextStageInline, NextStage, Deliver, SetJoined, Finish,
             Destruct, ExternalReady, ExternalDispatch, Notify, scopeVars, vars
      <3>2. \/ op' = op
            \/ \E o \in Live : op' = [op EXCEPT ![o] = "queued"]
            \/ \E o \in Live : op' = [op EXCEPT ![o] = "running"]
        <4>1. CASE NextStage
          BY <4>1, RunningCounted DEF NextStage, continues
        <4>2. ASSUME NEW o \in Ops, UpstreamComplete(o)
              PROVE  op' = [op EXCEPT ![o] = "queued"] /\ o \in Live
          BY <4>2 DEF UpstreamComplete, Live
        <4> QED
          BY <2>4, <4>1, <4>2 DEF Wait, RunReady, SpuriousWake, Check, RunOne, Block,
             BatchTake, BatchReturn, NextStageInline, Deliver, SetJoined, Finish,
             Destruct, ExternalReady, ExternalDispatch, Notify, opVars, vars
      <3>3. /\ Live' = Live
            /\ {o \in Ops : op'[o] = "destroyed"} = {o \in Ops : op[o] = "destroyed"}
        BY <3>2 DEF Live
      <3> QED
        BY <3>1, <3>3 DEF Scope!vars
    <2> QED
      BY <2>1, <2>2, <2>3, <2>4 DEF Next, Control, Over, Scope!Next
  <1> QED
    BY <1>1, <1>2, Invariance, PTL DEF Spec, Scope!SafeSpec

-----------------------------------------------------------------------------
(* Where the wake of a wait() is.  While the control thread pumps for a    *)
(* pending event the wake is registered; once it sleeps on a ready one the *)
(* wake is queued or still with the thread that completed the event.       *)
Pumping ==
    \/ pc \in {"check", "runOne", "blocked"}
    \/ pc \in {"deliver", "release", "joined"} /\ caller = "check"

WakeInv ==
    /\ \A x \in Externals : thread[x] # "idle" => x \in ready
    /\ NoLostTask
    /\ Pumping /\ target \notin ready => target \in conts
    /\ pc \in {"runOne", "blocked"} /\ target \in ready =>
          \/ tasks # <<>>
          \/ target \in Externals /\ thread[target] = "dispatch"

(* Every step keeps the wake where the control thread will find it.        *)
LEMMA WakeStep == IInv /\ WakeInv /\ TypeOK' /\ [Next]_vars => WakeInv'
  <1> SUFFICES ASSUME IInv, WakeInv, TypeOK', [Next]_vars PROVE WakeInv'
    OBVIOUS
  <1> USE ConstantsAssumption
      DEF IInv, TypeOK, WakeInv, NoLostTask, Pumping, PhaseInv, Threads, ConstantsAssumption
  <1>1. ASSUME NEW o \in Ops, Spawn(o) PROVE WakeInv'
    BY <1>1 DEF Spawn, maySpawn, loopVars, opVars, eventVars, ctlVars
  <1>2. ASSUME NEW o \in Ops, SpawnInline(o) PROVE WakeInv'
    BY <1>2 DEF SpawnInline, maySpawn, post, eventVars, ctlVars
  <1>3. ASSUME NEW o \in Ops, UpstreamComplete(o) PROVE WakeInv'
    BY <1>3 DEF UpstreamComplete, post, scopeVars, eventVars, ctlVars
  <1>4. ASSUME NEW e \in Ops \cup Externals, Wait(e) PROVE WakeInv'
    BY <1>4 DEF Wait, continueWith, post, scopeVars, opVars
  <1>5. ASSUME NEW destroy \in BOOLEAN, Close(destroy) PROVE WakeInv'
    BY <1>5 DEF Close, continueWith, post, opVars
  <1>6. CASE RunReady
    BY <1>6 DEF RunReady, loopVars, scopeVars, opVars, eventVars
  <1>7. CASE SpuriousWake
    BY <1>7 DEF SpuriousWake, loopVars, scopeVars, opVars, eventVars, ctlVars
  <1>8. CASE Check
    BY <1>8 DEF Check, loopVars, scopeVars, opVars, eventVars, ctlVars
  <1>9. CASE RunOne
    BY <1>9 DEF RunOne, take, scopeVars, opVars, eventVars
  <1>10. CASE Block
    BY <1>10 DEF Block, loopVars, scopeVars, opVars, eventVars, ctlVars
  <1>11. CASE BatchTake
    BY <1>11 DEF BatchTake, take, scopeVars, opVars, eventVars
  <1>12. CASE BatchReturn
    BY <1>12 DEF BatchReturn, loopVars, scopeVars, opVars, eventVars
  <1>13. CASE NextStageInline
    BY <1>13 DEF NextStageInline, continues, post, scopeVars, eventVars
  <1>14. CASE NextStage
    BY <1>14 DEF NextStage, continues, loopVars, scopeVars, opVars, eventVars
  <1>15. CASE Deliver
    BY <1>15 DEF Deliver, setReady, post, scopeVars, opVars, ctlVars
  <1>16. CASE Release
    BY <1>16 DEF Release, loopVars, opVars, eventVars
  <1>17. CASE SetJoined
    BY <1>17 DEF SetJoined, setReady, post, scopeVars, opVars, ctlVars
  <1>18. CASE Finish
    BY <1>18 DEF Finish, scopeVars, opVars, eventVars, ctlVars
  <1>19. CASE Destruct
    BY <1>19 DEF Destruct, scopeVars, opVars, eventVars, ctlVars
  <1>20. ASSUME NEW x \in Externals, ExternalReady(x) PROVE WakeInv'
    BY <1>20 DEF ExternalReady, loopVars, scopeVars, opVars, ctlVars
  <1>21. ASSUME NEW x \in Externals, ExternalDispatch(x) PROVE WakeInv'
    <2>1. /\ thread' = [thread EXCEPT ![x] = "notify"]
          /\ UNCHANGED <<pc, ready, conts, target, caller>>
      BY <1>21 DEF ExternalDispatch, eventVars, ctlVars
    <2>2. x \in ready /\ thread'[x] = "notify"
      BY <1>21, <2>1 DEF ExternalDispatch
    <2>3. NoLostTask'
      BY <2>2
    <2>4. pc \in {"runOne", "blocked"} => tasks' # <<>>
      <3> SUFFICES ASSUME pc \in {"runOne", "blocked"} PROVE tasks' # <<>>
        OBVIOUS
      <3>1. tasks' = Append(tasks, Wake)
        BY <1>21 DEF ExternalDispatch, post
      <3>2. Len(tasks') = Len(tasks) + 1 /\ Len(tasks) \in Nat
        BY <3>1
      <3> QED
        BY <3>2
    <2> QED
      BY <2>1, <2>2, <2>3, <2>4
  <1>22. ASSUME NEW t \in Threads, Notify(t) PROVE WakeInv'
    BY <1>22 DEF Notify, notified, loopVars, scopeVars, opVars, eventVars, ctlVars
  <1>23. CASE UNCHANGED vars
    BY <1>23 DEF vars
  <1> QED
    BY <1>1, <1>2, <1>3, <1>4, <1>5, <1>6, <1>7, <1>8, <1>9, <1>10, <1>11, <1>12,
        <1>13, <1>14, <1>15, <1>16, <1>17, <1>18, <1>19, <1>20, <1>21, <1>22, <1>23 DEF Next, Control, Over

(* The control thread never sleeps on a queue whose notification has       *)
(* already been sent.                                                      *)
THEOREM NoTaskIsLost == Spec => []NoLostTask
  <1>1. Init => WakeInv
    BY DEF Init, WakeInv, NoLostTask, Pumping, Threads
  <1>2. IInv /\ IInv' /\ WakeInv /\ [Next]_vars => WakeInv'
    BY WakeStep DEF IInv
  <1>3. WakeInv => NoLostTask
    BY DEF WakeInv
  <1> QED
    BY <1>1, <1>2, <1>3, Invariance, PTL DEF Spec

(* ControlContext::wait never sleeps on a ready event without a wake on    *)
(* its way, external events included.                                      *)
THEOREM WaitIsAlwaysWoken == Spec => []WakeGuaranteed
  <1>1. Init => WakeInv
    BY DEF Init, WakeInv, NoLostTask, Pumping, Threads
  <1>2. IInv /\ IInv' /\ WakeInv /\ [Next]_vars => WakeInv'
    BY WakeStep DEF IInv
  <1>3. WakeInv => WakeGuaranteed
    BY DEF WakeInv, WakeGuaranteed
  <1> QED
    BY <1>1, <1>2, <1>3, Invariance, PTL DEF Spec
=============================================================================
