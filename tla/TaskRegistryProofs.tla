------------------------- MODULE TaskRegistryProofs -------------------------
(***************************************************************************)
(* The safety properties of TaskRegistry, for any number of instances,     *)
(* tasks and items, any length of inbox, and with every fault allowed.     *)
(***************************************************************************)
EXTENDS TaskRegistry, TLAPS

\* What the code never writes down and every argument needs: an identifier
\* that was never issued is nowhere, cleanup follows the end of the coroutine,
\* and a dictionary holds only tasks of its own process.
LifeCycleFacts ==
  \A t \in Task :
    /\ work[t] = "unborn" =>
         /\ saving[t] = "none" /\ cleanup[t] = "none"
         /\ t \notin registry
         /\ \A i \in Instance : t \notin tasks[i]
    /\ work[t] # "unborn" => owner[t] \in Instance /\ item[t] \in Item
    /\ Running(t) => cleanup[t] = "none"
    /\ cleanup[t] # "none" => work[t] \in {"finished", "lost"}
    /\ \A i \in Instance : t \in tasks[i] => owner[t] = i

\* Only identifiers that were issued are ever asked to stop.
RequestsAreForIssued ==
  \A i \in Instance :
    /\ \A t \in stopping[i] : work[t] # "unborn"
    /\ \A n \in 1..Len(inbox[i]) : work[inbox[i][n]] # "unborn"

IInv ==
  /\ TypeOK
  /\ Cancellable
  /\ DictionariesAgree
  /\ ItemSetsWithinRegistry
  /\ RunningIsListed
  /\ LifeCycleFacts
  /\ RequestsAreForIssued

-----------------------------------------------------------------------------
LEMMA InitIInv == Init => IInv
  BY DEF Init, IInv, TypeOK, Cancellable, DictionariesAgree, ItemSetsWithinRegistry,
         RunningIsListed, LifeCycleFacts, RequestsAreForIssued, Running,
         WorkState, SavingState, CleanupState

\* Type correctness of one step.
LEMMA TypeStep == TypeOK /\ LifeCycleFacts /\ [Next]_vars => TypeOK'
<1> SUFFICES ASSUME TypeOK, LifeCycleFacts, [Next]_vars PROVE TypeOK'
  OBVIOUS
<1> USE DEF TypeOK, WorkState, SavingState, CleanupState, localVars, redisVars, stopVars
<1>1. ASSUME NEW i \in Instance, NEW t \in Task, NEW x \in Item, CreateTask(i, t, x)
      PROVE TypeOK'
  BY <1>1 DEF CreateTask
<1>2. ASSUME NEW t \in Task, SaveTask(t) \/ SaveTaskFails(t) PROVE TypeOK'
  <2>1. item[t] \in Item
    BY <1>2 DEF SaveTask, SaveTaskFails, LifeCycleFacts
  <2>2. CASE SaveTask(t)
    BY <2>1, <2>2 DEF SaveTask
  <2>3. CASE SaveTaskFails(t)
    BY <2>3 DEF SaveTaskFails
  <2> QED
    BY <1>2, <2>2, <2>3
<1>3. ASSUME NEW t \in Task, Finish(t) PROVE TypeOK'
  BY <1>3 DEF Finish
<1>4. ASSUME NEW t \in Task,
             CleanupRemove(t) \/ CleanupDelete(t) \/ CleanupPop(t) \/ CleanupFails(t)
      PROVE TypeOK'
  <2>1. item[t] \in Item /\ owner[t] \in Instance
    BY <1>4 DEF CleanupRemove, CleanupDelete, CleanupPop, CleanupFails, LifeCycleFacts
  <2>2. CASE CleanupRemove(t)
    BY <2>1, <2>2 DEF CleanupRemove
  <2>3. CASE CleanupDelete(t)
    BY <2>1, <2>3 DEF CleanupDelete
  <2>4. CASE CleanupPop(t)
    BY <2>1, <2>4 DEF CleanupPop
  <2>5. CASE CleanupFails(t)
    BY <2>5 DEF CleanupFails
  <2> QED
    BY <1>4, <2>2, <2>3, <2>4, <2>5
<1>5. ASSUME NEW t \in Task, StopTask(t) PROVE TypeOK'
  BY <1>5 DEF StopTask, Publish
<1>6. ASSUME NEW i \in Instance, NEW x \in Item, StopItemTasks(i, x) PROVE TypeOK'
  BY <1>6 DEF StopItemTasks
<1>7. ASSUME NEW i \in Instance, NEW t \in Task, StopItemTasksNext(i, t) PROVE TypeOK'
  BY <1>7 DEF StopItemTasksNext, Publish
<1>8. ASSUME NEW i \in Instance, HandleCommand(i) PROVE TypeOK'
  <2>1. Head(inbox[i]) \in Task /\ Tail(inbox[i]) \in Seq(Task)
    BY <1>8 DEF HandleCommand
  <2> QED
    BY <1>8, <2>1 DEF HandleCommand
<1>9. ASSUME NEW i \in Instance, ListenerDies(i) PROVE TypeOK'
  BY <1>9 DEF ListenerDies
<1>11. ASSUME NEW i \in Instance, Restart(i) PROVE TypeOK'
  <2>1. /\ work' \in [Task -> WorkState]
        /\ saving' \in [Task -> SavingState]
        /\ cleanup' \in [Task -> CleanupState]
    BY <1>11 DEF Restart
  <2>2. /\ tasks' \in [Instance -> SUBSET Task]
        /\ itemTasks' \in [Instance -> [Item -> SUBSET Task]]
        /\ stopping' \in [Instance -> SUBSET Task]
        /\ inbox' \in [Instance -> Seq(Task)]
        /\ listening' \in [Instance -> BOOLEAN]
    BY <1>11 DEF Restart
  <2> QED
    BY <1>11, <2>1, <2>2 DEF Restart
<1>10. CASE UNCHANGED vars
  BY <1>10 DEF vars
<1> QED
  BY <1>1, <1>2, <1>3, <1>4, <1>5, <1>6, <1>7, <1>8, <1>9, <1>10, <1>11
     DEF Next, TaskStep, InstanceStep

\* One lemma per conjunct of the invariant, one step per action.
LEMMA FactsStep == IInv /\ [Next]_vars => LifeCycleFacts'
<1> SUFFICES ASSUME IInv, [Next]_vars PROVE LifeCycleFacts'
  OBVIOUS
<1> USE DEF IInv, TypeOK, LifeCycleFacts, Running, WorkState, SavingState, CleanupState,
           localVars, redisVars, stopVars
<1>1. ASSUME NEW i \in Instance, NEW t \in Task, NEW x \in Item, CreateTask(i, t, x) PROVE LifeCycleFacts'
  BY <1>1 DEF CreateTask
<1>2. ASSUME NEW t \in Task, SaveTask(t) PROVE LifeCycleFacts'
  BY <1>2 DEF SaveTask
<1>3. ASSUME NEW t \in Task, SaveTaskFails(t) PROVE LifeCycleFacts'
  BY <1>3 DEF SaveTaskFails
<1>4. ASSUME NEW t \in Task, Finish(t) PROVE LifeCycleFacts'
  BY <1>4 DEF Finish
<1>5. ASSUME NEW t \in Task, CleanupRemove(t) PROVE LifeCycleFacts'
  BY <1>5 DEF CleanupRemove
<1>6. ASSUME NEW t \in Task, CleanupDelete(t) PROVE LifeCycleFacts'
  BY <1>6 DEF CleanupDelete
<1>7. ASSUME NEW t \in Task, CleanupPop(t) PROVE LifeCycleFacts'
  BY <1>7 DEF CleanupPop
<1>8. ASSUME NEW t \in Task, CleanupFails(t) PROVE LifeCycleFacts'
  BY <1>8 DEF CleanupFails
<1>9. ASSUME NEW t \in Task, StopTask(t) PROVE LifeCycleFacts'
  BY <1>9 DEF StopTask, Publish
<1>10. ASSUME NEW i \in Instance, NEW x \in Item, StopItemTasks(i, x) PROVE LifeCycleFacts'
  BY <1>10 DEF StopItemTasks
<1>11. ASSUME NEW i \in Instance, NEW t \in Task, StopItemTasksNext(i, t) PROVE LifeCycleFacts'
  BY <1>11 DEF StopItemTasksNext, Publish
<1>12. ASSUME NEW i \in Instance, HandleCommand(i) PROVE LifeCycleFacts'
  BY <1>12 DEF HandleCommand
<1>13. ASSUME NEW i \in Instance, ListenerDies(i) PROVE LifeCycleFacts'
  BY <1>13 DEF ListenerDies
<1>14. ASSUME NEW i \in Instance, Restart(i) PROVE LifeCycleFacts'
  BY <1>14 DEF Restart, Lives
<1>15. CASE UNCHANGED vars
  BY <1>15 DEF vars
<1> QED
  BY <1>1, <1>2, <1>3, <1>4, <1>5, <1>6, <1>7, <1>8,
     <1>9, <1>10, <1>11, <1>12, <1>13, <1>14, <1>15
     DEF Next, TaskStep, InstanceStep

LEMMA CancellableStep == IInv /\ [Next]_vars => Cancellable'
<1> SUFFICES ASSUME IInv, [Next]_vars PROVE Cancellable'
  OBVIOUS
<1> USE DEF IInv, TypeOK, LifeCycleFacts, Running, WorkState, SavingState, CleanupState,
           localVars, redisVars, stopVars, Cancellable
<1>1. ASSUME NEW i \in Instance, NEW t \in Task, NEW x \in Item, CreateTask(i, t, x) PROVE Cancellable'
  BY <1>1 DEF CreateTask
<1>2. ASSUME NEW t \in Task, SaveTask(t) PROVE Cancellable'
  BY <1>2 DEF SaveTask
<1>3. ASSUME NEW t \in Task, SaveTaskFails(t) PROVE Cancellable'
  BY <1>3 DEF SaveTaskFails
<1>4. ASSUME NEW t \in Task, Finish(t) PROVE Cancellable'
  BY <1>4 DEF Finish
<1>5. ASSUME NEW t \in Task, CleanupRemove(t) PROVE Cancellable'
  BY <1>5 DEF CleanupRemove
<1>6. ASSUME NEW t \in Task, CleanupDelete(t) PROVE Cancellable'
  BY <1>6 DEF CleanupDelete
<1>7. ASSUME NEW t \in Task, CleanupPop(t) PROVE Cancellable'
  BY <1>7 DEF CleanupPop
<1>8. ASSUME NEW t \in Task, CleanupFails(t) PROVE Cancellable'
  BY <1>8 DEF CleanupFails
<1>9. ASSUME NEW t \in Task, StopTask(t) PROVE Cancellable'
  BY <1>9 DEF StopTask, Publish
<1>10. ASSUME NEW i \in Instance, NEW x \in Item, StopItemTasks(i, x) PROVE Cancellable'
  BY <1>10 DEF StopItemTasks
<1>11. ASSUME NEW i \in Instance, NEW t \in Task, StopItemTasksNext(i, t) PROVE Cancellable'
  BY <1>11 DEF StopItemTasksNext, Publish
<1>12. ASSUME NEW i \in Instance, HandleCommand(i) PROVE Cancellable'
  BY <1>12 DEF HandleCommand
<1>13. ASSUME NEW i \in Instance, ListenerDies(i) PROVE Cancellable'
  BY <1>13 DEF ListenerDies
<1>14. ASSUME NEW i \in Instance, Restart(i) PROVE Cancellable'
  BY <1>14 DEF Restart, Lives
<1>15. CASE UNCHANGED vars
  BY <1>15 DEF vars
<1> QED
  BY <1>1, <1>2, <1>3, <1>4, <1>5, <1>6, <1>7, <1>8,
     <1>9, <1>10, <1>11, <1>12, <1>13, <1>14, <1>15
     DEF Next, TaskStep, InstanceStep

LEMMA DictionariesStep == IInv /\ [Next]_vars => DictionariesAgree'
<1> SUFFICES ASSUME IInv, [Next]_vars PROVE DictionariesAgree'
  OBVIOUS
<1> USE DEF IInv, TypeOK, LifeCycleFacts, Running, WorkState, SavingState, CleanupState,
           localVars, redisVars, stopVars, DictionariesAgree
<1>1. ASSUME NEW i \in Instance, NEW t \in Task, NEW x \in Item, CreateTask(i, t, x) PROVE DictionariesAgree'
  BY <1>1 DEF CreateTask
<1>2. ASSUME NEW t \in Task, SaveTask(t) PROVE DictionariesAgree'
  BY <1>2 DEF SaveTask
<1>3. ASSUME NEW t \in Task, SaveTaskFails(t) PROVE DictionariesAgree'
  BY <1>3 DEF SaveTaskFails
<1>4. ASSUME NEW t \in Task, Finish(t) PROVE DictionariesAgree'
  BY <1>4 DEF Finish
<1>5. ASSUME NEW t \in Task, CleanupRemove(t) PROVE DictionariesAgree'
  BY <1>5 DEF CleanupRemove
<1>6. ASSUME NEW t \in Task, CleanupDelete(t) PROVE DictionariesAgree'
  BY <1>6 DEF CleanupDelete
<1>7. ASSUME NEW t \in Task, CleanupPop(t) PROVE DictionariesAgree'
  BY <1>7 DEF CleanupPop
<1>8. ASSUME NEW t \in Task, CleanupFails(t) PROVE DictionariesAgree'
  BY <1>8 DEF CleanupFails
<1>9. ASSUME NEW t \in Task, StopTask(t) PROVE DictionariesAgree'
  BY <1>9 DEF StopTask, Publish
<1>10. ASSUME NEW i \in Instance, NEW x \in Item, StopItemTasks(i, x) PROVE DictionariesAgree'
  BY <1>10 DEF StopItemTasks
<1>11. ASSUME NEW i \in Instance, NEW t \in Task, StopItemTasksNext(i, t) PROVE DictionariesAgree'
  BY <1>11 DEF StopItemTasksNext, Publish
<1>12. ASSUME NEW i \in Instance, HandleCommand(i) PROVE DictionariesAgree'
  BY <1>12 DEF HandleCommand
<1>13. ASSUME NEW i \in Instance, ListenerDies(i) PROVE DictionariesAgree'
  BY <1>13 DEF ListenerDies
<1>14. ASSUME NEW i \in Instance, Restart(i) PROVE DictionariesAgree'
  BY <1>14 DEF Restart, Lives
<1>15. CASE UNCHANGED vars
  BY <1>15 DEF vars
<1> QED
  BY <1>1, <1>2, <1>3, <1>4, <1>5, <1>6, <1>7, <1>8,
     <1>9, <1>10, <1>11, <1>12, <1>13, <1>14, <1>15
     DEF Next, TaskStep, InstanceStep

LEMMA ItemSetsStep == IInv /\ [Next]_vars => ItemSetsWithinRegistry'
<1> SUFFICES ASSUME IInv, [Next]_vars PROVE ItemSetsWithinRegistry'
  OBVIOUS
<1> USE DEF IInv, TypeOK, LifeCycleFacts, Running, WorkState, SavingState, CleanupState,
           localVars, redisVars, stopVars, ItemSetsWithinRegistry
<1>1. ASSUME NEW i \in Instance, NEW t \in Task, NEW x \in Item, CreateTask(i, t, x) PROVE ItemSetsWithinRegistry'
  BY <1>1 DEF CreateTask
<1>2. ASSUME NEW t \in Task, SaveTask(t) PROVE ItemSetsWithinRegistry'
  BY <1>2 DEF SaveTask
<1>3. ASSUME NEW t \in Task, SaveTaskFails(t) PROVE ItemSetsWithinRegistry'
  BY <1>3 DEF SaveTaskFails
<1>4. ASSUME NEW t \in Task, Finish(t) PROVE ItemSetsWithinRegistry'
  BY <1>4 DEF Finish
<1>5. ASSUME NEW t \in Task, CleanupRemove(t) PROVE ItemSetsWithinRegistry'
  BY <1>5 DEF CleanupRemove
<1>6. ASSUME NEW t \in Task, CleanupDelete(t) PROVE ItemSetsWithinRegistry'
  BY <1>6 DEF CleanupDelete
<1>7. ASSUME NEW t \in Task, CleanupPop(t) PROVE ItemSetsWithinRegistry'
  BY <1>7 DEF CleanupPop
<1>8. ASSUME NEW t \in Task, CleanupFails(t) PROVE ItemSetsWithinRegistry'
  BY <1>8 DEF CleanupFails
<1>9. ASSUME NEW t \in Task, StopTask(t) PROVE ItemSetsWithinRegistry'
  BY <1>9 DEF StopTask, Publish
<1>10. ASSUME NEW i \in Instance, NEW x \in Item, StopItemTasks(i, x) PROVE ItemSetsWithinRegistry'
  BY <1>10 DEF StopItemTasks
<1>11. ASSUME NEW i \in Instance, NEW t \in Task, StopItemTasksNext(i, t) PROVE ItemSetsWithinRegistry'
  BY <1>11 DEF StopItemTasksNext, Publish
<1>12. ASSUME NEW i \in Instance, HandleCommand(i) PROVE ItemSetsWithinRegistry'
  BY <1>12 DEF HandleCommand
<1>13. ASSUME NEW i \in Instance, ListenerDies(i) PROVE ItemSetsWithinRegistry'
  BY <1>13 DEF ListenerDies
<1>14. ASSUME NEW i \in Instance, Restart(i) PROVE ItemSetsWithinRegistry'
  BY <1>14 DEF Restart, Lives
<1>15. CASE UNCHANGED vars
  BY <1>15 DEF vars
<1> QED
  BY <1>1, <1>2, <1>3, <1>4, <1>5, <1>6, <1>7, <1>8,
     <1>9, <1>10, <1>11, <1>12, <1>13, <1>14, <1>15
     DEF Next, TaskStep, InstanceStep

LEMMA ListedStep == IInv /\ [Next]_vars => RunningIsListed'
<1> SUFFICES ASSUME IInv, [Next]_vars PROVE RunningIsListed'
  OBVIOUS
<1> USE DEF IInv, TypeOK, LifeCycleFacts, Running, WorkState, SavingState, CleanupState,
           localVars, redisVars, stopVars, RunningIsListed
<1>1. ASSUME NEW i \in Instance, NEW t \in Task, NEW x \in Item, CreateTask(i, t, x) PROVE RunningIsListed'
  BY <1>1 DEF CreateTask
<1>2. ASSUME NEW t \in Task, SaveTask(t) PROVE RunningIsListed'
  BY <1>2 DEF SaveTask
<1>3. ASSUME NEW t \in Task, SaveTaskFails(t) PROVE RunningIsListed'
  BY <1>3 DEF SaveTaskFails
<1>4. ASSUME NEW t \in Task, Finish(t) PROVE RunningIsListed'
  BY <1>4 DEF Finish
<1>5. ASSUME NEW t \in Task, CleanupRemove(t) PROVE RunningIsListed'
  BY <1>5 DEF CleanupRemove
<1>6. ASSUME NEW t \in Task, CleanupDelete(t) PROVE RunningIsListed'
  BY <1>6 DEF CleanupDelete
<1>7. ASSUME NEW t \in Task, CleanupPop(t) PROVE RunningIsListed'
  BY <1>7 DEF CleanupPop
<1>8. ASSUME NEW t \in Task, CleanupFails(t) PROVE RunningIsListed'
  BY <1>8 DEF CleanupFails
<1>9. ASSUME NEW t \in Task, StopTask(t) PROVE RunningIsListed'
  BY <1>9 DEF StopTask, Publish
<1>10. ASSUME NEW i \in Instance, NEW x \in Item, StopItemTasks(i, x) PROVE RunningIsListed'
  BY <1>10 DEF StopItemTasks
<1>11. ASSUME NEW i \in Instance, NEW t \in Task, StopItemTasksNext(i, t) PROVE RunningIsListed'
  BY <1>11 DEF StopItemTasksNext, Publish
<1>12. ASSUME NEW i \in Instance, HandleCommand(i) PROVE RunningIsListed'
  BY <1>12 DEF HandleCommand
<1>13. ASSUME NEW i \in Instance, ListenerDies(i) PROVE RunningIsListed'
  BY <1>13 DEF ListenerDies
<1>14. ASSUME NEW i \in Instance, Restart(i) PROVE RunningIsListed'
  BY <1>14 DEF Restart, Lives
<1>15. CASE UNCHANGED vars
  BY <1>15 DEF vars
<1> QED
  BY <1>1, <1>2, <1>3, <1>4, <1>5, <1>6, <1>7, <1>8,
     <1>9, <1>10, <1>11, <1>12, <1>13, <1>14, <1>15
     DEF Next, TaskStep, InstanceStep

LEMMA RequestsStep == IInv /\ [Next]_vars => RequestsAreForIssued'
<1> SUFFICES ASSUME IInv, [Next]_vars PROVE RequestsAreForIssued'
  OBVIOUS
<1> USE DEF IInv, TypeOK, LifeCycleFacts, Running, WorkState, SavingState, CleanupState,
           localVars, redisVars, stopVars, ItemSetsWithinRegistry, RequestsAreForIssued
<1>1. ASSUME NEW i \in Instance, NEW t \in Task, NEW x \in Item, CreateTask(i, t, x) PROVE RequestsAreForIssued'
  BY <1>1 DEF CreateTask
<1>2. ASSUME NEW t \in Task, SaveTask(t) PROVE RequestsAreForIssued'
  BY <1>2 DEF SaveTask
<1>3. ASSUME NEW t \in Task, SaveTaskFails(t) PROVE RequestsAreForIssued'
  BY <1>3 DEF SaveTaskFails
<1>4. ASSUME NEW t \in Task, Finish(t) PROVE RequestsAreForIssued'
  BY <1>4 DEF Finish
<1>5. ASSUME NEW t \in Task, CleanupRemove(t) PROVE RequestsAreForIssued'
  BY <1>5 DEF CleanupRemove
<1>6. ASSUME NEW t \in Task, CleanupDelete(t) PROVE RequestsAreForIssued'
  BY <1>6 DEF CleanupDelete
<1>7. ASSUME NEW t \in Task, CleanupPop(t) PROVE RequestsAreForIssued'
  BY <1>7 DEF CleanupPop
<1>8. ASSUME NEW t \in Task, CleanupFails(t) PROVE RequestsAreForIssued'
  BY <1>8 DEF CleanupFails
<1>9. ASSUME NEW t \in Task, StopTask(t) PROVE RequestsAreForIssued'
  BY <1>9 DEF StopTask, Publish
<1>10. ASSUME NEW i \in Instance, NEW x \in Item, StopItemTasks(i, x) PROVE RequestsAreForIssued'
  BY <1>10 DEF StopItemTasks
<1>11. ASSUME NEW i \in Instance, NEW t \in Task, StopItemTasksNext(i, t) PROVE RequestsAreForIssued'
  BY <1>11 DEF StopItemTasksNext, Publish
<1>12. ASSUME NEW i \in Instance, HandleCommand(i) PROVE RequestsAreForIssued'
  BY <1>12 DEF HandleCommand
<1>13. ASSUME NEW i \in Instance, ListenerDies(i) PROVE RequestsAreForIssued'
  BY <1>13 DEF ListenerDies
<1>14. ASSUME NEW i \in Instance, Restart(i) PROVE RequestsAreForIssued'
  BY <1>14 DEF Restart, Lives
<1>15. CASE UNCHANGED vars
  BY <1>15 DEF vars
<1> QED
  BY <1>1, <1>2, <1>3, <1>4, <1>5, <1>6, <1>7, <1>8,
     <1>9, <1>10, <1>11, <1>12, <1>13, <1>14, <1>15
     DEF Next, TaskStep, InstanceStep

-----------------------------------------------------------------------------
LEMMA Invariance == Spec => []IInv
<1>1. IInv /\ [Next]_vars => IInv'
  BY TypeStep, FactsStep, CancellableStep, DictionariesStep, ItemSetsStep, ListedStep,
     RequestsStep DEF IInv
<1> QED
  BY InitIInv, <1>1, PTL DEF Spec

\* Every variable keeps its type in every behaviour of the registry.
THEOREM TypeCorrect == Spec => []TypeOK
  BY Invariance, PTL DEF IInv

\* A coroutine that still runs is in the dictionary of the process running it,
\* so a stop command that reaches that process cancels it.
THEOREM AlwaysCancellable == Spec => []Cancellable
  BY Invariance, PTL DEF IInv

\* `tasks' and `item_tasks' never disagree, an item's Redis set holds only
\* listed tasks of that item, and a task whose create_task returned is listed
\* in Redis while it runs.
THEOREM RegistryAlwaysConsistent == Spec => []RegistryConsistent
<1>1. IInv => RegistryConsistent
  BY DEF IInv, RegistryConsistent
<1> QED
  BY Invariance, <1>1, PTL

\* No dictionary forgets a task that still runs in a live process.
THEOREM NeverForgottenEarly == Spec => ForgottenOnlyWhenDone
<1> DEFINE Forgets(t, i) == t \in tasks[i] /\ t \notin tasks'[i]
<1>1. ASSUME IInv, [Next]_vars, NEW t \in Task, NEW i \in Instance, Forgets(t, i)
      PROVE ~Running(t) \/ work'[t] = "lost"
  <2> USE DEF IInv, TypeOK, LifeCycleFacts, localVars, redisVars, stopVars, Running
  <2>1. ASSUME NEW j \in Instance, NEW u \in Task, NEW x \in Item, CreateTask(j, u, x)
        PROVE ~Forgets(t, i)
    BY <2>1 DEF CreateTask
  <2>2. ASSUME NEW u \in Task, CleanupPop(u) PROVE ~Running(t)
    BY <1>1, <2>2 DEF CleanupPop
  <2>3. ASSUME NEW j \in Instance, Restart(j) PROVE ~Running(t) \/ work'[t] = "lost"
    BY <1>1, <2>3 DEF Restart, Lives
  <2>4. ASSUME UNCHANGED tasks PROVE FALSE
    BY <1>1, <2>4
  <2> QED
    BY <1>1, <2>1, <2>2, <2>3, <2>4
       DEF Next, TaskStep, InstanceStep, SaveTask, SaveTaskFails, Finish, CleanupRemove,
           CleanupDelete, CleanupFails, StopTask, Publish, StopItemTasks,
           StopItemTasksNext, HandleCommand, ListenerDies, vars
<1>2. IInv /\ [Next]_vars =>
        [\A t \in Task, i \in Instance :
           Forgets(t, i) => ~Running(t) \/ work'[t] = "lost"]_vars
  BY <1>1
<1> QED
  BY Invariance, <1>2, PTL DEF Spec, ForgottenOnlyWhenDone

-----------------------------------------------------------------------------
(* The registry implements the lifecycle.                                    *)

\* Publishing adds at most the published identifier to what is asked.
LEMMA PublishedOnly ==
  ASSUME TypeOK, NEW t \in Task, Publish(t), NEW i \in Instance
  PROVE  Queued(i)' \in {Queued(i), Queued(i) \cup {t}}
<1>1. CASE listening[i]
  <2>1. inbox'[i] = Append(inbox[i], t)
    BY <1>1 DEF Publish
  <2>2. inbox[i] \in Seq(Task)
    BY DEF TypeOK
  <2> QED
    BY <2>1, <2>2 DEF Queued
<1>2. CASE ~listening[i]
  BY <1>2 DEF Publish, Queued
<1> QED
  BY <1>1, <1>2

\* Taking the head of an inbox drops at most that identifier.
LEMMA HandledOnly ==
  ASSUME TypeOK, NEW i \in Instance, HandleCommand(i)
  PROVE  /\ Head(inbox[i]) \in Queued(i)
         /\ Queued(i) \ {Head(inbox[i])} \subseteq Queued(i)'
         /\ Queued(i)' \subseteq Queued(i)
         /\ \A j \in Instance \ {i} : Queued(j)' = Queued(j)
<1>1. inbox[i] \in Seq(Task) /\ inbox[i] # <<>> /\ inbox'[i] = Tail(inbox[i])
  BY DEF TypeOK, HandleCommand
<1>2. \A j \in Instance \ {i} : inbox'[j] = inbox[j]
  BY DEF TypeOK, HandleCommand
<1> DEFINE s == inbox[i]
<1>3. /\ Len(s) \in Nat \ {0}
      /\ Head(s) = s[1]
      /\ Len(Tail(s)) = Len(s) - 1
      /\ \A n \in 1..(Len(s) - 1) : Tail(s)[n] = s[n + 1]
  BY <1>1
<1>4. Head(s) \in Queued(i)
  BY <1>3 DEF Queued
<1>5. Queued(i)' \subseteq Queued(i)
  <2>1. \A n \in 1..(Len(s) - 1) : n + 1 \in 1..Len(s)
    BY <1>3
  <2> QED
    BY <1>1, <1>3, <2>1 DEF Queued
<1>6. Queued(i) \ {Head(s)} \subseteq Queued(i)'
  <2> SUFFICES ASSUME NEW n \in 1..Len(s), s[n] # s[1] PROVE s[n] \in Queued(i)'
    BY <1>3 DEF Queued
  <2>1. n - 1 \in 1..(Len(s) - 1) /\ (n - 1) + 1 = n
    BY <1>3
  <2>2. Tail(s)[n - 1] = s[n]
    BY <1>3, <2>1
  <2> QED
    BY <1>1, <1>3, <2>1, <2>2 DEF Queued
<1> QED
  BY <1>2, <1>4, <1>5, <1>6 DEF Queued

LEMMA LifecycleInit == Init => Lifecycle!Init
  BY DEF Init, Lifecycle!Init, phase, asked, Queued

\* An ended or issued task keeps its item and a step that ends tasks and
\* forgets requests is EndOrForget.
LEMMA EndingIsAllowed ==
  ASSUME TypeOK, item' = item, asked' \subseteq asked,
         \A t \in Task : \/ work'[t] = work[t]
                         \/ work[t] # "unborn" /\ work'[t] \in {"finished", "lost"},
         work' \in [Task -> WorkState]
  PROVE  Lifecycle!EndOrForget
<1> DEFINE S == {t \in Task : phase[t] \in {"active", "stopping"} /\ phase'[t] = "ended"}
<1>1. phase' = [t \in Task |-> IF t \in S THEN "ended" ELSE phase[t]]
  BY DEF phase, TypeOK, WorkState
<1>2. S \in SUBSET {t \in Task : phase[t] \in {"active", "stopping"}}
  OBVIOUS
<1> QED
  BY <1>1, <1>2 DEF Lifecycle!EndOrForget

LEMMA LifecycleStep == IInv /\ [Next]_vars => [Lifecycle!Next]_(Lifecycle!lifecycleVars)
<1> SUFFICES ASSUME IInv, [Next]_vars
             PROVE  [Lifecycle!Next]_(Lifecycle!lifecycleVars)
  OBVIOUS
<1> USE DEF localVars, redisVars, stopVars
<1>0. TypeOK /\ TypeOK'
  BY TypeStep DEF IInv
<1>1. ASSUME NEW i \in Instance, NEW t \in Task, NEW x \in Item, CreateTask(i, t, x)
      PROVE Lifecycle!Begin(t, x)
  <2>1. work[t] = "unborn" /\ work' = [work EXCEPT ![t] = "running"]
    BY <1>1 DEF CreateTask
  <2>2. work \in [Task -> WorkState]
    BY <1>0 DEF TypeOK
  <2>3. phase[t] = "idle" /\ phase' = [phase EXCEPT ![t] = "active"]
    BY <2>1, <2>2 DEF phase, WorkState
  <2>4. asked' = asked
    BY <1>1 DEF CreateTask, asked, Queued
  <2> QED
    BY <1>1, <2>3, <2>4 DEF CreateTask, Lifecycle!Begin
<1>2. ASSUME UNCHANGED <<item, work, stopping, inbox>>
      PROVE UNCHANGED Lifecycle!lifecycleVars
  BY <1>2 DEF Lifecycle!lifecycleVars, phase, asked, Queued
<1>3. ASSUME NEW t \in Task, Finish(t) PROVE Lifecycle!EndOrForget
  <2>1. asked' = asked
    BY <1>3 DEF Finish, asked, Queued
  <2> QED
    BY <1>0, <1>3, <2>1, EndingIsAllowed DEF Finish, TypeOK
<1>4. ASSUME NEW t \in Task, StopTask(t)
      PROVE Lifecycle!Ask(t) \/ UNCHANGED Lifecycle!lifecycleVars
  <2>1. \A i \in Instance : Queued(i)' \in {Queued(i), Queued(i) \cup {t}}
    BY <1>0, <1>4, PublishedOnly DEF StopTask
  <2>2. asked' = asked \/ asked' = asked \cup {t}
    BY <1>4, <2>1 DEF StopTask, asked
  <2>3. phase' = phase /\ item' = item /\ phase[t] # "idle"
    BY <1>0, <1>4 DEF StopTask, phase, TypeOK, WorkState
  <2> QED
    BY <2>2, <2>3 DEF Lifecycle!Ask, Lifecycle!lifecycleVars
<1>5. ASSUME NEW i \in Instance, NEW x \in Item, StopItemTasks(i, x)
      PROVE Lifecycle!AskItem(x)
  <2>1. itemSet[x] \in SUBSET {t \in Task : item[t] = x}
    BY <1>0 DEF IInv, ItemSetsWithinRegistry, TypeOK
  <2>2. asked' = asked \cup itemSet[x]
    BY <1>0, <1>5 DEF StopItemTasks, asked, Queued, TypeOK
  <2> QED
    BY <1>5, <2>1, <2>2 DEF StopItemTasks, Lifecycle!AskItem, phase
<1>6. ASSUME NEW i \in Instance, NEW t \in Task, StopItemTasksNext(i, t)
      PROVE Lifecycle!EndOrForget
  <2>1. \A j \in Instance : Queued(j)' \in {Queued(j), Queued(j) \cup {t}}
    BY <1>0, <1>6, PublishedOnly DEF StopItemTasksNext
  <2>2. t \in asked /\ \A j \in Instance : stopping'[j] \subseteq stopping[j]
    BY <1>0, <1>6 DEF StopItemTasksNext, asked, TypeOK
  <2>3. asked' \subseteq asked
    BY <2>1, <2>2 DEF asked
  <2> QED
    BY <1>0, <1>6, <2>3, EndingIsAllowed DEF StopItemTasksNext, TypeOK
<1>7. ASSUME NEW i \in Instance, HandleCommand(i)
      PROVE Lifecycle!EndOrForget \/ \E t \in Task : Lifecycle!Cancel(t)
  <2> DEFINE t == Head(inbox[i])
  <2>1. t \in Task
    BY <1>0, <1>7 DEF HandleCommand, TypeOK
  <2>2. /\ t \in Queued(i)
        /\ Queued(i) \ {t} \subseteq Queued(i)'
        /\ Queued(i)' \subseteq Queued(i)
        /\ \A j \in Instance \ {i} : Queued(j)' = Queued(j)
        /\ stopping' = stopping
    BY <1>0, <1>7, HandledOnly DEF HandleCommand
  <2>5. t \in asked /\ asked' \subseteq asked /\ asked \ {t} \subseteq asked'
    <3> HIDE DEF t
    <3> QED
      BY <2>2 DEF asked
  <2>3. CASE t \in tasks[i] /\ work[t] = "running"
    <3>1. work' = [work EXCEPT ![t] = "cancelling"] /\ item' = item
      BY <1>7, <2>3 DEF HandleCommand
    <3> HIDE DEF t
    <3>2. phase[t] = "active" /\ phase' = [phase EXCEPT ![t] = "stopping"]
      BY <1>0, <2>1, <2>3, <3>1 DEF phase, TypeOK, WorkState
    <3>3. asked' \in {asked, asked \ {t}}
      BY <2>5
    <3> QED
      BY <2>1, <2>5, <3>1, <3>2, <3>3 DEF Lifecycle!Cancel
  <2>4. CASE ~(t \in tasks[i] /\ work[t] = "running")
    <3>1. work' = work /\ item' = item
      BY <1>7, <2>4 DEF HandleCommand
    <3> QED
      BY <1>0, <2>5, <3>1, EndingIsAllowed DEF TypeOK
  <2> QED
    BY <2>3, <2>4
<1>8. ASSUME NEW i \in Instance, ListenerDies(i) PROVE Lifecycle!EndOrForget
  <2>1. asked' \subseteq asked
    BY <1>0, <1>8 DEF ListenerDies, asked, Queued, TypeOK
  <2> QED
    BY <1>0, <1>8, <2>1, EndingIsAllowed DEF ListenerDies, TypeOK
<1>9. ASSUME NEW i \in Instance, Restart(i) PROVE Lifecycle!EndOrForget
  <2>1. asked' \subseteq asked
    BY <1>0, <1>9 DEF Restart, asked, Queued, TypeOK
  <2>2. \A t \in Task : work'[t] = work[t] \/ (work[t] # "unborn" /\ work'[t] = "lost")
    BY <1>9 DEF Restart, Lives
  <2> QED
    BY <1>0, <1>9, <2>1, <2>2, EndingIsAllowed DEF Restart, TypeOK
<1> QED
  <2>1. CASE UNCHANGED vars
    BY <1>2, <2>1 DEF vars
  <2>2. ASSUME NEW t \in Task, TaskStep(t)
        PROVE [Lifecycle!Next]_(Lifecycle!lifecycleVars)
    BY <1>2, <1>3, <1>4, <2>2
       DEF TaskStep, SaveTask, SaveTaskFails, CleanupRemove, CleanupDelete, CleanupPop,
           CleanupFails, Lifecycle!Next
  <2>3. ASSUME NEW i \in Instance, InstanceStep(i)
        PROVE [Lifecycle!Next]_(Lifecycle!lifecycleVars)
    BY <1>1, <1>5, <1>6, <1>7, <1>8, <1>9, <2>3 DEF InstanceStep, Lifecycle!Next
  <2> QED
    BY <2>1, <2>2, <2>3 DEF Next

\* Every behaviour of the registry, faults included, is one of the lifecycle:
\* only what a request named is cancelled, and what ended stays ended.
THEOREM RegistryImplementsLifecycle == Spec => ImplementsLifecycle
  BY Invariance, LifecycleInit, LifecycleStep, PTL
     DEF Spec, ImplementsLifecycle, Lifecycle!Spec

=============================================================================
