---------------------------- MODULE TaskRegistry ----------------------------
(***************************************************************************)
(* The background-task registry of backend/open_webui/tasks.py when Redis  *)
(* is configured.  Several server instances share one Redis; each keeps    *)
(* its own `tasks' dictionary of asyncio tasks, mirrors the identifiers in *)
(* a Redis hash and in one Redis set per item (a chat or a document), and  *)
(* listens on a pub/sub channel for stop commands.                         *)
(*                                                                         *)
(* Every `await' on Redis is a point where other coroutines and other      *)
(* instances run, so a function that awaits twice is two actions here.     *)
(* What happens between two awaits is atomic: the event loop is single     *)
(* threaded, and a pipeline is one MULTI/EXEC transaction.                 *)
(***************************************************************************)
EXTENDS Naturals, Sequences

CONSTANTS
  Instance,   \* server processes sharing the Redis
  Task,       \* task identifiers: uuid4, so never used twice
  Item,       \* chat ids and document ids that tasks are filed under
  None,       \* the owner and the item of a task that was never created
  Faults,     \* whether instances restart, listeners die and Redis calls fail
  MaxInbox    \* bound on the commands queued for one listener

ASSUME ConstantsAssumption ==
  /\ None \notin Instance
  /\ None \notin Item
  /\ Faults \in BOOLEAN
  /\ MaxInbox \in Nat \ {0}

VARIABLES
  owner,      \* owner[t]: the instance whose event loop runs t
  item,       \* item[t]: the item t was created for
  work,       \* work[t]: the asyncio task itself
  saving,     \* saving[t]: where create_task stands with redis_save_task
  cleanup,    \* cleanup[t]: where cleanup_task stands
  tasks,      \* tasks[i]: the keys of the module-level dictionary `tasks'
  itemTasks,  \* itemTasks[i][x]: the module-level dictionary `item_tasks'
  registry,   \* the fields of the Redis hash REDIS_TASKS_KEY
  itemSet,    \* itemSet[x]: the Redis set REDIS_ITEM_TASKS_KEY:x
  stopping,   \* stopping[i]: ids a stop_item_tasks call has still to publish
  inbox,      \* inbox[i]: commands the listener has received, not handled
  listening   \* listening[i]: redis_task_command_listener is running

localVars == <<tasks, itemTasks>>
redisVars == <<registry, itemSet>>
stopVars  == <<stopping, inbox, listening>>
vars == <<owner, item, work, saving, cleanup, localVars, redisVars, stopVars>>

WorkState    == {"unborn", "running", "cancelling", "finished", "lost"}
SavingState  == {"none", "pending", "saved", "failed"}
CleanupState == {"none", "queued", "deleting", "popping", "done", "failed"}

TypeOK ==
  /\ owner     \in [Task -> Instance \cup {None}]
  /\ item      \in [Task -> Item \cup {None}]
  /\ work      \in [Task -> WorkState]
  /\ saving    \in [Task -> SavingState]
  /\ cleanup   \in [Task -> CleanupState]
  /\ tasks     \in [Instance -> SUBSET Task]
  /\ itemTasks \in [Instance -> [Item -> SUBSET Task]]
  /\ registry  \in SUBSET Task
  /\ itemSet   \in [Item -> SUBSET Task]
  /\ stopping  \in [Instance -> SUBSET Task]
  /\ inbox     \in [Instance -> Seq(Task)]
  /\ listening \in [Instance -> BOOLEAN]

Init ==
  /\ owner     = [t \in Task |-> None]
  /\ item      = [t \in Task |-> None]
  /\ work      = [t \in Task |-> "unborn"]
  /\ saving    = [t \in Task |-> "none"]
  /\ cleanup   = [t \in Task |-> "none"]
  /\ tasks     = [i \in Instance |-> {}]
  /\ itemTasks = [i \in Instance |-> [x \in Item |-> {}]]
  /\ registry  = {}
  /\ itemSet   = [x \in Item |-> {}]
  /\ stopping  = [i \in Instance |-> {}]
  /\ inbox     = [i \in Instance |-> <<>>]
  /\ listening = [i \in Instance |-> TRUE]

-----------------------------------------------------------------------------
(* create_task *)

\* Up to the first await: the coroutine is scheduled and both dictionaries
\* know it; redis_save_task has not run.
CreateTask(i, t, x) ==
  /\ work[t] = "unborn"
  /\ owner'     = [owner EXCEPT ![t] = i]
  /\ item'      = [item EXCEPT ![t] = x]
  /\ work'      = [work EXCEPT ![t] = "running"]
  /\ saving'    = [saving EXCEPT ![t] = "pending"]
  /\ tasks'     = [tasks EXCEPT ![i] = @ \cup {t}]
  /\ itemTasks' = [itemTasks EXCEPT ![i][x] = @ \cup {t}]
  /\ UNCHANGED <<cleanup, redisVars, stopVars>>

\* redis_save_task: HSET and SADD in one transaction.
SaveTask(t) ==
  /\ saving[t] = "pending"
  /\ saving'   = [saving EXCEPT ![t] = "saved"]
  /\ registry' = registry \cup {t}
  /\ itemSet'  = [itemSet EXCEPT ![item[t]] = @ \cup {t}]
  /\ UNCHANGED <<owner, item, work, cleanup, localVars, stopVars>>

\* redis_save_task raises: create_task fails, yet its coroutine keeps running.
SaveTaskFails(t) ==
  /\ Faults
  /\ saving[t] = "pending"
  /\ saving' = [saving EXCEPT ![t] = "failed"]
  /\ UNCHANGED <<owner, item, work, cleanup, localVars, redisVars, stopVars>>

-----------------------------------------------------------------------------
(* The coroutine ends, and its done callback schedules cleanup_task. *)

\* Mutant of Finish: a cancelled task gets a state of its own.
FinishCancelled(t) ==
  /\ work[t] \in {"running", "cancelling"}
  /\ work'    = [work EXCEPT ![t] = IF @ = "running" THEN "finished" ELSE "cancelled"]
  /\ cleanup' = [cleanup EXCEPT ![t] = "queued"]
  /\ UNCHANGED <<owner, item, saving, localVars, redisVars, stopVars>>

Finish(t) ==
  /\ work[t] \in {"running", "cancelling"}
  /\ work'    = [work EXCEPT ![t] = "finished"]
  /\ cleanup' = [cleanup EXCEPT ![t] = "queued"]
  /\ UNCHANGED <<owner, item, saving, localVars, redisVars, stopVars>>

\* Mutant of CleanupRemove: the id is taken from the hash and left in the set.
CleanupRemoveHashOnly(t) ==
  /\ cleanup[t] = "queued"
  /\ registry' = registry \ {t}
  /\ cleanup'  = [cleanup EXCEPT ![t] = "popping"]
  /\ UNCHANGED <<owner, item, work, saving, localVars, itemSet, stopVars>>

\* Mutant of CleanupRemove: return as soon as the set is not empty.
CleanupRemoveReturns(t) ==
  /\ cleanup[t] = "queued"
  /\ registry' = registry \ {t}
  /\ itemSet'  = [itemSet EXCEPT ![item[t]] = @ \ {t}]
  /\ cleanup'  = [cleanup EXCEPT ![t] =
                    IF itemSet[item[t]] \subseteq {t} THEN "deleting" ELSE "done"]
  /\ UNCHANGED <<owner, item, work, saving, localVars, stopVars>>

\* redis_cleanup_task, first execute(): HDEL, SREM and SCARD in one
\* transaction.  A cardinality of zero leads to a second round trip.
CleanupRemove(t) ==
  /\ cleanup[t] = "queued"
  /\ registry' = registry \ {t}
  /\ itemSet'  = [itemSet EXCEPT ![item[t]] = @ \ {t}]
  /\ cleanup'  = [cleanup EXCEPT ![t] =
                    IF itemSet[item[t]] \subseteq {t} THEN "deleting" ELSE "popping"]
  /\ UNCHANGED <<owner, item, work, saving, localVars, stopVars>>

\* redis_cleanup_task, second execute(): DEL of the set that was empty.
CleanupDelete(t) ==
  /\ cleanup[t] = "deleting"
  /\ itemSet' = [itemSet EXCEPT ![item[t]] = {}]
  /\ cleanup' = [cleanup EXCEPT ![t] = "popping"]
  /\ UNCHANGED <<owner, item, work, saving, localVars, registry, stopVars>>

\* The tail of cleanup_task: both dictionaries forget the task.
CleanupPop(t) ==
  /\ cleanup[t] = "popping"
  /\ cleanup'   = [cleanup EXCEPT ![t] = "done"]
  /\ tasks'     = [tasks EXCEPT ![owner[t]] = @ \ {t}]
  /\ itemTasks' = [itemTasks EXCEPT ![owner[t]][item[t]] = @ \ {t}]
  /\ UNCHANGED <<owner, item, work, saving, redisVars, stopVars>>

\* A Redis call of cleanup_task raises: nothing catches it, the rest is skipped.
CleanupFails(t) ==
  /\ Faults
  /\ cleanup[t] \in {"queued", "deleting"}
  /\ cleanup' = [cleanup EXCEPT ![t] = "failed"]
  /\ UNCHANGED <<owner, item, work, saving, localVars, redisVars, stopVars>>

-----------------------------------------------------------------------------
(* Stopping *)

\* redis_send_command: Redis hands the message to every subscriber, at most
\* once, in the order of publication.
Publish(t) ==
  /\ \A i \in Instance : listening[i] => Len(inbox[i]) < MaxInbox
  /\ inbox' = [i \in Instance |->
                 IF listening[i] THEN Append(inbox[i], t) ELSE inbox[i]]

\* stop_task, from POST /api/tasks/stop/{task_id}.
StopTask(t) ==
  /\ work[t] # "unborn"
  /\ Publish(t)
  /\ UNCHANGED <<owner, item, work, saving, cleanup, localVars, redisVars,
                 stopping, listening>>

\* stop_item_tasks up to its loop: a snapshot of the item's set, and an early
\* return when that is empty.
StopItemTasks(i, x) ==
  /\ stopping[i] = {}
  /\ itemSet[x] # {}
  /\ stopping' = [stopping EXCEPT ![i] = itemSet[x]]
  /\ UNCHANGED <<owner, item, work, saving, cleanup, localVars, redisVars,
                 inbox, listening>>

\* Mutant of StopItemTasksNext: the loop returns after its first task.
StopItemTasksFirst(i, t) ==
  /\ t \in stopping[i]
  /\ stopping' = [stopping EXCEPT ![i] = {}]
  /\ Publish(t)
  /\ UNCHANGED <<owner, item, work, saving, cleanup, localVars, redisVars, listening>>

\* One turn of the loop of stop_item_tasks: stop_task on one identifier.
StopItemTasksNext(i, t) ==
  /\ t \in stopping[i]
  /\ stopping' = [stopping EXCEPT ![i] = @ \ {t}]
  /\ Publish(t)
  /\ UNCHANGED <<owner, item, work, saving, cleanup, localVars, redisVars, listening>>

\* Mutant of HandleCommand: take the task out of `tasks' as stop_task does
\* without Redis.
HandleCommandPops(i) ==
  /\ listening[i]
  /\ inbox[i] # <<>>
  /\ inbox' = [inbox EXCEPT ![i] = Tail(@)]
  /\ LET t == Head(inbox[i]) IN
       /\ work'  = IF t \in tasks[i] /\ work[t] = "running"
                   THEN [work EXCEPT ![t] = "cancelling"] ELSE work
       /\ tasks' = [tasks EXCEPT ![i] = @ \ {t}]
  /\ UNCHANGED <<owner, item, saving, cleanup, itemTasks, redisVars, stopping, listening>>

\* Mutant of HandleCommand: cancel everything filed under the task's item.
HandleCommandByItem(i) ==
  /\ listening[i]
  /\ inbox[i] # <<>>
  /\ inbox' = [inbox EXCEPT ![i] = Tail(@)]
  /\ work'  = [t \in Task |->
                 IF t \in itemTasks[i][item[Head(inbox[i])]] /\ work[t] = "running"
                 THEN "cancelling" ELSE work[t]]
  /\ UNCHANGED <<owner, item, saving, cleanup, localVars, redisVars, stopping, listening>>

\* Mutant of HandleCommand: consult the hash, which a task reaches late.
HandleCommandIfListed(i) ==
  /\ listening[i]
  /\ inbox[i] # <<>>
  /\ inbox' = [inbox EXCEPT ![i] = Tail(@)]
  /\ LET t == Head(inbox[i]) IN
       work' = IF t \in tasks[i] \cap registry /\ work[t] = "running"
               THEN [work EXCEPT ![t] = "cancelling"] ELSE work
  /\ UNCHANGED <<owner, item, saving, cleanup, localVars, redisVars, stopping, listening>>

\* One turn of redis_task_command_listener: cancel the task if it is ours.
\* Cancelling a task that is done has no effect.
HandleCommand(i) ==
  /\ listening[i]
  /\ inbox[i] # <<>>
  /\ inbox' = [inbox EXCEPT ![i] = Tail(@)]
  /\ LET t == Head(inbox[i]) IN
       work' = IF t \in tasks[i] /\ work[t] = "running"
               THEN [work EXCEPT ![t] = "cancelling"]
               ELSE work
  /\ UNCHANGED <<owner, item, saving, cleanup, localVars, redisVars,
                 stopping, listening>>

-----------------------------------------------------------------------------
(* Faults *)

\* pubsub.listen() raises outside the listener's try: the loop ends, and
\* nothing starts it again.
ListenerDies(i) ==
  /\ Faults
  /\ listening[i]
  /\ listening' = [listening EXCEPT ![i] = FALSE]
  /\ inbox'     = [inbox EXCEPT ![i] = <<>>]
  /\ UNCHANGED <<owner, item, work, saving, cleanup, localVars, redisVars, stopping>>

Lives(t) == work[t] # "unborn" /\ cleanup[t] # "done"

\* The process is killed and started again: memory and coroutines are gone,
\* what Redis holds stays.
Restart(i) ==
  LET gone == {t \in Task : owner[t] = i /\ Lives(t)} IN
  /\ Faults
  /\ work'      = [t \in Task |-> IF t \in gone /\ work[t] # "finished"
                                  THEN "lost" ELSE work[t]]
  /\ saving'    = [t \in Task |-> IF owner[t] = i /\ saving[t] = "pending"
                                  THEN "failed" ELSE saving[t]]
  /\ cleanup'   = [t \in Task |-> IF t \in gone THEN "failed" ELSE cleanup[t]]
  /\ tasks'     = [tasks EXCEPT ![i] = {}]
  /\ itemTasks' = [itemTasks EXCEPT ![i] = [x \in Item |-> {}]]
  /\ stopping'  = [stopping EXCEPT ![i] = {}]
  /\ inbox'     = [inbox EXCEPT ![i] = <<>>]
  /\ listening' = [listening EXCEPT ![i] = TRUE]
  /\ UNCHANGED <<owner, item, redisVars>>

-----------------------------------------------------------------------------
TaskStep(t) ==
  \/ SaveTask(t)
  \/ SaveTaskFails(t)
  \/ Finish(t)
  \/ CleanupRemove(t)
  \/ CleanupDelete(t)
  \/ CleanupPop(t)
  \/ CleanupFails(t)
  \/ StopTask(t)

InstanceStep(i) ==
  \/ \E t \in Task, x \in Item : CreateTask(i, t, x)
  \/ \E x \in Item : StopItemTasks(i, x)
  \/ \E t \in Task : StopItemTasksNext(i, t)
  \/ HandleCommand(i)
  \/ ListenerDies(i)
  \/ Restart(i)

Next == (\E t \in Task : TaskStep(t)) \/ (\E i \in Instance : InstanceStep(i))

Spec == Init /\ [][Next]_vars

\* The event loop runs every ready callback and Redis answers what it accepts.
\* Ending by itself is up to the coroutine; once cancelled, it ends.
FairTask(t) ==
  /\ WF_vars(SaveTask(t))
  /\ WF_vars(work[t] = "cancelling" /\ Finish(t))
  /\ WF_vars(CleanupRemove(t))
  /\ WF_vars(CleanupDelete(t))
  /\ WF_vars(CleanupPop(t))

\* Publishing never waits for subscribers: MaxInbox alone blocks it, so the
\* loop of stop_item_tasks is strongly fair.
FairInstance(i) ==
  /\ WF_vars(HandleCommand(i))
  /\ SF_vars(\E t \in Task : StopItemTasksNext(i, t))

FairSpec ==
  /\ Spec
  /\ \A t \in Task : FairTask(t)
  /\ \A i \in Instance : FairInstance(i)

-----------------------------------------------------------------------------
(* Safety *)

Running(t) == work[t] \in {"running", "cancelling"}

\* A coroutine that still runs can be cancelled: the instance that runs it
\* finds it in `tasks' when a stop command arrives, whatever Redis lost or
\* refused in the meantime (tasks.py 39-41).
Cancellable == \A t \in Task : Running(t) => t \in tasks[owner[t]]

\* The two module-level dictionaries name the same tasks, each under the item
\* it was created for, although different lines add to and remove from them.
DictionariesAgree ==
  \A i \in Instance, x \in Item, t \in Task :
    t \in itemTasks[i][x] <=> (t \in tasks[i] /\ item[t] = x)

\* What stop_item_tasks reads from an item's set are tasks of that item, all
\* of them also in the hash that GET /api/tasks reads.
ItemSetsWithinRegistry ==
  \A x \in Item : itemSet[x] \subseteq {t \in registry : item[t] = x}

\* Once create_task has returned, the hash lists the task until it ends.
RunningIsListed ==
  \A t \in Task : Running(t) /\ saving[t] = "saved" => t \in registry

\* The four indexes of a task agree in the direction cancellation needs: what
\* an item lists is listed, what is listed is filed, whatever failed or was
\* restarted between the round trips that write them.
RegistryConsistent == DictionariesAgree /\ ItemSetsWithinRegistry /\ RunningIsListed

\* An identifier that a live process forgets is one whose coroutine has ended. It is
\* proved; no run lists it beside Cancellable.
ForgottenOnlyWhenDone ==
  [][\A t \in Task, i \in Instance :
       t \in tasks[i] /\ t \notin tasks'[i] => ~Running(t) \/ work'[t] = "lost"]_vars

\* The registry is an implementation of the lifecycle its callers rely on: in
\* particular only tasks that a request named, or whose item it named, are
\* cancelled, and an ended task never runs again.
phase == [t \in Task |->
            IF work[t] = "unborn" THEN "idle"
            ELSE IF work[t] = "running" THEN "active"
            ELSE IF work[t] = "cancelling" THEN "stopping" ELSE "ended"]

Queued(i) == {inbox[i][n] : n \in 1..Len(inbox[i])}

asked == UNION {Queued(i) \cup stopping[i] : i \in Instance}

Lifecycle == INSTANCE TaskLifecycle WITH filed <- item

ImplementsLifecycle == Lifecycle!Spec

-----------------------------------------------------------------------------
(* Liveness, when no instance, listener or Redis call fails *)

\* What was asked to stop ends: a command queued for any listener, and every task in
\* the snapshot of a stop_item_tasks that is not yet published, wherever the task runs and
\* whether or not Redis has its record yet.
StopsReach == \A t \in Task : t \in asked ~> ~Running(t)

\* A task that ended is forgotten by its instance.
EndedIsForgotten ==
  \A t \in Task : work[t] = "finished" ~> \A i \in Instance : t \notin tasks[i]

-----------------------------------------------------------------------------
(* What a docstring says, and the code does not do *)

\* `List all tasks associated with a specific ID' (list_task_ids_by_item_id):
\* a running task that create_task returned is in its item's set.  No run lists
\* this formula: TLC refutes it on the constants of registry_liveness, where
\* another task of the item is saved between SCARD and DEL (tasks.py 64-65).
ItemListsItsTasks ==
  \A t \in Task : Running(t) /\ saving[t] = "saved" => t \in itemSet[item[t]]

=============================================================================
