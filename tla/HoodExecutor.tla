---------------------------- MODULE HoodExecutor ----------------------------
(***************************************************************************)
(* hood-actor.py: play_in_action builds a graph of tasks, the threads of   *)
(* HoodExecutor run it.  A step of a thread is what it does between two    *)
(* accesses to what the threads share; a block under a lock is one step.   *)
(*                                                                         *)
(* An action of the browser queues the resources of its page as tasks and  *)
(* waits for them, at most 20 seconds.                                     *)
(***************************************************************************)
EXTENDS Integers, Sequences, FiniteSets, SequencesExt

CONSTANTS Workers, \* the threads of the pool
          Plans    \* actions that may be played

VARIABLES plan,
          queue,      \* task_queue
          delayed,    \* the tasks in delayed_queue
          due,        \* those whose time is over
          already,    \* already_delayed_tasks
          waiting,    \* per node: its "waiting"
          begun,      \* history, per node: how often its run was called
          ended,      \* history: nodes whose run has returned
          taskEvent,  \* new_task_event
          delayEvent, \* new_delayed_task_event
          doneEvent,  \* action_done_event
          deleted,
          pc,         \* where a worker is
          task,       \* its task
          fresh,      \* its new_tasks
          sched,      \* where delay_scheduler is
          batch,      \* its finished_tasks
          main        \* where the main thread is

work == <<queue, delayed, due, already, waiting, begun, ended>>
events == <<taskEvent, delayEvent, doneEvent, deleted>>
vars == <<plan, queue, delayed, due, already, waiting, begun, ended,
          taskEvent, delayEvent, doneEvent, deleted, pc, task, fresh, sched,
          batch, main>>

-----------------------------------------------------------------------------
(* The graph play_in_action builds *)

Start(t) == <<t, "start">>
End(t) == <<t, "end">>
Action(t, i) == <<t, "action", i>>
Resource(t, i, k) == <<t, "resource", i, k>>
Done == <<"done">>
NoTask == <<>>

Tasks(p) == {p.tasks[i] : i \in DOMAIN p.tasks}

(* A plan: the names of the tasks, each of them once (they are keys of a   *)
(* dictionary); before and after of a task, of names that are there; how   *)
(* many actions it has, whether it has a delay between them, how many      *)
(* resources the page of each action has; whether an action may raise an   *)
(* exception.                                                              *)
ASSUME ExecutorAssumption ==
  /\ Workers # {}
  /\ \A p \in Plans :
       /\ p.tasks \in Seq(Tasks(p)) /\ Len(p.tasks) > 0
       /\ \A i, j \in DOMAIN p.tasks : p.tasks[i] = p.tasks[j] => i = j
       /\ \A t \in Tasks(p) :
            /\ p.before[t] \in Seq(Tasks(p)) /\ p.after[t] \in Seq(Tasks(p))
            /\ p.actions[t] \in Nat
            /\ \A i \in 1..p.actions[t] : p.resources[t][i] \in Nat

Actions(p) == UNION {{Action(t, i) : i \in 1..p.actions[t]} : t \in Tasks(p)}
GraphNodes(p) == {Done} \cup Actions(p) \cup
                 {Start(t) : t \in Tasks(p)} \cup {End(t) : t \in Tasks(p)}

Resources(p, n) ==
  IF Len(n) = 3 THEN [k \in 1..p.resources[n[1]][n[3]] |-> Resource(n[1], n[3], k)]
  ELSE <<>>

Starts(names) == [i \in DOMAIN names |-> Start(names[i])]

(* What s has at the positions in I, in the order it has them.             *)
Kept(s, I) ==
  LET kept[i \in 0..Len(s)] == IF i = 0 THEN <<>>
                               ELSE IF i \in I THEN Append(kept[i - 1], s[i])
                               ELSE kept[i - 1]
  IN kept[Len(s)]

(* What waits for the end of t: the caller, and per task u, in the order   *)
(* of the file, what "before" of t and "after" of u say.                   *)
EndDependants(p, t) ==
  <<Done>> \o FlattenSeq([i \in DOMAIN p.tasks |->
    LET u == p.tasks[i]
    IN (IF u = t THEN Starts(p.before[t]) ELSE <<>>) \o
       Kept([j \in DOMAIN p.after[u] |-> Start(u)],
            {j \in DOMAIN p.after[u] : p.after[u][j] = t})])

Dependants(p, n) ==
  LET t == n[1]
  IN CASE n = Done -> <<>>
       [] n = Start(t) -> <<End(t)>> \o
                          IF p.actions[t] > 0 THEN <<Action(t, 1)>> ELSE <<>>
       [] n = End(t) -> EndDependants(p, t)
       [] Len(n) = 3 -> IF n[3] < p.actions[t]
                        THEN <<Action(t, n[3] + 1)>> ELSE <<End(t)>>
       [] OTHER -> <<>>

(* "waiting" is counted apart from the lists of dependants.                *)
BeforeCount(p, t) ==
  Cardinality(UNION {{<<u, i>> : i \in {j \in DOMAIN p.before[u] :
                                            p.before[u][j] = t}} : u \in Tasks(p)})

(* Mutant: the end of a task does not wait for its actions.                *)
WaitingForStart(p) ==
  [n \in GraphNodes(p) |->
     CASE n = Done -> Len(p.tasks)
       [] n = Start(n[1]) -> BeforeCount(p, n[1]) + Len(p.after[n[1]])
       [] OTHER -> 1]

InitialWaiting(p) ==
  [n \in GraphNodes(p) |->
     CASE n = Done -> Len(p.tasks)
       [] n = Start(n[1]) -> BeforeCount(p, n[1]) + Len(p.after[n[1]])
       [] n = End(n[1]) -> IF p.actions[n[1]] > 0 THEN 2 ELSE 1
       [] OTHER -> 1]

(* The first action of a task has its delay deleted.                       *)
HasDelay(n) == Len(n) = 3 /\ n[3] > 1 /\ plan.delay[n[1]]

Init == /\ plan \in Plans
        /\ queue = <<>> /\ delayed = <<>> /\ due = {} /\ already = {}
        /\ waiting = InitialWaiting(plan)
        /\ begun = [n \in GraphNodes(plan) |-> 0] /\ ended = {}
        /\ taskEvent = FALSE /\ delayEvent = FALSE /\ doneEvent = FALSE
        /\ deleted = FALSE
        /\ pc = [w \in Workers |-> "top"]
        /\ task = [w \in Workers |-> NoTask]
        /\ fresh = [w \in Workers |-> <<>>]
        /\ sched = "start" /\ batch = <<>>
        /\ main = "queue"

-----------------------------------------------------------------------------
(* Event.set wakes the threads that wait for it, also if it is cleared     *)
(* before they run.                                                        *)
Woken(at) == [w \in Workers |-> IF at[w] = "blocked" THEN "woken" ELSE at[w]]

SetTaskEvent(at) == taskEvent' = TRUE /\ pc' = Woken(at)

SetDelayEvent == delayEvent' = TRUE

To(w, at) == pc' = [pc EXCEPT ![w] = at]

At(w, at) == pc[w] = at /\ UNCHANGED <<plan, sched, batch, main>>

-----------------------------------------------------------------------------
(* A worker *)

Top(w) ==
  /\ At(w, "top")
  /\ To(w, IF deleted THEN "exited" ELSE "wait")
  /\ UNCHANGED <<work, events, task, fresh>>

WaitTask(w) ==
  /\ At(w, "wait")
  /\ To(w, IF taskEvent THEN "woken" ELSE "blocked")
  /\ UNCHANGED <<work, events, task, fresh>>

Wake(w) ==
  /\ At(w, "woken")
  /\ To(w, IF deleted THEN "exited" ELSE "clear")
  /\ UNCHANGED <<work, events, task, fresh>>

Clear(w) ==
  /\ At(w, "clear")
  /\ taskEvent' = FALSE
  /\ To(w, "test")
  /\ UNCHANGED <<work, delayEvent, doneEvent, deleted, task, fresh>>

(* The test of the loop and get, which tests again under the lock: a       *)
(* queue that is empty by then only leads back here.                       *)
Get(w) ==
  /\ At(w, "test")
  /\ \/ /\ queue = <<>>
        /\ To(w, "top")
        /\ UNCHANGED <<queue, task>>
     \/ /\ queue # <<>>
        /\ queue' = Tail(queue)
        /\ task' = [task EXCEPT ![w] = Head(queue)]
        /\ To(w, IF HasDelay(Head(queue)) THEN "delay" ELSE "begin")
  /\ UNCHANGED <<delayed, due, already, waiting, begun, ended, events, fresh>>

(* __delay_task_if_not_has_been                                            *)
Delay(w) ==
  /\ At(w, "delay")
  /\ \/ /\ task[w] \in already
        /\ already' = already \ {task[w]}
        /\ To(w, "begin")
        /\ UNCHANGED delayed
     \/ /\ task[w] \notin already
        /\ delayed' = Append(delayed, task[w])
        /\ To(w, "tell")
        /\ UNCHANGED already
  /\ UNCHANGED <<queue, due, waiting, begun, ended, events, task, fresh>>

TellScheduler(w) ==
  /\ At(w, "tell")
  /\ SetDelayEvent
  /\ To(w, "checked")
  /\ UNCHANGED <<work, taskEvent, doneEvent, deleted, task, fresh>>

(* task["run"]() is called, if the task has one.                           *)
Begin(w) ==
  /\ At(w, "begin")
  /\ begun' = [n \in DOMAIN begun |-> begun[n] + IF n = task[w] THEN 1 ELSE 0]
  /\ To(w, IF Resources(plan, task[w]) = <<>> THEN "running" ELSE "load")
  /\ UNCHANGED <<queue, delayed, due, already, waiting, ended, events, task,
                 fresh>>

(* load_resources queues the resources of the page ...                     *)
Load(w) ==
  /\ At(w, "load")
  /\ queue' = queue \o Resources(plan, task[w])
  /\ To(w, "alert")
  /\ UNCHANGED <<delayed, due, already, waiting, begun, ended, events, task,
                 fresh>>

AlertLoad(w) ==
  /\ At(w, "alert")
  /\ SetTaskEvent([pc EXCEPT ![w] = "loading"])
  /\ UNCHANGED <<work, delayEvent, doneEvent, deleted, task, fresh>>

(* ... and the action waits for them, or for the timeout.                  *)
Loaded(w) ==
  /\ At(w, "loading")
  /\ To(w, "running")
  /\ UNCHANGED <<work, events, task, fresh>>

(* It returns; the run of the last task sets action_done_event.            *)
Finish(w) ==
  /\ At(w, "running")
  /\ ended' = ended \cup {task[w]}
  /\ doneEvent' = (doneEvent \/ task[w] = Done)
  /\ To(w, IF Dependants(plan, task[w]) = <<>> THEN "checked" ELSE "countdown")
  /\ UNCHANGED <<queue, delayed, due, already, waiting, begun, taskEvent,
                 delayEvent, deleted, task, fresh>>

(* Nobody catches what an action raises: the thread ends.                  *)
Raise(w) ==
  /\ At(w, "load") \/ At(w, "running")
  /\ plan.raising
  /\ Len(task[w]) > 2
  /\ To(w, "dead")
  /\ UNCHANGED <<work, events, task, fresh>>

(* Under update_countdown_lock: the i-th dependant may be there before.    *)
Countdown(w) ==
  LET list == Dependants(plan, task[w])
      Times(n, i) == Cardinality({j \in 1..i : list[j] = n})
      last == {i \in DOMAIN list : waiting[list[i]] = Times(list[i], i)}
  IN /\ At(w, "countdown")
     /\ waiting' = [n \in DOMAIN waiting |-> waiting[n] - Times(n, Len(list))]
     /\ fresh' = [fresh EXCEPT ![w] = Kept(list, last)]
     /\ To(w, "queue")
     /\ UNCHANGED <<queue, delayed, due, already, begun, ended, events, task>>

(* queue_multiple: all of new_tasks wait for nothing any more.             *)
QueueFresh(w) ==
  /\ At(w, "queue")
  /\ queue' = queue \o fresh[w]
  /\ fresh' = [fresh EXCEPT ![w] = <<>>]
  /\ To(w, "set")
  /\ UNCHANGED <<delayed, due, already, waiting, begun, ended, events, task>>

SetFresh(w) ==
  /\ At(w, "set")
  /\ SetTaskEvent([pc EXCEPT ![w] = "checked"])
  /\ UNCHANGED <<work, delayEvent, doneEvent, deleted, task, fresh>>

(* Mutant: the next task needs a new event.                                *)
CheckedOnce(w) ==
  /\ At(w, "checked")
  /\ To(w, "top")
  /\ task' = [task EXCEPT ![w] = NoTask]
  /\ UNCHANGED <<work, events, fresh>>

Checked(w) ==
  /\ At(w, "checked")
  /\ To(w, IF deleted THEN "top" ELSE "test")
  /\ task' = [task EXCEPT ![w] = NoTask]
  /\ UNCHANGED <<work, events, fresh>>

(* All steps a worker takes on its own.                                    *)
Worker(w) ==
  \/ Top(w) \/ WaitTask(w) \/ Wake(w) \/ Clear(w) \/ Get(w) \/ Delay(w)
  \/ TellScheduler(w) \/ Begin(w) \/ Load(w) \/ AlertLoad(w) \/ Loaded(w)
  \/ Finish(w) \/ Countdown(w) \/ QueueFresh(w) \/ SetFresh(w) \/ Checked(w)

-----------------------------------------------------------------------------
(* The thread of delay_scheduler *)

Sched(at) == sched = at /\ UNCHANGED <<plan, task, fresh, main>>

(* The first wait has no timeout.                                          *)
SchedTop ==
  /\ Sched("start") \/ Sched("top")
  /\ sched' = IF deleted THEN "exited" ELSE IF delayed # <<>> THEN "scan"
              ELSE IF sched = "start" THEN "firstWait" ELSE "wait"
  /\ UNCHANGED <<work, events, pc, batch>>

SchedWait ==
  /\ Sched("firstWait") \/ Sched("wait")
  /\ delayEvent
  /\ sched' = "clear"
  /\ UNCHANGED <<work, events, pc, batch>>

SchedTimeout ==
  /\ Sched("wait")
  /\ ~delayEvent
  /\ sched' = "clear"
  /\ UNCHANGED <<work, events, pc, batch>>

SchedClear ==
  /\ Sched("clear")
  /\ delayEvent' = FALSE
  /\ sched' = "scan"
  /\ UNCHANGED <<work, taskEvent, doneEvent, deleted, pc, batch>>

(* Mutant: who is over is not remembered.                                  *)
SchedScanForgetting ==
  LET over == {i \in DOMAIN delayed : delayed[i] \in due}
  IN /\ Sched("scan")
     /\ batch' = Kept(delayed, over)
     /\ delayed' = Kept(delayed, DOMAIN delayed \ over)
     /\ due' = {}
     /\ sched' = IF batch' = <<>> THEN "top" ELSE "queue"
     /\ UNCHANGED <<queue, already, waiting, begun, ended, events, pc>>

SchedScan ==
  LET over == {i \in DOMAIN delayed : delayed[i] \in due}
  IN /\ Sched("scan")
     /\ batch' = Kept(delayed, over)
     /\ delayed' = Kept(delayed, DOMAIN delayed \ over)
     /\ already' = already \cup due
     /\ due' = {}
     /\ sched' = IF batch' = <<>> THEN "top" ELSE "queue"
     /\ UNCHANGED <<queue, waiting, begun, ended, events, pc>>

SchedQueue ==
  /\ Sched("queue")
  /\ queue' = queue \o batch
  /\ batch' = <<>>
  /\ sched' = "set"
  /\ UNCHANGED <<delayed, due, already, waiting, begun, ended, events, pc>>

SchedSet ==
  /\ Sched("set")
  /\ SetTaskEvent(pc)
  /\ sched' = "top"
  /\ UNCHANGED <<work, delayEvent, doneEvent, deleted, batch>>

Scheduler == \/ SchedTop \/ SchedWait \/ SchedClear \/ SchedScan
             \/ SchedQueue \/ SchedSet

(* time.monotonic() passes the "end" of a delayed task.                    *)
Elapse(n) ==
  /\ n \in {delayed[i] : i \in DOMAIN delayed} \ due
  /\ due' = due \cup {n}
  /\ UNCHANGED <<plan, queue, delayed, already, waiting, begun, ended,
                 events, pc, task, fresh, sched, batch, main>>

-----------------------------------------------------------------------------
(* The main thread: play_in_action, then __del__ *)

Main(at) == main = at /\ UNCHANGED <<plan, task, fresh, sched, batch>>

(* Only what waits for nothing passes the filter.                          *)
PlayQueue ==
  /\ Main("queue")
  /\ queue' = queue \o
       Kept(Starts(plan.tasks),
            {i \in DOMAIN plan.tasks : waiting[Start(plan.tasks[i])] = 0})
  /\ main' = "set"
  /\ UNCHANGED <<delayed, due, already, waiting, begun, ended, events, pc>>

PlaySet ==
  /\ Main("set")
  /\ SetTaskEvent(pc)
  /\ main' = "wait"
  /\ UNCHANGED <<work, delayEvent, doneEvent, deleted>>

PlayDone ==
  /\ Main("wait")
  /\ doneEvent
  /\ main' = "delete"
  /\ UNCHANGED <<work, events, pc>>

Delete ==
  /\ Main("delete")
  /\ deleted' = TRUE
  /\ main' = "wake"
  /\ UNCHANGED <<work, taskEvent, delayEvent, doneEvent, pc>>

DeleteWakesWorkers ==
  /\ Main("wake")
  /\ SetTaskEvent(pc)
  /\ main' = "wakeScheduler"
  /\ UNCHANGED <<work, delayEvent, doneEvent, deleted>>

(* The next line of __del__ fails: there is no name "pool".  The main      *)
(* thread ends, and os._exit is not called.                                *)
DeleteWakesScheduler ==
  /\ Main("wakeScheduler")
  /\ SetDelayEvent
  /\ main' = "ended"
  /\ UNCHANGED <<work, taskEvent, doneEvent, deleted, pc>>

MainThread == \/ PlayQueue \/ PlaySet \/ PlayDone
              \/ Delete \/ DeleteWakesWorkers \/ DeleteWakesScheduler

Next == \/ \E w \in Workers : Worker(w) \/ Raise(w)
        \/ Scheduler \/ SchedTimeout
        \/ \E i \in DOMAIN delayed : Elapse(delayed[i])
        \/ MainThread

Spec == Init /\ [][Next]_vars

(* The operating system runs every thread, time passes, and an action and  *)
(* its wait for resources return.  No timeout of the scheduler is needed.  *)
FairSpec == /\ Spec
            /\ \A w \in Workers : WF_vars(Worker(w))
            /\ WF_vars(Scheduler)
            /\ WF_vars(\E i \in DOMAIN delayed : Elapse(delayed[i]))
            /\ WF_vars(MainThread)

-----------------------------------------------------------------------------
Graph == INSTANCE TaskGraph WITH
  edges <- UNION {{<<n, Dependants(plan, n)[i]>> : i \in DOMAIN Dependants(plan, n)} :
                    n \in GraphNodes(plan)},
  begun <- begun,
  ended <- ended \cap GraphNodes(plan),
  over  <- main \notin {"queue", "set", "wait"}

(* Whatever the threads do, and however a task is written down ("before"   *)
(* of one, "after" of the other, or both): nothing runs twice or before    *)
(* what it waits for, and play_in_action returns when all is done.         *)
ImplementsTaskGraph == Graph!Spec

Idle(w) == pc[w] \in {"top", "wait", "blocked", "exited", "dead"}

(* One event wakes all workers, and any of them clears it: as long as no   *)
(* action raises an exception, what is queued has a worker that will look, *)
(* an event that is set, or a thread that is going to set it.              *)
QueueHasWorker ==
  queue # <<>> /\ ~plan.raising /\ ~deleted =>
    \/ taskEvent
    \/ \E w \in Workers : ~Idle(w)
    \/ sched = "set"
    \/ main = "set"

(* Delays, the filter of queue_multiple, the countdowns and the events     *)
(* together let every plan come to its end.                                *)
EveryPlanEnds == ~plan.raising => <>(main = "ended")
=============================================================================
