----------------------------- MODULE Scheduler -----------------------------
(***************************************************************************)
(* The cooperative ready-batch scheduler (app/scheduler.c), the task       *)
(* registry (app/task.c) and the order in which the application registers  *)
(* its tasks (app/application_tasks.c).  Every other module takes a task   *)
(* to be an action that happens again and again; this one is why: a batch  *)
(* is drained before the next is built, so that no task waits for another  *)
(* to run twice more.                                                      *)
(*                                                                         *)
(* The scheduler is a function of the clock, so it is modelled as one: a   *)
(* state s is a record of the tasks, the batch and the clock, RunOnce its  *)
(* step.  Time passes inside a callback and while the main loop is idle.   *)
(***************************************************************************)
EXTENDS Integers, Sequences

RegistryCapacity == 16    \* TASK_REGISTRY_CAPACITY

(***************************************************************************)
(* Registration.  A definition is [name, period, priority].                *)
(***************************************************************************)
\* task_registry_register: a refused definition leaves the registry alone.
MayRegister(registry, definition) ==
  /\ definition.period # 0
  /\ \A i \in DOMAIN registry : registry[i].name # definition.name
  /\ Len(registry) < RegistryCapacity

Register(registry, definition) ==
  IF MayRegister(registry, definition) THEN Append(registry, definition) ELSE registry

HIGHEST == 0   HIGH == 64   NORMAL == 128   LOW == 192   BACKGROUND == 255

Definition(name, period, priority) == [name |-> name, period |-> period, priority |-> priority]

\* application_tasks_register: the first tasks always, the others when the
\* board offers them.  Periods in milliseconds.
ApplicationTasks(offered) ==
  LET Offered(part, definitions) == IF part \in offered THEN definitions ELSE <<>>
  IN << Definition("motor-control", 1, HIGHEST), Definition("startup", 1, HIGH) >>
     \o Offered("status", << Definition("status-indicator", 100, BACKGROUND) >>)
     \o Offered("blackbox", << Definition("blackbox-storage", 1, BACKGROUND) >>)
     \o Offered("imu", << Definition("imu-service", 1, HIGH) >>)
     \o Offered("receiver", << Definition("receiver-service", 1, HIGH),
                               Definition("flight-control", 1, HIGH) >>)
     \o << Definition("diagnostic-fast", 10, HIGH),
           Definition("diagnostic-medium", 100, NORMAL),
           Definition("diagnostic-slow", 1000, LOW) >>
     \o Offered("usb", << Definition("usb-service", 2, BACKGROUND) >>)

\* The registry after a list of definitions; a refusal ends the start-up.
RegisterAll(definitions) ==
  LET after[k \in 0 .. Len(definitions)] ==
        IF k = 0 THEN <<>> ELSE Register(after[k - 1], definitions[k])
  IN after[Len(definitions)]

(***************************************************************************)
(* The scheduler.                                                          *)
(***************************************************************************)
\* scheduler_initialize: every task is released at the start.
Initialized(registry, now) ==
  [tasks |-> [i \in DOMAIN registry |->
                [period |-> registry[i].period, priority |-> registry[i].priority,
                 release |-> now, enabled |-> TRUE,
                 executed |-> 0, missed |-> 0, overruns |-> 0]],
   ready |-> {}, ran |-> 0, clock |-> now]

\* build_ready_batch.
IsReady(task, now) == task.enabled /\ now >= task.release
ReadyBatch(s)      == { i \in DOMAIN s.tasks : IsReady(s.tasks[i], s.clock) }

\* task_precedes; the index is the order of registration.
Precedes(tasks, i, j) ==
  LET a == tasks[i]  b == tasks[j]
  IN \/ a.priority < b.priority
     \/ a.priority = b.priority /\ a.release < b.release
     \/ a.priority = b.priority /\ a.release = b.release /\ i < j

\* select_ready_task: disabled tasks leave the batch; 0 when none is left.
Selected(tasks, ready) ==
  LET able == { i \in ready : tasks[i].enabled }
  IN IF able = {} THEN 0
     ELSE CHOOSE i \in able : \A j \in able \ {i} : Precedes(tasks, i, j)

\* record_task_execution: how many periods the release advances.
PeriodsToAdvance(release, finish, period) == ((finish - release) \div period) + 1
NextRelease(release, finish, period) ==
  release + PeriodsToAdvance(release, finish, period) * period

Recorded(task, start, finish) ==
  LET periods == PeriodsToAdvance(task.release, finish, task.period)
  IN [task EXCEPT !.release  = NextRelease(task.release, finish, task.period),
                  !.executed = @ + 1,
                  !.missed   = @ + (periods - 1),
                  !.overruns = IF finish - start > task.period THEN @ + 1 ELSE @]

\* scheduler_run_once, with how long each callback takes and which callbacks
\* return TASK_CALLBACK_DISABLE; an idle pass lets one unit of time go by.
\* "ran" is the task this call ran, 0 for none.
RunOnce(s, takes, disables) ==
  LET batch == IF s.ready = {} THEN ReadyBatch(s) ELSE s.ready
      i     == Selected(s.tasks, batch)
  IN IF i = 0
     THEN [s EXCEPT !.ready = {}, !.ran = 0, !.clock = @ + 1]
     ELSE LET finish == s.clock + takes[i]
          IN [tasks |-> [s.tasks EXCEPT
                           ![i] = [Recorded(@, s.clock, finish) EXCEPT
                                     !.enabled = @ /\ i \notin disables]],
              ready |-> batch \ {i}, ran |-> i, clock |-> finish]

\* The states of n calls of scheduler_run_once, the first of them Initialized.
History(registry, takes, disables, n) ==
  LET upTo[k \in 0 .. n] ==
        IF k = 0 THEN << Initialized(registry, 0) >>
        ELSE Append(upTo[k - 1], RunOnce(upTo[k - 1][k], takes, disables))
  IN upTo[n]

(***************************************************************************)
(* What the scheduler promises, for every choice of three tasks, of what   *)
(* their callbacks take and of the tasks that disable themselves.          *)
(***************************************************************************)
Three   == 1 .. 3
Takes   == [Three -> {0, 1, 3}]
Calls   == 7
Triples == { [i \in Three |-> Definition(i, periods[i], priorities[i])] :
               periods \in [Three -> {1, 2}], priorities \in [Three -> {HIGHEST, HIGH}] }

\* A task that is released and enabled when another runs has itself run before
\* that other runs for the second time after: no priority starves the others
\* (docs/scheduler.md:43).
Waits(h, k, i) == IsReady(h[k].tasks[i], h[k].clock)
NobodyStarves(h) ==
  \A k1, k2, k3 \in 2 .. Calls + 1 :
    k1 < k2 /\ k2 < k3 /\ h[k1].ran # 0 /\ h[k1].ran = h[k2].ran /\ h[k2].ran = h[k3].ran =>
      \A i \in Three : Waits(h, k1, i) => \E k \in k1 + 1 .. k3 : h[k].ran = i

\* Releases stay on the grid of the start: each of them has been executed or
\* counted as missed, none twice, and none is caught up afterwards.
ReleasesAreAccounted(h) ==
  \A k \in DOMAIN h, i \in Three :
    LET task == h[k].tasks[i]
    IN /\ task.release = (task.executed + task.missed) * task.period
       /\ h[k].ran = i => task.release > h[k].clock /\ task.release - task.period <= h[k].clock

\* A task that returned TASK_CALLBACK_DISABLE does not run again.
DisabledIsOver(h) ==
  \A k \in DOMAIN h \ {1} :
    h[k].ran # 0 => h[k - 1].tasks[h[k].ran].enabled

ASSUME SchedulerPromises ==
  \A registry \in Triples, takes \in Takes, disables \in { {}, {1}, {2, 3} } :
    LET h == History(registry, takes, disables, Calls)
    IN NobodyStarves(h) /\ ReleasesAreAccounted(h) /\ DisabledIsOver(h)

\* Whatever the board offers, every task finds a place in the registry, and no
\* name is refused; only then does the start-up go on.
ASSUME EveryTaskIsRegistered ==
  \A offered \in SUBSET {"status", "blackbox", "imu", "receiver", "usb"} :
    RegisterAll(ApplicationTasks(offered)) = ApplicationTasks(offered)

=============================================================================
