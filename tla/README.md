# TLA+ models of Alignak

Alignak is a monitoring system made of six kinds of daemons. An **arbiter** reads the
configuration, cuts it into parts and dispatches them. Each **scheduler** owns a part: it plans
checks of hosts and services, consumes their results, keeps the states, and raises notifications
and event handlers. **Pollers** execute checks and **reactionners** execute notifications and event
handlers, both in worker processes. **Brokers** receive the events (broks), **receivers** the
external commands and passive results. The daemons talk HTTP; inside a daemon, a main loop and the
HTTP server's threads share the same objects, mostly without locks.

This directory models the parts where orders of events, losses and failures decide whether the
system is right. Every definition that stands for code is listed in `PROJECT.json` (`map`) with the
lines it models; paths below are relative to `src/alignak`.

## 1. Inventory

| component | state it keeps | operations | talks to |
|---|---|---|---|
| checks of a scheduler (`scheduler.py`, `objects/schedulingitem.py`) | `checks`, `waiting_results`; per item `checks_in_progress`, `actions`, `in_checking`; per check `status`, `depend_on`, `depend_on_me` | the recurrent works `schedule`, `check_freshness`, `consume_results`, `get_new_actions`, `delete_zombie_checks`, `check_orphaned`, `manage_internal_checks`, `clean_queues` | pollers (`_checks`, `_results`), external commands |
| item states (`objects/schedulingitem.py`, `host.py`, `service.py`) | `state`, `state_type`, `attempt`, `state_before_impact`, `is_problem`, `impacts`, `source_problems` | `consume_result`, `set_myself_as_problem`, `register_a_problem`, `no_more_a_problem`, `unregister_a_problem` | other items of the scheduler |
| satellites (`satellite.py`, `worker.py`) | per scheduler `actions`, `wait_homerun`; `q_by_mod`, `workers`, `returns_queue`; per worker `checks` | `do_loop_turn`, `check_and_del_zombie_workers`, `adjust_worker_number_by_load`, `manage_action_return`, `push_results`, `get_new_actions`, `add_actions` | schedulers, worker processes |
| links (`objects/satellitelink.py`) | `alive`, `reachable`, `attempt`, `running_id`, `configuration_sent`, `cfg_managed` | `communicate`, `set_alive`, `set_dead`, `add_failed_check_attempt`, `update_infos`, `put_conf` | every daemon |
| notifications (`schedulingitem.py`, `notification.py`, `escalation.py`) | `notifications_in_progress`, `current_notification_number`, `notified_contacts`, `first_notification` | `create_notifications`, `scatter_notification`, `remove_in_progress_notifications`, `is_blocking_notifications` | downtimes, acknowledgements, reactionners |
| downtimes, acknowledgements (`downtime.py`, `acknowledge.py`, `comment.py`) | `downtimes`, `scheduled_downtime_depth`, `in_scheduled_downtime`, `acknowledgement` | `enter`, `exit`, `cancel`, `update_downtimes_and_comments`, `check_for_flexible_downtime`, `acknowledge_problem`, `unacknowledge_problem` | external commands, notifications |
| external commands (`external_command.py`) | - | about 150 commands; `search_host_and_dispatch` | everything above |
| dispatcher, arbiter (`dispatcher.py`, `daemons/arbiterdaemon.py`) | `new_to_dispatch`, `first_dispatch_done`, `dispatch_ok`; per part `is_assigned`, `scheduler_link` | `prepare_dispatch`, `dispatch`, `check_reachable`, `check_dispatch` | every daemon |
| receiver, broker (`daemons/receiverdaemon.py`, `brokerdaemon.py`) | `unprocessed_external_commands`, `external_broks`, `broks` | `push_external_commands_to_schedulers`, `get_new_broks`, `manage_brok` | schedulers, arbiter, modules |
| daemon base (`daemon.py`, `schedulerdaemon.py`) | `new_conf`, `will_stop`, `conf_lock` | `do_main_loop`, `setup_new_conf`, `compensate_system_time_change` | arbiter |
| modules (`modulesmanager.py`, `basemodule.py`) | `to_restart`, processes | `try_instance_init`, `check_alive_instances` | brokers |
| retention (`scheduler.py`) | what a restart keeps | `get_retention_data`, `restore_retention_data` | item states, notifications, downtimes |
| business rules, group expressions (`dependencynode.py`, `complexexpression.py`) | a tree | `eval_cor_pattern`, `get_state`, `resolve_elements` | items |
| time periods (`daterange.py`, `timeperiod.py`) | - | `get_next_valid_time_from_t`, `get_next_invalid_time_from_t` | everything that plans |
| configuration (`objects/*.py`, `graph.py`) | the objects | parsing, inheritance, `explode` and `linkify` of groups, realms, services and dependencies, `create_packs` | dispatcher |
| macros (`macroresolver.py`) | - | `resolve_simple_macros_in_string` | checks, notifications |

What is hard here, and what each component must get right:

* *checks*: the main loop, the pollers' requests and the external commands change the same checks
  in any order; results are lost, late or doubled; checks wait for each other. Right means: no
  exception in the main loop, every check in progress ends, nobody waits for a check that will not
  answer.
* *item states*: a failure and its consequences arrive in any order, problems become impacts of
  other problems and impacts outlive them. Right means: the two sides of the problem/impact links
  agree, an item's own state is never lost behind an impact state, HARD states come after the
  configured attempts.
* *satellites*: workers and networks fail. Right means: what was taken is executed by one worker
  and answered.
* *notifications, downtimes, acknowledgements*: a silence must begin, end and be counted exactly,
  over cancellations, restarts and overlaps.
* *dispatcher*: daemons restart and answer late. Right means: every part is with one scheduler, and
  every daemon ends up with the configuration prepared for it.
* *commands and broks*: lists are copied, marked and emptied by several threads, requests time out
  after they were received. Right means: at most once, in order, and in the end.
* *pure algorithms*: many small cases (signs, ends of months, definitions that overlap). Right means
  what a definition written independently of the code gives.

The full list of hazards, each at its line, is in `PROJECT.json`.

## 2. Modules

| module | models | status |
|---|---|---|
| `SchedulerChecks` | the life of checks in a scheduler | checked, proved in `SchedulerChecks_proofs` |
| `ItemStates` | states, state types, problems and impacts | checked, proved in `ItemStates_proofs` |
| `Satellite` | a poller or reactionner, its workers and its scheduler link | checked, proved in `Satellite_proofs` |
| `Downtimes` | downtimes of hosts and services and their depth | checked, proved in `Downtimes_proofs` |
| `ConfParts` | packs, parts and their owners: functions of the configuration | with `Dispatcher` |
| `Dispatcher` | the arbiter, its links and the daemons it configures | checked, proved in `Dispatcher_proofs` |
| `ConfDelivery` | what a dispatcher promises to the daemons | abstract specification, implemented by `Dispatcher` (checked and proved) |
| `NotificationRules` | filters, escalations, intervals, flapping: functions | with `Notifications` |
| `Notifications` | the notifications of an item, from results and commands to the contacts | checked, proved in `Notifications_proofs` |
| `Commands` | external commands, from arbiter and receiver to the schedulers | checked, proved in `Commands_proofs` |
| `CommandTable` | what the commands do to the objects of a scheduler, and their lines | checked, with `Commands` and on its own |
| `Broks` | broks, from the schedulers to the modules of a broker | checked, proved in `Broks_proofs` |
| `BusinessRules`, `ComplexExpressions` | expressions over items, over groups | checked against formulas |
| `DateRanges` | time periods | checked against the calendar |
| `Templates`, `Groups`, `Realms`, `Services`, `Dependencies`, `DependencyGraph` | the objects of a configuration | checked against reference definitions |
| `Macros` | command lines and their macros | checked against an expansion |
The `MC*` modules give the small instances for TLC; `MCAlgorithms` also holds the reference
definitions of the pure algorithms.

### SchedulerChecks

State. `checks` is the key set of `Scheduler.checks`; `inProgress`, `actions` and `active` are the
items' `checks_in_progress`, `actions` and `active_checks_enabled`; `status`, `exit`, `when`,
`dependOn`, `dependMe` are attributes of the Check objects (`when` compares `t_to_go` with the
clock: future, due, or late enough for `check_orphaned`); `waiting` is `waiting_results`; `copies`
counts the copies that satellites hold. `pc`, `todo`, `adding`, `cur`, `left` and `resolved` are the
main loop's place: the recurrent work in progress, what its loop has still to visit, the checks it
has launched and not yet registered with `Scheduler.add`, and `consume_results`' local variables.
`command` is the external command under way, when it has a second step: the check it launched or
took over. `mishap` is a history variable: what has gone wrong with a check.

Actions. One action is one iteration of a loop of a recurrent work, so a request or a command can
come between any two iterations: `Schedule`, `CheckFreshness`, `Register` (`Scheduler.add` of a check
launched by the step before, always a step of its own), `Drain` (`manage_results`),
`WaitForDependencies` / `Consume` / `Resolve` / `IncludeDependent` (the phases of
`consume_results`, with `raise_dependencies_check` and the bookkeeping of `consume_result`),
`TakeActions` then `ClearActions` (the two halves of `get_new_actions` between which a command's
check is lost), `DeleteZombieChecks`, `CheckOrphaned`, `ManageInternalCheck`. The works run in the
order of `recurrent_works`, each in every turn. `Poll`, `Return`, `Lose` are the satellites,
`Elapse` the clock, and `ScheduleForcedCheck`, `ScheduleCheck`, `ProcessCheckResult`,
`DisableActiveChecks`, `EnableActiveChecks` the external commands; `WriteResult` and `SendResult` are
the second and third step of a passive result, which launches its check (or takes over the one in
progress), then writes the result on it, then registers it (`external_command.py:3131-3147`).
`app.lock` admits one command at a time and the main loop does not take it. An exception that leaves the
main loop ends the daemon: `pc = "crashed"`.

Abstractions. Times are only compared; check periods, cached check horizons, check dependencies and
intervals are the free choices of `FreshSets` and of `D` in `WaitForDependencies`. Exit statuses
are a set with 0 for OK. A uuid may be used again once nothing mentions it, which keeps the state
finite and loses nothing, since uuids are only compared.

### ItemStates

State. `state` (OK/UP, failing, UNREACHABLE), `kind` (`state_type`), `attempt`, `before`
(`state_before_impact`), `own` (`state_changed_since_impact`), `problem`, `impacts`, `sources`.
`root`, `stack` and `found` are the recursion of `register_a_problem`, one frame per pending call;
`fails` counts failing results in a row for the properties only.

Actions. `StaysOk`, `Recovers`, `FailsVolatile`, `StartsFailing`, `StillFailing` are the branches of
`consume_result`; `RegisterKnown`, `Register`, `Return` and `SetImpacts` are the recursion started
by `set_myself_as_problem`; `Restart` keeps what the retention keeps. The recursion runs inside one
call of the main loop, so no other result is consumed while it is pending (`root = None` is a guard
of the branches); it is split into steps because its order matters to what it does.

### Satellite

State. The scheduler link (`link`, `attempt`), `scheduler_link.actions` and `my_worker`
(`actions`, `worker`), `wait_homerun` (`homerun`), the workers (`started`, `alive`, `known`), their
queues (`queue`), what they execute (`held`) and the common `returns_queue`. `pc`, `dying`, `cur`
and `incoming` are the place in `do_loop_turn`. The scheduler (`sched`) and the network are
external; `sched` keeps of `SchedulerChecks` that an action is due, polled or answered and that a
late one is offered again.

Actions. `Restore` and `NewConf` (main loop of the daemon), `NoticeDead`, `ForgetQueue`, `Requeue`,
`RequeueEnd` (`check_and_del_zombie_workers`), `CreateWorker`, `ManageActionReturn`, `PushOk`,
`PushFails`, `PushNothing`, `GetOk`, `GetFails`, `GetNothing`, `AddAction`; `TakeAction`,
`FinishAction`, `Die` are a worker. A worker finishes what it holds in any order. A request that
fails may have been received or not.

### Downtimes

State. `known` are the keys of the items' `downtimes`; `inEffect`, `deletable`, `realEnd` and
`activate` the attributes `is_in_effect`, `can_be_deleted`, `real_end_time` and `activate_me` of the
Downtime objects; `depth`, `flag` and `upkeep` the items' `scheduled_downtime_depth`,
`in_scheduled_downtime` and `in_maintenance`. `at` is the time that
`update_downtimes_and_comments` read when it began, `now` the clock. `entering` holds the calls of
`Downtime.enter` still to come. Two history variables: `again` remembers that a downtime marked for
deletion was entered, `excess` counts per item the downtimes cancelled while they were not in effect.

Actions. `Maintain`, `DeleteMarked`, `StartStop` are the loops of `update_downtimes_and_comments`,
`Enter` one call of `Downtime.enter` (with the calls for the downtimes it triggers), `ConsumeOk` and
`ConsumeFailure` what `consume_result` does about downtimes, `ScheduleDowntime` and
`DeleteDowntime` the commands. `Exit` and `Cancel` are the two methods of the same names, and differ
as they do in the code: only `exit` asks whether the downtime is in effect.

Abstractions. SOFT states, comments, broks and `in_scheduled_downtime_during_last_check` change
nothing here; the DOWNTIMESTART and DOWNTIMEEND notifications are in `Notifications`, and the
acknowledgement of a host by its first downtime is not modelled. A removed downtime has no
reference left, so its attributes are reset. An item gets at most one result per turn, of a check
at most one unit of time old. A call of `enter`, `exit` or `cancel` is one step: a switch of threads
inside `scheduled_downtime_depth += 1`, between a command and the main loop, is not modelled.

### Dispatcher, ConfParts, ConfDelivery

State. Per daemon: what runs (`daemon`), `new_conf` (`pushed`), what it answers to
`managed_configurations` (`current`); on the arbiter's side the link (`link`, `attempt`), the last
answer (`managed`), `configuration_sent` (`sent`), `to_satellites_managed_by` (`satsOf`), and the
flags of the Dispatcher object. `pc` is the place in `Arbiter.main`: connecting
(`daemons_start`, `daemons_connection`), `check_reachable` for one of its four callers (`back`),
`prepare_dispatch`, `dispatch`, `check_dispatch`, the main loop (`daemons_check`,
`daemons_reachability_check`, `check_status_and_get_events`), and the stop.

Actions. One request of the arbiter to one daemon is one step, and may time out (`MaxTimeouts`);
its effect on the daemon may have happened or not. `LaunchList` is `my_daemons`, the daemons
that the arbiter launched, in their order. `SetupNewConf`, `Crash` and `Restart` are the
daemons, `Reload` and `Kill` the signals. A DispatcherError is `pc = "error"`.

`ConfParts` computes what each daemon is given: `create_packs`, `cut_into_parts` and
`prepare_dispatch` depend on the configuration only, because a Dispatcher object is created for each
configuration and prepares it once.

`ConfDelivery` forgets links, flags and tries. A configuration has a number; a daemon is posted its
share of the latest one, installs it later, may lose it, and never goes back to an older one. The
refinement maps `mail` to `pushed` and `held` to `current`; `Delivered` is the specification of
`ConfDelivery` under this mapping.

### NotificationRules and Notifications

State. `item` is the record of what the notification code reads and writes on a host or service
(state, attempts, UNKNOWN phases, acknowledgement, downtime depth, flapping history,
`current_notification_number`, `notified_contacts_ids`, and the masters of
`notifications_in_progress`, each still in the item's `actions`, in the scheduler, in the list of those
that are due, or lost between the copy and the clearing of `actions`); `children` are the child notifications of the scheduler.
Time is relative: every age and delay is counted from now. `told`, `silent` and `excused` are
history.

Actions. `Consume` is the whole of `consume_result` as far as notifications go (all branches of
state and state type, flapping, UNKNOWN phases, renewing and removing masters);
`GetNewActions` and `ClearActions`, then `scatter_master_notifications`: `DueMasters` collects the
masters that are due, `ScatterMaster` takes one of them, in any order as they come out of a dict (with
`scatter_notification` and `prepare_notification_for_sending`), and a command may come between two of
them. Commands acknowledge, toggle,
start and end downtimes, take contacts away; the reactionner polls, answers, or loses a child that
`check_orphaned` offers again. What blocks a notification, on the level of the item, of the contact
and of the notification way, is in `NotificationRules`, with escalations and the next time.

### Commands and CommandTable

State. `queue` (the arbiter's `external_commands`, the modules' queues), the receiver's
`unprocessed_external_commands`, `pushed_commands` per scheduler, its links, and the requests that
wait for the lock of a scheduler daemon (`batches`). A command is the number of its line in `lines`,
which every command so far has. `executed` is history.

Actions. A turn of the receiver: links are restored, commands are got from the arbiter and from the
modules, resolved one after the other (`Route`), and pushed; a push is a request whose answer may come too late, in
which case the batch still runs. `RunBatch` runs the handlers of a batch in order: a command that
raises ends the batch, and RESTART_PROGRAM, which the receiver runs itself, ends it. What a handler changes
is `CommandTable`: the handlers as records of a kind, a target, an attribute and a value.

### Broks

State. Per scheduler, the broks of its link to the broker, each perhaps sent to its own modules
already (`sent`), `initialized`; on the broker's side `external_broks`, where `sent` is the contrary
of `to_be_sent`, the modules' queues and processes, and the restart list of the modules manager, as
the number of entries of each module (`toRestart`): the order of the entries decides nothing, as a
module that was tried is too early for its second entry. On both sides the marked broks are the first
ones of their list (`Marked`, proved in `Broks_proofs`), since a list is marked as a whole and grows
at its end; what the code selects by the mark is the rest of the list (`Unsent`).

Actions. `SendBroksToModules`, `CleanQueues` and `SetupScheduler` are the scheduler; a turn of the
broker asks for the initial broks until every scheduler gave some, checks the modules, gets the
broks, puts them in the queues and manages as many as the turn has time for. `give_broks` runs in a
thread of the scheduler's HTTP server and takes no lock of the main loop, so getting the broks is two
steps: `AskBroks` marks what is handed over and makes the list of what is kept, `BindBroks` binds that
list to the link; in between the main loop adds broks (to the list that is dropped: they are `lost`),
marks them, cleans the queues or is configured again. The broker gets its answer with the first of
the two; it waits, so it does nothing before the second. A process reads, dies, or is restarted, at
once or after `MODULE_INIT_PERIOD`. The modules manager forgets the process of a module it restarts
(`instance.process = None`) without stopping it, so one restarted for a long queue lives on: `old` has
the former processes of each module with the queue each still has, and `ReadOld` is such a process
that reads. A `manage_brok` that raises (`ManageBrok`) loses the brok for that module.

### The pure algorithms

`MCAlgorithms` calls one algorithm on one input per step; the properties compare what it returns
with a definition written without looking at the code: a formula for a rule, sets for a group
expression, the occurrences of an entry in the calendar, the closure of a relation, the
values that a line of templates gives. Text is a sequence of tokens. Where the code and the reference disagree the property
leaves the input out, by a condition with a name of its own, or, for mixed operators and unsatisfied
"of:" rules, pins down what the code does; section 4 says where and how that differs.
These modules use recursive operators and are for TLC only.

## 3. Runs

| run | instance | shows |
|---|---|---|
| `checks_safety` | service (1 check) on a host (1 internal check), passive results for both, active checks of the host toggled | an exception only in the windows that commands open (`CrashExplained`), no abandoned wait (`NoAbandonedWait`) |
| `checks_forced` | host with 2 checks, forced and scheduled by commands, service depending on it | each check in progress can be consumed or has been overlooked (`InProgressAccounted`), the drain of results never blocks |
| `checks_live` | service and host, losses, freshness | every check in progress is consumed, every wait ends |
| `checks_crash` (violation) | one forced check of the host | KeyError in `raise_dependencies_check` |
| `satellite` | 1 action, 2 workers, 1 death, 2 failures, 1 reset | an action the satellite has is worked on, none is lost without a failure, each is answered |
| `item_states` | service, host, two parents, one behind the other, one restart | links, own states, HARD states |
| `downtimes` | volatile service, a flexible and a triggered downtime, a maintenance period; commands delete any of them, one while it is not in effect | silence, exact depth, and the end of every downtime |
| `dispatcher` | a scheduler and a poller, 1 crash, 1 lost request, 1 reload, a kill | order of the calls, parts really managed, `ConfDelivery`, configuration restored |
| `notifications` | 6 items, 2 contacts, an escalation, 1 command, 1 orphan | who was told of a problem is told of its recovery, one reminder, the number restarts, told soon |
| `commands` | 2 schedulers, 2 commands, 2 failures | at most once, in order, and run in the end |
| `broks` | 2 schedulers, 2 broks and the initial ones, an internal and an external module, 1 failure | once and in order for each process of a module, the same for all modules, none lost or forgotten but in the step of `give_broks` |
| `algorithms` | 43,000 inputs | the eight properties of `MCAlgorithms` |

**Why the bounds are enough.** *Checks*: the properties relate a check, the check it waits for and
their items; two items with a dependency, one or two checks each and one result in the queue reach every phase with every kind of late,
doubled or lost result and every place of a command between the steps of the main loop. The proofs remove the bounds for the
safety properties. `MaxResults` = 1 delays results, it does not forbid any order. *Satellite*:
actions do not interact except by sharing a queue, whose order no property depends on; one death
while another worker remains, and two failures (a push and what follows it) are the shortest
scenarios that use every branch. *Item states*: the topology is the smallest where an item has two
source problems and one problem turns into the impact of another; three attempts are the smallest
number with a SOFT state that continues. *Downtimes*: items share nothing, so one is enough; four
downtimes overlap up to depth four, the clock (`MaxTime`) runs until the last one that can
start has ended, and one deletion of a downtime not in effect (`MaxExcess`) makes the depth negative. *Dispatcher*: what the arbiter does with a daemon depends on its own link, on the
part it has and on whether all are connected; one of each kind is enough, one crash and one lost
request can fall into every stage, and three tries are the code's own limit. *Notifications*: each of
the six items turns on what the code tests (a period, UNKNOWN phases, flapping, dependencies, volatility, a
host); the ages are told apart up to `MaxAge`, which is more than the interval; two notifications
reach the escalation. *Commands*: two commands for one, for the other or for both schedulers
are the shortest batch with an order; two failures are a timeout and the retry of its link. *Broks*:
with `MaxQueue` 1 and two broks and the initial ones a queue runs over; `MaxKept` 2 makes `clean_queues` act.
*Algorithms*: the inputs are enumerated in `MCAlgorithms`; a calendar of three months of 8 to 10
days has every kind of month end, and a day of four seconds every kind of time range.

**Symmetry** is used only between checks of one item, in runs without liveness.

**Deadlock** is checked except in `checks_safety` and `checks_forced`, where a crash is a stop, and in
`Satellite`, whose daemon may exit.

**Fairness.** `checks_live`: the main loop is a `while` loop whose works do not block
(`WF(MainLoop)`), time passes (`WF(Elapse)`), pollers poll every second (`WF(Poll)`), and a poller
does not lose every copy of a check for ever (`SF(Return)`): the scheduler itself can do no more
than offer the check again. `satellite`: the daemon's loop and the workers that run go on
(`WF(LoopTurn)`, `WF(TakeAction)`, `WF(FinishAction)`; an action ends or times out), the scheduler
offers a late action again (`WF(Orphan)`, `check_orphaned`), and a network failure ends
(`WF(NetworkUp)`). `downtimes`: the main loop turns and time passes. `dispatcher`: the arbiter's
loop goes on (its requests have timeouts), a daemon's main loop sees its new configuration, and a
daemon that crashed is started again, by the arbiter or by the system. `commands`: the receiver's
loop and the threads of the schedulers go on, and a scheduler that is down is started and configured
again. `broks`: the loops of broker and schedulers go on, the arbiter configures the schedulers, and
a live process reads its queue. Nothing is assumed of commands, deaths or failures, nor of a former
process of a module (`ReadOld`).

## 4. What the models say of the code

`checks_crash` is the violation that stops a daemon: a command's check is in `checks_in_progress`
before `get_new_actions` puts it in `Scheduler.checks`; a failing result of a dependent item consumed
in between raises a KeyError that leaves the main loop (`findings` quotes the docstring). No forced
command is needed: the check of a passive host result is in the same window until `send_an_element`.

The properties of the passing runs name the conditions under which they hold. What happens outside
of them, each found with TLC or with the reference definitions and read again in the code:

*Checks.* A check kept `waiting_me` until the next turn is set back to `wait_consume` by a second copy
of its result and consumed twice (`scheduler.py:1097`; `satellite.py:533` says that doubled results
"shouldn't be a problem"). The `timeout_exit_status` is written to the received copy and has no effect
(`scheduler.py:1081`). A check appended to `actions` between `TakeActions` and `ClearActions` is never
known to the scheduler while `in_checking` stays true, and a passive or internal check that
`manage_internal_checks` drops because active checks were disabled stays in `checks_in_progress`:
`InProgressAccounted` names the two (`mishap`, "overlooked" and "dropped") and claims every other
check. A check that is consumed while a command holds it is written again, or registered again after
its deletion ("revived"); if it had released those that waited for it, releasing them a second time
raises a ValueError: `CrashExplained` names this and the lookup of a check not registered yet, and
excludes every other exception.

*Satellite.* When the only worker dies its queue is deleted before its actions are dealt again; they
stay recorded as being worked on (`satellite.py:689`): `WorkingForIt` needs two workers. A worker that
dies between its answer and the daemon's reading makes the action run twice.

*Downtimes.* `cancel` takes a downtime off the depth that never was on it (`downtime.py:295`), when a
command deletes one that has not started, or one twice before it is removed; the next downtime is in
effect with depth 0 and its item's notifications are sent, against `downtime.py:60` ("Notifications for
the %s will not be sent out for this time period"). `SilentInDowntime` and `DepthExact` allow every
deletion and say what it costs: the item is short by `excess`, for ever.
A second way to lose count needs no deletion: a flexible downtime whose window is over exits and
stays in the dictionary until the next turn; a failing result consumed in that turn, of a check that
ran inside the window, enters it again, and it is removed while in effect. The item then keeps a
positive depth, and is silent, for ever. `DepthExact` holds up to such a re-entry (`again`), which
makes it the only way.

*Dispatcher.* `check_dispatch` assumes that a satellite it cannot reach is configured
(`dispatcher.py:425`), although the comment above asks for "a full redispatch": one request lost
during the dispatch is enough for a main loop with a poller that has no configuration.
`SchedulersReady` is about schedulers, `Reconfigured` says that the poller gets it later. After a
reload `my_daemons` holds the links of the first configuration (`arbiterdaemon.py:1104`), and a
connection lost then is not made again: `Reconfigured` ends with the first configuration. A part
stays assigned to a scheduler that died (`dispatcher.py:393`), so no spare takes it over.

*Notifications.* With a `first_notification_delay` each result that confirms a HARD problem replaces
the waiting notification by a later one; a check faster than the delay is never notified
(`schedulingitem.py:1895`): `NotifiedSoon` is about delays that are over before the next result. An item
without an interval that was told of a problem, and whose RECOVERY is blocked when it is scattered,
keeps its `notified_contacts_ids`; if its next problem is blocked at first, the result that
confirms it creates a notification for nobody (`schedulingitem.py:2312`), and so does each later one.
It takes two commands, more than the run has, and is why `ToldSoon` is about items with an interval. A blocked RECOVERY of an item without an
interval is dropped before the number is reset (`CountRestarts` leaves it out). Flapping and a failing
dependency remove the master of a lasting problem (`OneReminder` leaves these items out). A host
downtime acknowledges the problem without an end time (`downtime.py:213`: "will expire at the same
time as the downtime end").

*Commands.* What the receiver could not send is kept "for a next try" (`receiverdaemon.py:306`) in a
list that nobody pushes again: `Executed` excuses the scheduler that failed. A command that raises
ends its batch.

*Broks.* The initial broks whose answer was lost are not given again, and the broker gets nothing
from any scheduler meanwhile (`brokerdaemon.py:428`): `Managed` excuses failures. `give_broks` binds a
list to the link that it made before (`schedulerdaemon.py:148`) while the main loop appends
(`scheduler.py:508`, `515`) under no common lock, so a brok added in between is lost with no failure:
`NothingLost` and `Managed` except exactly these broks (`lost`), and `NothingIsLost` proves that there
are no others. A module that is
restarted because its queue is too long keeps its old process (`modulesmanager.py:375`), although
`start` says "Try first to stop the process": the old process goes on with its old queue beside the
new one, and the module may get older broks after newer ones. `InOrderOnce` is about each process,
and says that a former one has only older broks than its successor. Over the limit `clean_queues` keeps the oldest broks
(`scheduler.py:682`) where the comment says "the max_broks most recent".

*Expressions.* A business rule that mixes operators without parentheses gives no node
(`dependencynode.py:574`), and loading the configuration ends in an exception (`schedulingitem.py:3362`); within
another one it makes `get_state` raise. In a group expression the last operator of a level counts for all of it,
and "!" before a parenthesis goes to the first name inside: "!(a | b)" is read as "!a | b"
(`complexexpression.py:222`). `MixedRefused` and `MixedRight` check that this is what happens.
An unsatisfied simple "N of:" rule has the worst state of its items (`dependencynode.py:347`), and
so `RuleRight` says, with the code and `tests/test_business_correlator.py`; the docstring ("return OK for
simple X of and worst state for multiple X of", line 274) and the comment above the branch ("the simple
should give OK, the mult should give the worst state") say the contrary, and a TODO notices it. The
comparison is over items that are OK or in their worst state: with warnings, "2 of: a & b" is
WARNING when one is WARNING and the other CRITICAL, but CRITICAL when the first is OK, because all
the sons are then not OK and the second of the thresholds applies (`dependencynode.py:325`).

*Time periods.* A range without a year keeps the one of the first time it was asked about
(`daterange.py:863`, 910, 956, 1018), and the ranges over days of a month move it when they add or take
a month at a year's end (`daterange.py:977`, 989, 992, 1036, 1045, 1048): in a later year, or once the years have
moved, they give the days of the kept year or of the one after it, for ever. The model keeps the years
(`Dated`, `LeftBy`), and `RangeRight` makes its claim for calls about one year on a range that is new
or whose years have not moved (`RangesOf`); it fails without that condition. The searches of
periods (`PeriodRight`) are over dates and days of the week, which keep nothing. `exclude` is overwritten with an empty list when a period is read, and holds uuids
afterwards (`timeperiod.py:208`, `timeperiod.py:875`): exclusions only work as the tests set them up,
and so they are modelled. `get_next_invalid_time_from_t` looks at starts and ends without the days
between, so that it is right for ranges over days of the week (`WeekDays`). An entry whose end comes
before its start in some months only, or a weekday range that wraps, gets the wrong end
(`daterange.py:863`, `daterange.py:928`, `daterange.py:973`): `Steady`.

*Groups and realms.* A group without hosts of its own takes the list object of its first group
member and extends it with the hosts of the others (`itemgroup.py:155`): `Shares`. A realm reached
twice without a loop is reported as one (`realm.py:296`); the reference counts it as an error. A group that moves to the realm of
its hosts leaves the hosts without a realm in the old one (`hostgroup.py:372`).

*Services.* A definition for a single host that follows one with a lower order keeps both services
(`service.py:1814`): `TwiceDefined`. `unindex_item` looks for the description where the index has
(host, description) (`item.py:1176`), so that an excluded service stays in the index; linking a group or a dependency to it
raises a KeyError. `register_service_dependencies` never counts (`service.py:1764`) and ignores
`service_dependencies`. An unknown host group of a service dependency raises instead of being
reported (`servicedependency.py:256`), and `dependency_period` is always reset (`servicedependency.py:394`).

*Macros.* "$$" protects a dollar between two passes; two macros side by side in a value, and values
that hold a dollar side by side, are taken for it (`macroresolver.py:419`): `SideBySide`.

*Templates.* A custom variable is a string and never additive. An additive list under a name that no
object has as a property becomes a variable (`item.py:1969`); when a template has one too, the list
of the object is put, as one element, into the list of the template, which its other users share (`item.py:1957`):
`CustomsRight` only says that nothing the object gives is missing. Definitions of the same order are
not an error, as `item.py:931` has it: the last one is kept.

*Commands on objects.* DELAY_HOST_NOTIFICATION and DELAY_SVC_NOTIFICATION change
`first_notification_delay` and mark nothing (`external_command.py:1692`, 1707): there is no bit for it.
CHANGE_HOST_MODATTR and CHANGE_SVC_MODATTR are said to toggle flags and "for non boolean attribute, only
[indicate] that the corresponding attribute is to be saved" (lines 1371, 1610), but toggle every attribute of
the mask (line 1414): the interval, the command or the period becomes FALSE. CHANGE_NORMAL_HOST_CHECK_INTERVAL
and its service twin raise when the old interval is 0: `checks_enabled` (lines 1477, 1501) is not an
attribute of any object, and `schedule` is never called. The livestate of an UNREACHABLE host becomes an exit status 2,
which `consume_result` takes for DOWN (`arbiter_interface.py:1412`).

## 5. Proofs

All theorems hold for every value of the constants that satisfies the `ASSUME`s.

**SchedulerChecks_proofs.** All theorems hold under all external commands, wherever they fall between
the steps of the main loop. What must hold is that each `list.remove` and lookup succeeds, but in the
windows that commands open, and that `checks_in_progress` only names checks that will still be consumed;
this is not inductive alone. The invariant `IInv` has three parts. `Books`: the types, the drain, that the
loops visit known checks (`TodoKnown`) and that only the works that launch checks have some to register
(`AddingAtWork`); each is preserved on its own (`TypeStep`, `DrainStep`, `TodoStep`, `AddingStep`).
`Links`: a uuid is in `checks_in_progress` once (`NoDuplicates`), leads to a check that lives
(`InProgressAccounted`), and the dependency links agree on both sides (`AwaitedKnown`,
`AwaitingLinked`) until the awaited check has released the others. `CrashExplained`: when the loop has
ended, what it tripped over is still there. The lemmas follow what a step writes: `LaunchSafe` for those
that launch, `AddSafe` for those that register, `FrameSafe` for those that only change a status, one each
for `consume_results`' phases (`ConsumedSafe`, `WaitSafe`, `ResolveSafe`, `LookupSafe`) and `DeleteSafe`
for the removal. `Safety` proves `[]IInv`; `InProgressSafe`, `WaitsSafe`, `LoopGoesOn` and
`DrainNeverBlocks` follow.

**ItemStates_proofs.** The difficulty is what holds *while* a problem is being registered. `IInv`
says that the pending calls stay strictly below the root in the dependency order, so that the root
is never made an impact of itself (`Below`, from the assumption that `Rank` decreases along
dependencies, which the configuration check for loops guarantees); that both sides of the links
agree once the impacts found so far are counted (`Links`); that the direct dependents not yet told
are in the first frame (`Told`); and that the state put aside is the item's own, with its attempts
(`Aside`, `Counted`). `ItemsSafe` proves `[]IInv`; `LinksAgree`, `ProblemsReal`, `DependentsTold`,
`OwnStateSafe` and `HardSafe` follow.

**Downtimes_proofs.** `TypeCorrect` is inductive as stated because it includes that only known
downtimes are pending or visited, and that none is pending when downtimes are removed. For the
silence, `SilentInDowntime` alone is not inductive: leaving one of two downtimes needs that both
were counted. `IInv` says that the depth is at least the number of downtimes in effect less `excess`,
and that the flag follows the depth; entering adds to both sides, leaving takes from both, a deletion of
one not in effect takes from the depth and adds to `excess`, removal takes only from the set. `DepthCovers` proves `[]IInv`, `SilenceKept` and `FlagSafe` follow. `DepthCounts` proves the
equality, `DepthExact`, as long as no downtime marked for deletion was entered (`again`): it needs
that no downtime is entered twice (`Fresh`): those pending are different, none of them is in effect,
and one that waits for its trigger is entered only once the trigger was (`Linked`). None of these
restricts what commands delete, or when.

**Satellite_proofs.** `Pool` says that the workers that run are known and not about to be deleted,
and how many can be missing. With it, `Working` is inductive: the recorded worker of an action is one
the daemon knows, or the one it deletes now, and has the action in its queue or in hand. The step that
matters is `Requeue` with `assign_to_a_queue`, which needs a queue to deal to. `WorkingWhileOneRuns`
therefore states `WorkingForIt` of the behaviours in which a worker runs at every moment (a temporal
hypothesis, `[](alive # {})`), and `WorkingForAll` of every behaviour when `MaxDeaths < MinWorkers`;
the second follows from `Pool`. `NothingIsLost` adds what `NothingLost` needs of the link before the
first failure (`Smooth`).

**Dispatcher_proofs.** `TypeCorrect` includes what the stages walk through (`todo`). `DeliveryRefined`
proves that `Dispatcher` implements `ConfDelivery`: with `OwnShare`, that whatever a daemon holds or is
about to install is its own share of a version published so far and that the second is not older than
the first, each step is one of the abstract steps or changes nothing of it. `NeverOutOfOrder` is about
the flags of the Dispatcher object at each stage of `Arbiter.main` (`Stages`). The raise that is hard
to exclude is the one of `check_dispatch` without a dispatch: one has to know that the
`check_reachable` before it finds a daemon to configure, which holds because after the connections
every daemon has answered or is out of reach (`Asked`). `SchedulersManage` needs that what a daemon
answered stays true while nothing crashes (`Known`), and that the check of the dispatch left the
parts with schedulers that answered (`Confirmed`). Assumed of the configuration: the lists are
sequences of daemons, there is a scheduler (`SomeScheduler`: `fill_default_satellites` makes one), and
`prepare_dispatch` fills its dictionaries with links and parts (`PreparedTypes`, which TLC evaluates on
what `ConfParts` computes).

**Commands_proofs.** A command moves one way: from the queue of its source to `unprocessed`, to
`pushed` of a scheduler, to a request, to the scheduler. `Chain` says that each list on the way is in
the order the commands of a source were sent and that what is ahead was sent before; `Apart`, that the
requests to one scheduler and what it executed share no command; `Awaited`, that the request the
receiver waits for is for the list it pushes now. `RunOnce` follows: a list that was posted is emptied
or set aside before it could be posted again, so a late request is the only copy of its commands.
`OnTime`, that a scheduler without a failure has no late request, gives `RunInOrder`. No hypothesis
beyond `CommandsConstants`.

**Broks_proofs.** The way of a brok has a fork: from `external_broks` it goes to the queues of the
external modules, as soon as it is in the list, and to the internal module, when the turn has time. `Made`
says that the list of a scheduler is in order and marked from its beginning, `Gone` that what left it
is older than what is in it, `InBroker` and `InModule` the same for the broker and for what a module
read, what is in its queue, and the broks not marked yet (`Pending`). `OnceInOrder` follows from these,
also for a module that restarts with new queues. `KeptFine` says that the list `give_broks` is about
to bind is in order and that what is in the link's list of it is its beginning, `Remaining` is that list
as long as it is not bound, and `InOld` is `InModule` for the former processes of a module, with what
they have before what their successors get. `Served`, that a module which never failed has a queue
and has got every marked brok, gives `ModulesSeeTheSame`: after `SendBroks` nothing is `Pending`, so
that what is managed is marked. `NothingIsLost` is inductive with them. The constants are those of
`BroksConstants`; `NoList` says that `None` is not a list, so that a queue that is None can be
told from one that is not.

**Notifications_proofs.** For `OneReminder` it has to be known where a PROBLEM can be and what creates
it. `Sound` relates the item's own record: a PROBLEM only with a HARD failing state, never two, one
where nothing but a recovery can remove it, and the number zero without a problem. Within
`consume_result` it fails between `set_state_from_exit_status`, which has changed the state, and the
branch that acts on it; `Ready` is what holds there, with `last` for the state, and each branch (`ToOk`,
`StartsFailing`, `SoftFailing`, `HardFailing`) has a lemma from `Ready` to `Sound`. `Placed` says at which
stage a PROBLEM may still be in `item.actions`, which is why `ClearActions` loses none: only
`consume_result` creates one, and the loop copies the list before it clears it. `Tracked` is what
`NobodyForgotten` needs before anybody was told: who is to be told of a problem, by the latest child of
that contact that waits, is in `notified_contacts_ids`; the order of the children counts, since a RECOVERY
behind a PROBLEM pays the debt. With the types these parts are inductive (`Safety`), and
`TypeCorrect`, `EverybodyTold`, `OneReminderRuns` and `NumberRestarts` follow. `ToldSoon` proves
`NotifiedSoon` from a second invariant, `Soon`: while a result has left a problem untold, its PROBLEM
waits for less than the time to the next result and, at each stage of the turn, it will still be seen
by `DueMasters` before that result. It needs that the master is fresh (`Awaited`: every branch that ends
in a HARD problem with the number zero has just renewed it) and that its scattering gives a child, for
which somebody has to want it: `Attentive`, about the contacts of the items and of the escalations,
which TLC evaluates in the run (`MCAttentive`). `RuleConstants` and `NotificationConstants` ask for finite
sets of contacts and ways and for notification periods that are not empty.

The inductive invariants and the type invariants of these modules are theorems, and so no part of the
runs; TLC checked each of them before it was proved.

**Only model-checked**: the liveness properties (fairness and ENABLED are outside the prover);
`NotifiedSoon` for items without an interval; the pure algorithms, whose recursive operators the
prover does not accept and whose correctness is induction over data; `Dispatcher` only from `PreparedTypes` on, so that `ConfParts`
itself is checked and not proved.

## 6. Not modelled

`PROJECT.json` gives the reason per component. In short: rendering, logging, statistics, process
handling and file access are input and output; reading configuration files and converting text is
sequential and has no state; result, check and impact modulations are lookups; event handlers and
performance data commands are actions nothing waits for. Of the modelled components these parts are
left out: passive satellites, the spare arbiter (its test is skipped,
`tests/test_dispatcher.py:527`), `clean_queues` for checks and actions (off by default), the
retention of notifications and downtimes, and the order in which `Config` calls the algorithms.

## 7. Plan

1. The dictionaries of `prepare_dispatch`: `PreparedTypes` as a theorem of `ConfParts`, which folds over
   the packs and the links, instead of an assumption of `Dispatcher_proofs`.
2. What the algorithms promise by their shape alone, where a definition without recursion exists.
3. The retention of notifications and downtimes, for restarts of a scheduler beyond the item states.
