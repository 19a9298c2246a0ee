----------------------------- MODULE Satellite -----------------------------
(***************************************************************************)
(* A poller or a reactionner in active mode: the daemon that gets actions  *)
(* from a scheduler, deals them to its workers and pushes the results      *)
(* back. Its main loop shares only queues with the worker processes, which *)
(* may die at any time; the network to the scheduler may break at any      *)
(* time. The scheduler is external: what it knows of each action is all    *)
(* that matters here (SchedulerChecks models the rest).                    *)
(***************************************************************************)
EXTENDS SequencesExt, FiniteSets

CONSTANTS
  Actions,     \* uuids of the actions the scheduler wants executed
  MinWorkers,  \* min_workers
  Processes,   \* processes_by_worker
  MaxAttempts, \* max_check_attempts of the scheduler link
  MaxDeaths,   \* bound: workers that die
  MaxFailures, \* bound: network breakdowns and timeouts
  MaxResets     \* bound: configurations received while running, scheduler restarts

ASSUME SatelliteConstants ==
  /\ MinWorkers \in Nat \ {0} /\ Processes \in Nat \ {0}
  /\ MaxAttempts \in Nat \ {0}
  /\ MaxDeaths \in Nat /\ MaxFailures \in Nat /\ MaxResets \in Nat

\* Worker identifiers are numbered from 1 and never used again.
Workers == 1..(MinWorkers + MaxDeaths)
NoWorker == 0

VARIABLES
  sched,     \* the scheduler's view of an action (external)
  network,   \* the scheduler can be reached (external)
  failures,  \* network breakdowns and timeouts so far
  resets,    \* configurations received and scheduler restarts so far
  restarted, \* the scheduler restarted since the link connected (external)
  link,      \* the scheduler link: never connected ("new"), "alive",
             \* "unreachable" or "dead"
  attempt,   \* its failed attempts
  actions,   \* keys of scheduler_link.actions
  worker,    \* action -> my_worker
  homerun,   \* keys of wait_homerun
  started,   \* workers created so far
  alive,     \* worker processes that run
  known,     \* workers of q_by_mod
  queue,     \* worker -> its actions queue
  held,      \* worker -> Worker.checks
  returns,   \* returns_queue
  pc,        \* stage of the loop turn
  dying,     \* w_to_del
  cur,       \* the worker whose actions are being dealt again
  incoming   \* actions just received and not yet added

linkVars   == <<link, attempt>>
actVars    == <<actions, worker>>
workerVars == <<started, alive, held>>
dealVars   == <<known, queue>>
loopVars   == <<pc, dying, cur, incoming>>
envVars    == <<sched, network, failures, resets, restarted>>
vars == <<envVars, linkVars, actVars, homerun, workerVars, dealVars, returns,
          loopVars>>

Stages == {"restore", "zombies", "forget", "requeue", "adjust", "returns",
           "push", "get", "add", "exited"}

TypeOK ==
  /\ sched \in [Actions -> {"none", "due", "polled", "done"}]
  /\ network \in BOOLEAN /\ restarted \in BOOLEAN
  /\ failures \in 0..MaxFailures /\ resets \in 0..MaxResets
  /\ link \in {"new", "alive", "unreachable", "dead"}
  /\ attempt \in 0..(MaxAttempts - 1)
  /\ actions \in SUBSET Actions
  /\ worker \in [Actions -> Workers \cup {NoWorker}]
  /\ homerun \in SUBSET Actions
  /\ started \in 0..(MinWorkers + MaxDeaths)
  /\ alive \in SUBSET (1..started) /\ known \in SUBSET (1..started)
  /\ queue \in [Workers -> Seq(Actions)] /\ held \in [Workers -> Seq(Actions)]
  /\ returns \in Seq(Actions)
  /\ pc \in Stages /\ dying \in SUBSET known
  /\ cur \in Workers \cup {NoWorker}
  /\ incoming \in SUBSET Actions

\* The loop starts with the minimum of workers and a connected scheduler.
Init ==
  /\ sched = [a \in Actions |-> "none"] /\ network = TRUE
  /\ failures = 0 /\ resets = 0 /\ restarted = FALSE
  /\ link = "alive" /\ attempt = 0
  /\ actions = {} /\ worker = [a \in Actions |-> NoWorker] /\ homerun = {}
  /\ started = MinWorkers /\ alive = 1..MinWorkers /\ known = 1..MinWorkers
  /\ queue = [w \in Workers |-> <<>>] /\ held = [w \in Workers |-> <<>>]
  /\ returns = <<>>
  /\ pc = "restore" /\ dying = {} /\ cur = NoWorker /\ incoming = {}

Goto(stage) == pc' = stage

-----------------------------------------------------------------------------
(* The scheduler link *)

\* add_failed_check_attempt: the link becomes unreachable, then dead.
AddFailedAttempt ==
  IF attempt + 1 >= MaxAttempts
  THEN link' = "dead" /\ attempt' = 0
  ELSE link' = "unreachable" /\ attempt' = attempt + 1

\* valid_connection fails.
NoConnection == link \in {"new", "dead"}

SetDead == link' = "dead" /\ attempt' = 0

\* A new configuration: clean_previous_run clears the scheduler links before
\* setup_new_conf looks for a context to keep, then the new links connect.
NewConf ==
  /\ pc = "restore" /\ resets < MaxResets
  /\ resets' = resets + 1
  /\ actions' = {} /\ worker' = [a \in Actions |-> NoWorker] /\ homerun' = {}
  /\ link' = (IF network THEN "alive" ELSE "new") /\ attempt' = 0
  /\ restarted' = FALSE
  /\ UNCHANGED <<sched, network, failures, workerVars, dealVars, returns, loopVars>>

\* Mutant: a dead link is never connected again.
Restore_Never ==
  /\ pc = "restore" /\ Goto("zombies")
  /\ UNCHANGED <<envVars, linkVars, actVars, homerun, workerVars, dealVars, returns,
                 dying, cur, incoming>>

\* The beginning of a turn: do_main_loop reconnects a dead link. A scheduler
\* with another running identifier restarted: its context is cleared.
Restore ==
  /\ pc = "restore"
  /\ IF NoConnection /\ network
     THEN /\ link' = "alive" /\ restarted' = FALSE
          /\ IF restarted /\ link = "dead"
             THEN actions' = {} /\ worker' = [a \in Actions |-> NoWorker] /\ homerun' = {}
             ELSE UNCHANGED <<actVars, homerun>>
     ELSE UNCHANGED <<link, restarted, actVars, homerun>>
  /\ Goto("zombies")
  /\ UNCHANGED <<sched, network, failures, resets, attempt, workerVars, dealVars,
                 returns, dying, cur, incoming>>

-----------------------------------------------------------------------------
(* check_and_del_zombie_workers, adjust_worker_number_by_load *)

\* assign_to_a_queue: the round robin may point at any of the queues.
Assign(a, w) ==
  /\ worker' = [worker EXCEPT ![a] = w]
  /\ queue' = [queue EXCEPT ![w] = Append(@, a)]

NoticeDead ==
  /\ pc = "zombies"
  /\ dying' = known \ alive
  /\ Goto("forget")
  /\ UNCHANGED <<envVars, linkVars, actVars, homerun, workerVars, dealVars, returns,
                 cur, incoming>>

\* The dead worker's queue is deleted ...
ForgetQueue(w) ==
  /\ pc = "forget" /\ w \in dying
  /\ known' = known \ {w} /\ dying' = dying \ {w}
  /\ cur' = w /\ Goto("requeue")
  /\ UNCHANGED <<envVars, linkVars, actVars, homerun, workerVars, queue, returns,
                 incoming>>

\* ... and its actions are dealt to those that remain in q_by_mod, even to one
\* that is about to be deleted as well.
Requeue(a) ==
  /\ pc = "requeue" /\ a \in actions /\ worker[a] = cur
  /\ \E w \in known : Assign(a, w)
  /\ UNCHANGED <<envVars, linkVars, actions, homerun, workerVars, known, returns,
                 loopVars>>

\* Mutant: the actions of the dead worker are forgotten.
RequeueEnd_AtOnce ==
  /\ pc = "requeue"
  /\ cur' = NoWorker /\ Goto("forget")
  /\ UNCHANGED <<envVars, linkVars, actVars, homerun, workerVars, dealVars, returns,
                 dying, incoming>>

\* Without any queue left, assign_to_a_queue does nothing.
RequeueEnd ==
  /\ pc = "requeue"
  /\ known = {} \/ \A a \in actions : worker[a] # cur
  /\ cur' = NoWorker /\ Goto("forget")
  /\ UNCHANGED <<envVars, linkVars, actVars, homerun, workerVars, dealVars, returns,
                 dying, incoming>>

ForgetEnd ==
  /\ pc = "forget" /\ dying = {}
  /\ Goto("adjust")
  /\ UNCHANGED <<envVars, linkVars, actVars, homerun, workerVars, dealVars, returns,
                 dying, cur, incoming>>

CreateWorker ==
  /\ pc = "adjust" /\ Cardinality(known) < MinWorkers
  /\ started' = started + 1
  /\ alive' = alive \cup {started'} /\ known' = known \cup {started'}
  /\ UNCHANGED <<envVars, linkVars, actVars, homerun, held, queue, returns, loopVars>>

AdjustEnd ==
  /\ pc = "adjust" /\ Cardinality(known) >= MinWorkers
  /\ Goto("returns")
  /\ UNCHANGED <<envVars, linkVars, actVars, homerun, workerVars, dealVars, returns,
                 dying, cur, incoming>>

-----------------------------------------------------------------------------
(* Results: the returns queue, then push_results *)

\* manage_action_return; the action may be unknown already (a KeyError that is
\* only logged).
ManageActionReturn ==
  /\ pc = "returns" /\ returns # <<>>
  /\ LET a == Head(returns) IN
       /\ actions' = actions \ {a}
       /\ worker' = [worker EXCEPT ![a] = NoWorker]
       /\ homerun' = homerun \cup {a}
  /\ returns' = Tail(returns)
  /\ UNCHANGED <<envVars, linkVars, workerVars, dealVars, loopVars>>

ReturnsEnd ==
  /\ pc = "returns" /\ returns = <<>>
  /\ Goto("push")
  /\ UNCHANGED <<envVars, linkVars, actVars, homerun, workerVars, dealVars, returns,
                 dying, cur, incoming>>

\* The scheduler (external) takes the results of the actions A.
Received(A) == sched' = [a \in Actions |-> IF a \in A THEN "done" ELSE sched[a]]

\* Nothing to push, or no connection: valid_connection raises a LinkError that
\* do_loop_turn catches, and the results are kept.
PushNothing ==
  /\ pc = "push" /\ (homerun = {} \/ NoConnection)
  /\ Goto("get")
  /\ UNCHANGED <<envVars, linkVars, actVars, homerun, workerVars, dealVars, returns,
                 dying, cur, incoming>>

\* Mutant: the results are cleared before they are sent.
PushOk_ClearsFirst ==
  /\ pc = "push" /\ homerun # {} /\ link = "alive" /\ network
  /\ homerun' = {} /\ Goto("get")
  /\ UNCHANGED <<envVars, linkVars, actVars, workerVars, dealVars, returns, dying,
                 cur, incoming>>

PushOk ==
  /\ pc = "push" /\ homerun # {} /\ link = "alive" /\ network
  /\ Received(homerun)
  /\ homerun' = {} /\ Goto("get")
  /\ UNCHANGED <<network, failures, resets, restarted, linkVars, actVars, workerVars, dealVars,
                 returns, dying, cur, incoming>>

\* communicate catches every failure of the request, and push_results clears
\* the results all the same.
PushFails ==
  /\ pc = "push" /\ homerun # {}
  /\ \/ /\ link = "alive" /\ ~network     \* the connection is refused
        /\ SetDead
        /\ UNCHANGED <<sched, failures>>
     \/ /\ link = "unreachable"           \* no request is made
        /\ AddFailedAttempt
        /\ UNCHANGED <<sched, failures>>
     \/ /\ link = "alive" /\ network      \* a timeout, before or after the
        /\ failures < MaxFailures         \* scheduler took the results
        /\ failures' = failures + 1
        /\ Received(homerun) \/ sched' = sched
        /\ AddFailedAttempt
  /\ homerun' = {} /\ Goto("get")
  /\ UNCHANGED <<network, resets, restarted, actVars, workerVars, dealVars, returns, dying, cur,
                 incoming>>

-----------------------------------------------------------------------------
(* New actions: do_get_new_actions, add_actions *)

Due == { a \in Actions : sched[a] = "due" }

Polled(A) == sched' = [a \in Actions |-> IF a \in A THEN "polled" ELSE sched[a]]

\* No connection: a LinkError that do_loop_turn catches.
GetNothing ==
  /\ pc = "get" /\ NoConnection
  /\ Goto("restore")
  /\ UNCHANGED <<envVars, linkVars, actVars, homerun, workerVars, dealVars, returns,
                 dying, cur, incoming>>

\* The scheduler hands out what is due; get_actions does not look whether the
\* link is reachable.
GetOk ==
  /\ pc = "get" /\ ~NoConnection /\ network
  /\ Polled(Due) /\ incoming' = Due
  /\ Goto("add")
  /\ UNCHANGED <<network, failures, resets, restarted, linkVars, actVars, homerun, workerVars,
                 dealVars, returns, dying, cur>>

\* get_actions is not wrapped by communicate: a refused connection or a timeout
\* leaves do_loop_turn and ends the daemon.
GetFails ==
  /\ pc = "get" /\ ~NoConnection
  /\ \/ ~network /\ UNCHANGED <<sched, failures>>
     \/ /\ network /\ failures < MaxFailures
        /\ failures' = failures + 1
        /\ Polled(Due) \/ sched' = sched
  /\ Goto("exited")
  /\ UNCHANGED <<network, resets, restarted, linkVars, actVars, homerun, workerVars, dealVars,
                 returns, dying, cur, incoming>>

\* An action the satellite has is passed over, another one is queued.
AddAction(a) ==
  /\ pc = "add" /\ a \in incoming
  /\ actions' = actions \cup {a}
  /\ IF a \in actions \/ known = {}
     THEN UNCHANGED <<worker, queue>>
     ELSE \E w \in known : Assign(a, w)
  /\ incoming' = incoming \ {a}
  /\ UNCHANGED <<envVars, linkVars, homerun, workerVars, known, returns, pc, dying,
                 cur>>

AddEnd ==
  /\ pc = "add" /\ incoming = {}
  /\ Goto("restore")
  /\ UNCHANGED <<envVars, linkVars, actVars, homerun, workerVars, dealVars, returns,
                 dying, cur, incoming>>

-----------------------------------------------------------------------------
(* The worker processes *)

\* get_new_checks takes one action, which launch_new_checks then executes.
TakeAction(w) ==
  /\ w \in alive /\ queue[w] # <<>> /\ Len(held[w]) < Processes
  /\ held' = [held EXCEPT ![w] = Append(@, Head(queue[w]))]
  /\ queue' = [queue EXCEPT ![w] = Tail(@)]
  /\ UNCHANGED <<envVars, linkVars, actVars, homerun, started, alive, known, returns,
                 loopVars>>

\* manage_finished_checks: an action that ended or timed out is answered.
FinishAction(w, a) ==
  /\ w \in alive
  /\ \E k \in DOMAIN held[w] :
       held[w][k] = a /\ held' = [held EXCEPT ![w] = RemoveAt(@, k)]
  /\ returns' = Append(returns, a)
  /\ UNCHANGED <<envVars, linkVars, actVars, homerun, started, alive, dealVars,
                 loopVars>>

\* A worker is killed, or an ActionError ends its work.
Die(w) ==
  /\ w \in alive /\ started - Cardinality(alive) < MaxDeaths
  /\ alive' = alive \ {w}
  /\ UNCHANGED <<envVars, linkVars, actVars, homerun, started, held, dealVars, returns,
                 loopVars>>

-----------------------------------------------------------------------------
(* The scheduler and the network (external) *)

Schedule(a) ==
  /\ sched[a] = "none"
  /\ sched' = [sched EXCEPT ![a] = "due"]
  /\ UNCHANGED <<network, failures, resets, restarted, linkVars, actVars, homerun, workerVars,
                 dealVars, returns, loopVars>>

\* check_orphaned offers a polled action again.
Orphan(a) ==
  /\ sched[a] = "polled"
  /\ sched' = [sched EXCEPT ![a] = "due"]
  /\ UNCHANGED <<network, failures, resets, restarted, linkVars, actVars, homerun, workerVars,
                 dealVars, returns, loopVars>>

NetworkDown ==
  /\ network /\ failures < MaxFailures
  /\ network' = FALSE /\ failures' = failures + 1
  /\ UNCHANGED <<sched, resets, restarted, linkVars, actVars, homerun, workerVars, dealVars,
                 returns, loopVars>>

NetworkUp ==
  /\ ~network /\ network' = TRUE
  /\ \/ UNCHANGED <<restarted, resets>>
     \/ resets < MaxResets /\ resets' = resets + 1 /\ restarted' = TRUE
  /\ UNCHANGED <<sched, failures, linkVars, actVars, homerun, workerVars, dealVars,
                 returns, loopVars>>

-----------------------------------------------------------------------------
(* Specification *)

LoopTurn ==
  \/ NewConf
  \/ Restore
  \/ NoticeDead
  \/ \E w \in Workers : ForgetQueue(w)
  \/ \E a \in Actions : Requeue(a)
  \/ RequeueEnd
  \/ ForgetEnd
  \/ CreateWorker
  \/ AdjustEnd
  \/ ManageActionReturn
  \/ ReturnsEnd
  \/ PushNothing
  \/ PushOk
  \/ PushFails
  \/ GetNothing
  \/ GetOk
  \/ GetFails
  \/ \E a \in Actions : AddAction(a)
  \/ AddEnd

Environment ==
  \/ \E a \in Actions : Schedule(a) \/ Orphan(a)
  \/ NetworkDown
  \/ NetworkUp

Next ==
  \/ LoopTurn
  \/ \E w \in Workers : TakeAction(w)
  \/ \E w \in Workers, a \in Actions : FinishAction(w, a)
  \/ \E w \in Workers : Die(w)
  \/ Environment

Spec == Init /\ [][Next]_vars

\* The main loop turns; a worker that runs takes and finishes its actions; the
\* scheduler offers again what does not come back; the network comes back.
Fairness ==
  /\ WF_vars(LoopTurn)
  /\ \A w \in Workers : WF_vars(TakeAction(w))
  /\ \A w \in Workers, a \in Actions : WF_vars(FinishAction(w, a))
  /\ \A a \in Actions : WF_vars(Orphan(a))
  /\ WF_vars(NetworkUp)

FairSpec == Spec /\ Fairness

-----------------------------------------------------------------------------
(* Properties *)

\* "If we already have this action, we are already working for it!": the test
\* of add_actions is right only if every action of scheduler_link.actions is
\* with a worker that is watched, or on its way back.
WorkingForIt ==
  \A a \in actions :
    \/ Contains(returns, a)
    \/ /\ worker[a] \in known \cup {cur}
       /\ Contains(queue[worker[a]], a) \/ Contains(held[worker[a]], a)

\* Unless a request fails, an action the scheduler counts on is somewhere in the
\* satellite, whatever happens to the workers.
NothingLost ==
  failures = 0 /\ resets = 0 =>
    \A a \in Actions :
      sched[a] = "polled" =>
        a \in actions \cup homerun \cup incoming \/ Contains(returns, a)

\* An action handed out is answered, over every loss of a worker, of a push or of
\* the network, unless the daemon exits.
Delivered ==
  \A a \in Actions : sched[a] = "polled" ~> (sched[a] = "done" \/ pc = "exited")
=============================================================================
