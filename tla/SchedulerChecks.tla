-------------------------- MODULE SchedulerChecks --------------------------
(***************************************************************************)
(* The life of a check inside a scheduler daemon: from launch_check,       *)
(* through the satellites that execute it, to its consumption and removal. *)
(*                                                                         *)
(* Three parties share Scheduler.checks, the items' checks_in_progress and *)
(* actions lists, and the Check objects, without a common lock:            *)
(*   - the main loop, Scheduler.run, calling the recurrent works in order; *)
(*   - the HTTP threads that serve the pollers (_checks, _results);        *)
(*   - the HTTP thread that runs external commands on the items.           *)
(* One action is one iteration of a recurrent work's loop (one item, one   *)
(* check, one result), or one HTTP request on one check or item; they      *)
(* interleave freely. What launches a check and what registers it in       *)
(* Scheduler.checks are separate steps: the main loop keeps the checks it  *)
(* has still to register in "adding", an external command its check in     *)
(* "command" (app.lock admits one command at a time).                      *)
(***************************************************************************)
EXTENDS SequencesExt

CONSTANTS
  Items,          \* the hosts and the services
  CheckIds,       \* check uuids (a uuid is reused once nothing mentions it)
  ItemOf,         \* Check.ref, known from the uuid
  ActDependOf,    \* item -> items of its act_depend_of
  Internal,       \* items whose check is internal (business rule, "_..." command)
  FreshnessItems, \* items with check_freshness and passive_checks_enabled
  Exits,          \* exit statuses a result may carry; 0 is OK/UP
  TimeoutExit,    \* timeout_exit_status of the configuration
  Commands,       \* item -> external commands that may arrive for it
  Orphanage,      \* check_for_orphaned with a non-zero time_to_orphanage
  MaxCopies,      \* bound: copies of one check held by the satellites
  MaxResults      \* bound: results waiting in waiting_results

DefaultExit == 3  \* Action.exit_status before any result

CommandNames == {"force", "schedule", "passive", "disable", "enable"}

ASSUME CheckConstants ==
  /\ ItemOf \in [CheckIds -> Items]
  /\ ActDependOf \in [Items -> SUBSET Items]
  /\ Internal \subseteq Items
  /\ FreshnessItems \subseteq Items
  /\ Exits \subseteq Nat /\ {0, DefaultExit, TimeoutExit} \subseteq Exits
  /\ Commands \in [Items -> SUBSET CommandNames]
  /\ Orphanage \in BOOLEAN
  /\ MaxCopies \in Nat /\ MaxResults \in Nat

VARIABLES
  checks,      \* keys of Scheduler.checks
  inProgress,  \* item -> checks_in_progress (in_checking is its non-emptiness)
  adding,      \* checks the main loop has launched and not yet registered
  actions,     \* item -> the checks of its actions list
  active,      \* item -> active_checks_enabled
  status,      \* Check.status; "none" for a uuid no check has
  exit,        \* Check.exit_status
  when,        \* Check.t_to_go against the clock
  dependOn,    \* Check.depend_on
  dependMe,    \* Check.depend_on_me
  copies,      \* copies of the check at the satellites, not yet returned
  waiting,     \* Scheduler.waiting_results
  pc,          \* the recurrent work in progress
  todo,        \* what that work's loop has still to visit
  cur,         \* the item whose actions get_new_actions has just read
  left,        \* results consume_results has still to drain
  resolved,    \* have_resolved_checks
  command,     \* the external command under way and the checks it holds
  mishap       \* history: what has gone wrong with a check

itemVars == <<inProgress, actions, active>>
objVars  == <<status, exit, when, dependOn, dependMe, mishap>>
satVars  == <<copies, waiting>>
outVars  == <<satVars, command>>  \* what the main loop seldom writes
loopVars == <<pc, todo, adding, cur, left, resolved>>
vars     == <<checks, itemVars, objVars, satVars, loopVars, command>>

Statuses == {"none", "scheduled", "polled", "wait_consume", "wait_depend",
             "waiting_me", "zombie"}
Works    == {"schedule", "freshness", "drain", "consume", "resolve",
             "include", "take", "clear", "zombies", "orphans", "internal",
             "crashed"}

\* What travels in waiting_results: the answer of a satellite ("done",
\* "timeout"), or the very Check object of the freshness test ("self").
Results == [id : CheckIds, kind : {"done", "timeout", "self"}, exit : Exits]

\* The external command under way: a passive result, launched or hijacked
\* ("passive"), then written on its check ("send"), or the results of
\* disable_active_checks, looked up ("disable").
Stages == {"idle", "passive", "send", "disable"}
Idle == [stage |-> "idle", checks |-> {}, exit |-> DefaultExit]

\* "overlooked": elt.actions = [] has thrown the check away unread.
\* "dropped": manage_internal_checks has ended it without a result.
\* "revived": it was written, or registered again, after its consumption.
Mishaps == {"overlooked", "dropped", "revived"}

TypeOK ==
  /\ checks \in SUBSET CheckIds
  /\ inProgress \in [Items -> Seq(CheckIds)]
  /\ actions \in [Items -> SUBSET CheckIds]
  /\ active \in [Items -> BOOLEAN]
  /\ status \in [CheckIds -> Statuses]
  /\ exit \in [CheckIds -> Exits]
  /\ when \in [CheckIds -> {"future", "due", "late"}]
  /\ dependOn \in [CheckIds -> SUBSET CheckIds]
  /\ dependMe \in [CheckIds -> SUBSET CheckIds]
  /\ copies \in [CheckIds -> Nat]
  /\ waiting \in Seq(Results)
  /\ pc \in Works
  /\ todo \in SUBSET (Items \cup CheckIds)
  /\ cur \in SUBSET Items
  /\ left \in Nat
  /\ resolved \in BOOLEAN
  /\ adding \in SUBSET CheckIds
  /\ command \in [stage : Stages, checks : SUBSET CheckIds, exit : Exits]
  /\ mishap \in [CheckIds -> SUBSET Mishaps]

Init ==
  /\ checks = {}
  /\ inProgress = [i \in Items |-> <<>>]
  /\ actions = [i \in Items |-> {}]
  /\ active \in [Items -> BOOLEAN]
  /\ status = [c \in CheckIds |-> "none"]
  /\ exit = [c \in CheckIds |-> DefaultExit]
  /\ when = [c \in CheckIds |-> "due"]
  /\ dependOn = [c \in CheckIds |-> {}]
  /\ dependMe = [c \in CheckIds |-> {}]
  /\ copies = [c \in CheckIds |-> 0]
  /\ waiting = <<>>
  /\ pc = "schedule" /\ todo = Items /\ cur = {}
  /\ left = 0 /\ resolved = FALSE
  /\ adding = {} /\ command = Idle
  /\ mishap = [c \in CheckIds |-> {}]

-----------------------------------------------------------------------------
(* Helpers *)

\* A uuid that nothing in the system mentions: what get_a_new_object_id gives.
Fresh(c) ==
  /\ c \notin checks /\ c \notin adding /\ c \notin command.checks
  /\ \A i \in Items : c \notin actions[i] /\ c \notin Range(inProgress[i])
  /\ \A d \in CheckIds : c \notin dependOn[d] /\ c \notin dependMe[d]
  /\ copies[c] = 0
  /\ \A k \in DOMAIN waiting : waiting[k].id # c

\* The check a passive result holds: it registers it at last, whatever has
\* become of it in the meantime.
Held == IF command.stage \in {"passive", "send"} THEN command.checks ELSE {}

\* A list of uuids still holds this one.
Mentioned(c) == \/ c \in Range(inProgress[ItemOf[c]])
                \/ \E d \in CheckIds : c \in dependOn[d]

\* The sets of new checks launched together: at most one per item.
FreshSets(I) == { N \in SUBSET { c \in CheckIds : ItemOf[c] \in I /\ Fresh(c) } :
                    \A c, d \in N : ItemOf[c] = ItemOf[d] => c = d }

\* f with the value v for the new checks N.
Begin(f, N, v) == [c \in CheckIds |-> IF c \in N THEN v ELSE f[c]]

\* The history, with the mark m for the checks N.
Marked(N, m) == [c \in CheckIds |-> IF c \in N THEN mishap[c] \cup {m} ELSE mishap[c]]

NewFor(N, i) == { c \in N : ItemOf[c] = i }

\* launch_check appends the uuids of the new checks N to checks_in_progress...
InProgressWith(N) ==
  [i \in Items |-> IF NewFor(N, i) = {} THEN inProgress[i]
                   ELSE Append(inProgress[i], CHOOSE c \in NewFor(N, i) : TRUE)]

\* ... and the checks to the items' actions, where get_new_actions finds them.
ActionsWith(N) == [i \in Items |-> actions[i] \cup NewFor(N, i)]

\* launch_check on its own: st, e and t are the status, the exit status and
\* the t_to_go the caller gives the new checks. Registering N in
\* Scheduler.checks is another step: of the caller, or of get_new_actions.
Launch(N, st, e, t) ==
  /\ inProgress' = InProgressWith(N)
  /\ actions' = ActionsWith(N)
  /\ status' = Begin(status, N, st)
  /\ exit' = Begin(exit, N, e)
  /\ when' = Begin(when, N, t)
  /\ dependOn' = Begin(dependOn, N, {})
  /\ dependMe' = Begin(dependMe, N, {})
  /\ mishap' = Begin(mishap, N, {})

\* Scheduler.add_check. A check that was consumed while a command held it
\* comes back.
AddChecks(N) ==
  /\ checks' = checks \cup N
  /\ mishap' = Marked({ c \in N \ checks : status[c] = "zombie" }, "revived")

\* list.remove on checks_in_progress, guarded by the membership test (a uuid
\* is in the list once).
Without(s, c) ==
  IF c \in Range(s) THEN RemoveAt(s, CHOOSE k \in DOMAIN s : s[k] = c) ELSE s

\* launch_check with force: the check in progress that takes over the request.
Hijackable(i) == inProgress[i] # <<>> /\ Head(inProgress[i]) \in checks

Goto(work, what) == pc' = work /\ todo' = what

\* The main loop is at this work and has no launched check left to register.
At(work) == pc = work /\ adding = {}

\* An exception leaves the main loop: the daemon exits.
Crash == /\ Goto("crashed", {})
         /\ UNCHANGED <<checks, itemVars, objVars, satVars, adding, cur, left,
                        resolved, command>>

-----------------------------------------------------------------------------
(* Main loop: schedule, check_freshness *)

\* Scheduler.schedule, one item. No check is launched when the item is in
\* checking or not active, nor when check_interval is 0, no next time exists
\* in the check period or a check dependency forbids it (N = {}).
Schedule(i) ==
  /\ At("schedule") /\ i \in todo
  /\ \E N \in FreshSets({i}) :
       /\ N # {} => inProgress[i] = <<>> /\ active[i]
       /\ Launch(N, "scheduled", DefaultExit, "future")
       /\ adding' = N
  /\ todo' = todo \ {i}
  /\ UNCHANGED <<checks, active, outVars, pc, cur, left, resolved>>

\* Scheduler.add on a check the main loop has launched; check_freshness then
\* puts it in waiting_results.
Register(c) ==
  /\ c \in adding
  /\ AddChecks({c})
  /\ adding' = adding \ {c}
  /\ waiting' = IF pc = "freshness"
                THEN Append(waiting, [id |-> c, kind |-> "self", exit |-> exit[c]])
                ELSE waiting
  /\ UNCHANGED <<itemVars, status, exit, when, dependOn, dependMe, copies, pc,
                 todo, cur, left, resolved, command>>

ScheduleEnd ==
  /\ At("schedule") /\ todo = {}
  /\ Goto("freshness", { i \in FreshnessItems : ~active[i] })
  /\ UNCHANGED <<checks, itemVars, objVars, outVars, cur, left, resolved, adding>>

\* Scheduler.check_freshness, one item: the new check carries the exit status
\* freshness_state stands for. (The result it becomes may exceed the bound on
\* the queue by one.)
CheckFreshness(i, e) ==
  /\ At("freshness") /\ i \in todo
  /\ \E N \in FreshSets({i}) :
       /\ N # {} => inProgress[i] = <<>> /\ Len(waiting) < MaxResults
       /\ Launch(N, "scheduled", e, "due")
       /\ adding' = N
  /\ todo' = todo \ {i}
  /\ UNCHANGED <<checks, active, outVars, pc, cur, left, resolved>>

\* Mutant: the queue size is read one too large.
FreshnessEnd_OffByOne ==
  /\ At("freshness") /\ todo = {}
  /\ Goto("drain", {}) /\ left' = Len(waiting) + 1
  /\ UNCHANGED <<checks, itemVars, objVars, outVars, cur, resolved, adding>>

FreshnessEnd ==
  /\ At("freshness") /\ todo = {}
  /\ Goto("drain", {}) /\ left' = Len(waiting)
  /\ UNCHANGED <<checks, itemVars, objVars, outVars, cur, resolved, adding>>

-----------------------------------------------------------------------------
(* Main loop: consume_results *)

\* manage_results on the next result of the queue. An unknown check is
\* dropped. get_return_from is called for an executed check only: a timed out
\* one keeps the exit status it had.
Drain ==
  /\ At("drain") /\ left > 0 /\ waiting # <<>>
  /\ LET r == Head(waiting) IN
       /\ status' = IF r.id \in checks
                    THEN [status EXCEPT ![r.id] = "wait_consume"] ELSE status
       /\ exit' = IF r.id \in checks /\ r.kind = "done"
                  THEN [exit EXCEPT ![r.id] = r.exit] ELSE exit
  /\ waiting' = Tail(waiting)
  /\ left' = left - 1
  /\ UNCHANGED <<checks, itemVars, when, dependOn, dependMe, copies, command, pc, todo,
                 cur, resolved, adding, mishap>>

DrainEnd ==
  /\ At("drain") /\ left = 0
  /\ Goto("consume", checks)
  /\ UNCHANGED <<checks, itemVars, objVars, outVars, cur, left, resolved, adding>>

\* The first test of consume_result: a failing result of an item with
\* dependencies waits for fresh results of what it depends on.
MustWait(c) ==
  status[c] = "wait_consume" /\ exit[c] # 0 /\ ActDependOf[ItemOf[c]] # {}

\* Of the dependencies D, those awaited through a check already in progress
\* (the first of the list) and those for which a check is to be launched.
BusyOf(D) == { d \in D : active[d] /\ inProgress[d] # <<>> }
IdleOf(D) == { d \in D : active[d] /\ inProgress[d] = <<>> }
HeadsOf(D) == { Head(inProgress[d]) : d \in BusyOf(D) }

\* Mutant: the checks already in progress are not added to depend_on.
WaitForDependencies_NewOnly(c) ==
  /\ At("consume") /\ c \in todo /\ MustWait(c)
  /\ LET D == ActDependOf[ItemOf[c]] IN
       /\ HeadsOf(D) \subseteq checks
       /\ dependMe' = [d \in CheckIds |-> IF d \in HeadsOf(D)
                                         THEN dependMe[d] \cup {c}
                                         ELSE dependMe[d]]
  /\ status' = [status EXCEPT ![c] = "wait_depend"]
  /\ todo' = todo \ {c}
  /\ UNCHANGED <<checks, itemVars, exit, when, dependOn, outVars, pc, cur,
                 left, resolved, adding, mishap>>

\* consume_result with raise_dependencies_check. D are the dependencies whose
\* time period is valid and whose last update is older than the cached check
\* horizon. launch_check may decline for some of the idle ones.
WaitForDependencies(c) ==
  /\ At("consume") /\ c \in todo /\ MustWait(c)
  /\ \E D \in SUBSET ActDependOf[ItemOf[c]] :
       /\ HeadsOf(D) \subseteq checks
       /\ \E N \in FreshSets(IdleOf(D)) :
            /\ adding' = N
            /\ inProgress' = InProgressWith(N)
            /\ actions' = ActionsWith(N)
            /\ status' = [Begin(status, N, "scheduled") EXCEPT ![c] = "wait_depend"]
            /\ exit' = Begin(exit, N, DefaultExit)
            /\ when' = Begin(when, N, "due")
            /\ dependOn' = [Begin(dependOn, N, {}) EXCEPT
                              ![c] = dependOn[c] \cup N \cup HeadsOf(D)]
            /\ dependMe' = [d \in CheckIds |->
                              IF d \in N THEN {c}
                              ELSE IF d \in HeadsOf(D) THEN dependMe[d] \cup {c}
                              ELSE dependMe[d]]
            /\ mishap' = Begin(mishap, N, {})
  /\ todo' = todo \ {c}
  /\ UNCHANGED <<checks, active, outVars, pc, cur, left, resolved>>

\* raise_dependencies_check looks the first check in progress of a busy
\* dependency up in Scheduler.checks: a KeyError when it is not there yet.
DependencyKeyError(c) ==
  /\ At("consume") /\ c \in todo /\ MustWait(c)
  /\ ~(HeadsOf(ActDependOf[ItemOf[c]]) \subseteq checks)
  /\ Crash

\* Mutants: the check stays in checks_in_progress; the checks that wait for it
\* are forgotten.
Consumed_KeepsLink(c) ==
  /\ status' = [status EXCEPT ![c] = IF dependMe[c] # {} THEN "waiting_me"
                                     ELSE "zombie"]
  /\ todo' = todo \ {c}
  /\ UNCHANGED <<checks, itemVars, exit, when, dependOn, dependMe,
                 outVars, pc, cur, left, resolved, adding, mishap>>

Consumed_AlwaysZombie(c) ==
  /\ inProgress' = [inProgress EXCEPT ![ItemOf[c]] = Without(@, c)]
  /\ status' = [status EXCEPT ![c] = "zombie"]
  /\ todo' = todo \ {c}
  /\ UNCHANGED <<checks, actions, active, exit, when, dependOn, dependMe,
                 outVars, pc, cur, left, resolved, adding, mishap>>

\* The rest of consume_result: the check leaves checks_in_progress and is
\* kept for those that wait for it, or becomes a zombie.
Consumed(c) ==
  /\ inProgress' = [inProgress EXCEPT ![ItemOf[c]] = Without(@, c)]
  /\ status' = [status EXCEPT ![c] = IF dependMe[c] # {} THEN "waiting_me"
                                     ELSE "zombie"]
  /\ todo' = todo \ {c}
  /\ UNCHANGED <<checks, actions, active, exit, when, dependOn, dependMe,
                 outVars, pc, cur, left, resolved, adding, mishap>>

Consume(c) ==
  /\ At("consume") /\ c \in todo
  /\ status[c] = "wait_consume" /\ ~MustWait(c)
  /\ Consumed(c)

\* A check whose dependencies have all answered is consumed.
IncludeDependent(c) ==
  /\ At("include") /\ c \in todo
  /\ status[c] = "wait_depend" /\ dependOn[c] = {}
  /\ Consumed(c)

\* Mutant: the uuid is not removed from the waiting checks' depend_on.
Resolve_KeepsDependency(c) ==
  /\ At("resolve") /\ c \in todo /\ status[c] = "waiting_me"
  /\ status' = [status EXCEPT ![c] = "zombie"]
  /\ resolved' = TRUE
  /\ todo' = todo \ {c}
  /\ UNCHANGED <<checks, itemVars, exit, when, dependOn, dependMe, outVars, pc,
                 cur, left, adding, mishap>>

\* A consumed check releases those that wait for it. list.remove raises a
\* ValueError when the other side of the link is missing.
Resolve(c) ==
  /\ At("resolve") /\ c \in todo /\ status[c] = "waiting_me"
  /\ IF \A d \in dependMe[c] : c \in dependOn[d]
     THEN /\ dependOn' = [d \in CheckIds |->
                            IF d \in dependMe[c] THEN dependOn[d] \ {c}
                            ELSE dependOn[d]]
          /\ status' = [status EXCEPT ![c] = "zombie"]
          /\ resolved' = (resolved \/ dependMe[c] # {})
          /\ todo' = todo \ {c}
          /\ UNCHANGED <<checks, itemVars, exit, when, dependMe, outVars, pc,
                         cur, left, adding, mishap>>
     ELSE Crash

\* The loops visit every check of their snapshot and pass over the others.
Concerned(c) == CASE pc = "consume" -> status[c] = "wait_consume"
                  [] pc = "resolve" -> status[c] = "waiting_me"
                  [] pc = "include" -> status[c] = "wait_depend" /\ dependOn[c] = {}

PassOver(c) ==
  /\ \E work \in {"consume", "resolve", "include"} : At(work)
  /\ c \in todo /\ ~Concerned(c)
  /\ todo' = todo \ {c}
  /\ UNCHANGED <<checks, itemVars, objVars, outVars, pc, cur, left, resolved, adding>>

ConsumeEnd ==
  /\ At("consume") /\ todo = {}
  /\ Goto("resolve", checks) /\ resolved' = FALSE
  /\ UNCHANGED <<checks, itemVars, objVars, outVars, cur, left, adding>>

ResolveEnd ==
  /\ At("resolve") /\ todo = {}
  /\ Goto("include", checks)
  /\ UNCHANGED <<checks, itemVars, objVars, outVars, cur, left, resolved, adding>>

\* while have_resolved_checks
IncludeEnd ==
  /\ At("include") /\ todo = {}
  /\ IF resolved THEN Goto("resolve", checks) ELSE Goto("take", Items)
  /\ resolved' = FALSE
  /\ UNCHANGED <<checks, itemVars, objVars, outVars, cur, left, adding>>

-----------------------------------------------------------------------------
(* Main loop: get_new_actions, delete_zombie_checks, check_orphaned,       *)
(* manage_internal_checks                                                  *)

\* get_new_actions, one item: the loop over elt.actions ...
TakeActions(i) ==
  /\ At("take") /\ i \in todo
  /\ AddChecks(actions[i])
  /\ Goto("clear", todo \ {i}) /\ cur' = {i}
  /\ UNCHANGED <<itemVars, status, exit, when, dependOn, dependMe, outVars, left,
                 resolved, adding>>

\* ... and then elt.actions = []. A check that a command has put there in
\* between, and that no command registers, is lost.
ClearActions ==
  /\ At("clear")
  /\ actions' = [i \in Items |-> IF i \in cur THEN {} ELSE actions[i]]
  /\ mishap' = Marked((UNION { actions[i] : i \in cur }) \ (checks \cup Held),
                      "overlooked")
  /\ Goto("take", todo) /\ cur' = {}
  /\ UNCHANGED <<checks, inProgress, active, status, exit, when, dependOn,
                 dependMe, outVars, left, resolved, adding>>

TakeEnd ==
  /\ At("take") /\ todo = {}
  /\ Goto("zombies", {})
  /\ UNCHANGED <<checks, itemVars, objVars, outVars, cur, left, resolved, adding>>

\* delete_zombie_checks. The attributes of a deleted check are read again only
\* through a command that holds it; its history is kept while its uuid is
\* mentioned.
DeleteZombieChecks ==
  /\ At("zombies")
  /\ LET Z    == { c \in checks : status[c] = "zombie" }
         Gone == Z \ Held
     IN  /\ checks' = checks \ Z
         /\ status' = Begin(status, Gone, "none")
         /\ exit' = Begin(exit, Gone, DefaultExit)
         /\ when' = Begin(when, Gone, "due")
         /\ dependMe' = Begin(dependMe, Gone, {})
         /\ mishap' = Begin(mishap, { c \in Gone : ~Mentioned(c) }, {})
  /\ Goto("orphans", {})
  /\ UNCHANGED <<itemVars, dependOn, outVars, cur, left, resolved, adding>>

\* Mutant: the orphans are only reported.
CheckOrphaned_ReportsOnly ==
  /\ At("orphans")
  /\ Goto("internal", { c \in checks : ItemOf[c] \in Internal })
  /\ UNCHANGED <<checks, itemVars, objVars, outVars, cur, left, resolved, adding>>

\* check_orphaned: polled checks that are late are offered again.
CheckOrphaned ==
  /\ At("orphans")
  /\ status' = Begin(status, { c \in checks : /\ Orphanage
                                              /\ status[c] = "polled"
                                              /\ when[c] = "late" },
                     "scheduled")
  /\ Goto("internal", { c \in checks : ItemOf[c] \in Internal })
  /\ UNCHANGED <<checks, itemVars, exit, when, dependOn, dependMe, outVars,
                 cur, left, resolved, adding, mishap>>

\* manage_internal_checks, one internal check with the result e of its rule:
\* executed, or made a zombie when the active checks of its item are disabled.
ManageInternalCheck(c, e) ==
  /\ At("internal") /\ c \in todo
  /\ LET due    == status[c] = "scheduled" /\ when[c] # "future"
         runs   == due /\ active[ItemOf[c]]
     IN  /\ status' = IF due THEN [status EXCEPT ![c] = IF runs THEN "wait_consume"
                                                              ELSE "zombie"]
                      ELSE status
         /\ exit' = IF runs THEN [exit EXCEPT ![c] = e] ELSE exit
         /\ mishap' = Marked(IF due /\ ~runs THEN {c} ELSE {}, "dropped")
  /\ todo' = todo \ {c}
  /\ UNCHANGED <<checks, itemVars, when, dependOn, dependMe, outVars, pc, cur,
                 left, resolved, adding>>

TurnEnd ==
  /\ At("internal") /\ todo = {}
  /\ Goto("schedule", Items)
  /\ UNCHANGED <<checks, itemVars, objVars, outVars, cur, left, resolved, adding>>

-----------------------------------------------------------------------------
(* Satellites, seen from the scheduler *)

\* get_to_run_checks hands a check to a satellite.
Poll(c) ==
  /\ pc # "crashed"
  /\ c \in checks /\ ItemOf[c] \notin Internal
  /\ status[c] = "scheduled" /\ when[c] # "future"
  /\ copies[c] < MaxCopies
  /\ status' = [status EXCEPT ![c] = "polled"]
  /\ copies' = [copies EXCEPT ![c] = @ + 1]
  /\ UNCHANGED <<checks, itemVars, exit, when, dependOn, dependMe, waiting,
                 loopVars, command, mishap>>

\* _results: the satellite returns one of its copies.
Return(c, kind, e) ==
  /\ pc # "crashed"
  /\ copies[c] > 0 /\ Len(waiting) < MaxResults
  /\ copies' = [copies EXCEPT ![c] = @ - 1]
  /\ waiting' = Append(waiting, [id |-> c, kind |-> kind, exit |-> e])
  /\ UNCHANGED <<checks, itemVars, objVars, loopVars, command>>

\* A copy never comes back: the request, the worker or the push was lost. (The
\* bound on the queue delays both fates of a copy alike.)
Lose(c) ==
  /\ pc # "crashed"
  /\ copies[c] > 0 /\ Len(waiting) < MaxResults
  /\ copies' = [copies EXCEPT ![c] = @ - 1]
  /\ UNCHANGED <<checks, itemVars, objVars, waiting, loopVars, command>>

\* The clock reaches t_to_go, then t_to_go + time_to_orphanage.
Elapse(c) ==
  /\ pc # "crashed"
  /\ \/ status[c] = "scheduled" /\ when[c] = "future"
        /\ when' = [when EXCEPT ![c] = "due"]
     \/ status[c] = "polled" /\ when[c] = "due" /\ Orphanage
        /\ when' = [when EXCEPT ![c] = "late"]
  /\ UNCHANGED <<checks, itemVars, status, exit, dependOn, dependMe, satVars,
                 loopVars, command, mishap>>

-----------------------------------------------------------------------------
(* External commands, run by an HTTP thread, one at a time *)

Arrives(name, i) == pc # "crashed" /\ command = Idle /\ name \in Commands[i]

\* launch_check with force on a check in progress: it is due now.
Hijack(c) ==
  /\ when' = [when EXCEPT ![c] = "due"]
  /\ UNCHANGED <<inProgress, actions, status, exit, dependOn, dependMe, mishap>>

\* SCHEDULE_FORCED_HOST_CHECK, SCHEDULE_FORCED_SVC_CHECK: schedule with force.
\* A known check in progress is brought forward, else one is launched; the
\* command leaves it to get_new_actions to register it.
ScheduleForcedCheck(i) ==
  /\ Arrives("force", i)
  /\ \/ Hijackable(i) /\ Hijack(Head(inProgress[i]))
     \/ /\ ~Hijackable(i)
        /\ \E N \in FreshSets({i}) \ {{}} :
             Launch(N, "scheduled", DefaultExit, "future")
  /\ UNCHANGED <<checks, active, satVars, loopVars, command>>

\* SCHEDULE_HOST_CHECK, SCHEDULE_SVC_CHECK: schedule with a force_time, which
\* the in_checking test lets through.
ScheduleCheck(i) ==
  /\ Arrives("schedule", i) /\ active[i]
  /\ \E N \in FreshSets({i}) \ {{}} :
       Launch(N, "scheduled", DefaultExit, "future")
  /\ UNCHANGED <<checks, active, satVars, loopVars, command>>

\* PROCESS_HOST_CHECK_RESULT, PROCESS_SERVICE_CHECK_RESULT: launch_check with
\* force gives the check in progress, or a new one ...
ProcessCheckResult(i, e) ==
  /\ Arrives("passive", i)
  /\ \/ /\ Hijackable(i) /\ Hijack(Head(inProgress[i]))
        /\ command' = [stage |-> "passive", checks |-> {Head(inProgress[i])}, exit |-> e]
     \/ /\ ~Hijackable(i)
        /\ \E N \in FreshSets({i}) \ {{}} :
             /\ Launch(N, "scheduled", DefaultExit, "due")
             /\ command' = [stage |-> "passive", checks |-> N, exit |-> e]
  /\ UNCHANGED <<checks, active, satVars, loopVars>>

\* The checks in progress that disable_active_checks reaches: the lookup of an
\* unknown one raises a KeyError that ends the command.
Reached(i) ==
  { inProgress[i][k] : k \in { n \in DOMAIN inProgress[i] :
                                 \A m \in 1..n : inProgress[i][m] \in checks } }

\* DISABLE_HOST_CHECK, DISABLE_SVC_CHECK: the checks in progress are looked up,
\* to become results with the item's present state e ...
DisableActiveChecks(i, e) ==
  /\ Arrives("disable", i) /\ active[i]
  /\ active' = [active EXCEPT ![i] = FALSE]
  /\ command' = IF Reached(i) = {} THEN Idle
                ELSE [stage |-> "disable", checks |-> Reached(i), exit |-> e]
  /\ UNCHANGED <<checks, inProgress, actions, objVars, satVars, loopVars>>

\* ... the command turns its check into a result; what disable_active_checks
\* writes on a check deleted meanwhile is never read ...
WriteResult ==
  /\ pc # "crashed" /\ command.stage \in {"passive", "disable"}
  /\ LET S == Held \cup (command.checks \cap checks) IN
       /\ status' = Begin(status, S, "wait_consume")
       /\ exit' = Begin(exit, S, command.exit)
       /\ mishap' = Marked({ c \in S : status[c] = "zombie" }, "revived")
  /\ command' = IF command.stage = "disable" THEN Idle
                ELSE [command EXCEPT !.stage = "send"]
  /\ UNCHANGED <<checks, itemVars, when, dependOn, dependMe, satVars, loopVars>>

\* ... and a passive one is registered with send_an_element.
SendResult ==
  /\ pc # "crashed" /\ command.stage = "send"
  /\ AddChecks(command.checks)
  /\ command' = Idle
  /\ UNCHANGED <<itemVars, status, exit, when, dependOn, dependMe, satVars, loopVars>>

\* ENABLE_HOST_CHECK, ENABLE_SVC_CHECK.
EnableActiveChecks(i) ==
  /\ Arrives("enable", i) /\ ~active[i]
  /\ active' = [active EXCEPT ![i] = TRUE]
  /\ UNCHANGED <<checks, inProgress, actions, objVars, satVars, loopVars, command>>

-----------------------------------------------------------------------------
(* Specification *)

MainLoop ==
  \/ \E i \in Items : Schedule(i)
  \/ \E c \in CheckIds : Register(c)
  \/ ScheduleEnd
  \/ \E i \in Items, e \in Exits : CheckFreshness(i, e)
  \/ FreshnessEnd
  \/ Drain
  \/ DrainEnd
  \/ \E c \in CheckIds : WaitForDependencies(c)
  \/ \E c \in CheckIds : DependencyKeyError(c)
  \/ \E c \in CheckIds : Consume(c)
  \/ \E c \in CheckIds : Resolve(c)
  \/ \E c \in CheckIds : IncludeDependent(c)
  \/ \E c \in CheckIds : PassOver(c)
  \/ ConsumeEnd
  \/ ResolveEnd
  \/ IncludeEnd
  \/ \E i \in Items : TakeActions(i)
  \/ ClearActions
  \/ TakeEnd
  \/ DeleteZombieChecks
  \/ CheckOrphaned
  \/ \E c \in CheckIds, e \in Exits : ManageInternalCheck(c, e)
  \/ TurnEnd

Satellites ==
  \/ \E c \in CheckIds : Poll(c)
  \/ \E c \in CheckIds, e \in Exits : Return(c, "done", e)
  \/ \E c \in CheckIds : Return(c, "timeout", DefaultExit)
  \/ \E c \in CheckIds : Lose(c)

ExternalCommands ==
  \/ \E i \in Items : ScheduleForcedCheck(i)
  \/ \E i \in Items : ScheduleCheck(i)
  \/ \E i \in Items, e \in Exits : ProcessCheckResult(i, e)
  \/ \E i \in Items, e \in Exits : DisableActiveChecks(i, e)
  \/ WriteResult
  \/ SendResult
  \/ \E i \in Items : EnableActiveChecks(i)

Next ==
  \/ MainLoop
  \/ Satellites
  \/ \E c \in CheckIds : Elapse(c)
  \/ ExternalCommands

Spec == Init /\ [][Next]_vars

\* The main loop goes on; the clock goes on; the satellites keep polling and
\* do not lose every copy of a check for ever.
Fairness ==
  /\ WF_vars(MainLoop)
  /\ \A c \in CheckIds :
       /\ WF_vars(Elapse(c))
       /\ WF_vars(Poll(c))
       /\ SF_vars(\E e \in Exits : Return(c, "done", e))

FairSpec == Spec /\ Fairness

-----------------------------------------------------------------------------
(* Properties *)

InProgress(i) == Range(inProgress[i])

\* A check that consume_results can still consume.
Live(c) == status[c] \in {"scheduled", "polled", "wait_consume", "wait_depend"}

\* A launched check that Scheduler.checks does not know: the main loop or a
\* command is about to register it, get_new_actions has still to find it in
\* the item's actions, or has thrown it away unread.
Unregistered(c) ==
  /\ c \notin checks
  /\ \/ c \in adding \/ c \in Held \/ c \in actions[ItemOf[c]]
     \/ "overlooked" \in mishap[c]

\* in_checking stops schedule and check_freshness, and only consume_result
\* ends it: every uuid in checks_in_progress must lead to a check of the item
\* that consume_results will still consume, or that is not registered yet. Two
\* mishaps leave the item in checking for ever: its check is overlooked, or
\* manage_internal_checks drops it.
InProgressAccounted ==
  \A i \in Items : \A c \in InProgress(i) :
    /\ ItemOf[c] = i
    /\ \/ Live(c) /\ (c \in checks \/ Unregistered(c))
       \/ "dropped" \in mishap[c]

\* A check set aside by consume_result waits for checks that will still
\* answer, and each of them knows that it is awaited. The exception is one
\* that manage_internal_checks has dropped.
NoAbandonedWait ==
  \A c \in checks : status[c] = "wait_depend" =>
    \A d \in dependOn[c] :
      \/ "dropped" \in mishap[d]
      \/ /\ d \in checks \cup adding
         /\ status[d] \notin {"none", "zombie"}
         /\ c \in dependMe[d]

\* raise_dependencies_check has met a check in progress that is not in
\* Scheduler.checks.
LookupFailed ==
  \E c \in CheckIds : \E d \in BusyOf(ActDependOf[ItemOf[c]]) :
    LET h == Head(inProgress[d]) IN
      /\ MustWait(c) /\ h \notin checks
      /\ "dropped" \in mishap[h] \/ Unregistered(h)

\* consume_results has met a check whose result was written again after it had
\* released those that waited for it.
ReleaseFailed ==
  \E c \in CheckIds : status[c] = "waiting_me" /\ "revived" \in mishap[c]

\* Every lookup in Scheduler.checks and every list.remove of consume_results
\* succeeds, except in the windows that external commands open: a check that
\* is launched and not registered, dropped, or revived. In particular the main
\* loop never trips over its own launches.
CrashExplained == pc = "crashed" => LookupFailed \/ ReleaseFailed

\* No exception leaves the main loop.
NoCrash == pc # "crashed"

\* The drain of consume_results never blocks on an empty queue.
DrainHasResults == pc = "drain" => left <= Len(waiting)

\* Every check in progress is eventually consumed.
InProgressConsumed ==
  \A c \in CheckIds :
    c \in InProgress(ItemOf[c]) ~> c \notin InProgress(ItemOf[c])

\* Every check that waits for its dependencies stops waiting.
WaitEnds ==
  \A c \in CheckIds : status[c] = "wait_depend" ~> status[c] # "wait_depend"
-----------------------------------------------------------------------------
(* The inductive invariant of the properties above. Each part says what one  *)
(* kind of step must be able to rely on.                                     *)

\* launch_check appends a new uuid, so that one removal removes it.
NoDuplicates ==
  \A i \in Items : \A m, n \in DOMAIN inProgress[i] :
    inProgress[i][m] = inProgress[i][n] => m = n

\* The loops of consume_results visit checks that still exist.
TodoKnown == pc \in {"consume", "resolve", "include"} => todo \subseteq checks

\* Dependency links seen from the waiting side, and ...
AwaitedKnown ==
  \A c \in CheckIds : \A d \in dependOn[c] :
    \/ "dropped" \in mishap[d]
    \/ /\ d \in checks \cup adding
       /\ status[d] \notin {"none", "zombie"}
       /\ c \in dependMe[d]

\* ... from the awaited side, until the awaited check has released the others:
\* then it is a zombie until it is deleted, or a command revives it.
AwaitingLinked ==
  \A d \in CheckIds : \A c \in dependMe[d] :
    \/ d \in dependOn[c]
    \/ "revived" \in mishap[d]
    \/ /\ status[d] = "zombie"
       /\ d \in checks => pc \in {"resolve", "include", "take", "clear", "zombies",
                                 "crashed"}

\* What the main loop has launched it registers before its next step.
AddingAtWork == adding # {} => pc \in {"schedule", "freshness", "consume"}

Books == TypeOK /\ DrainHasResults /\ AddingAtWork /\ TodoKnown
Links == NoDuplicates /\ InProgressAccounted /\ AwaitedKnown /\ AwaitingLinked

IInv == Books /\ Links /\ CrashExplained
=============================================================================
