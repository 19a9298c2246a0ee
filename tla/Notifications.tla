---------------------------- MODULE Notifications ----------------------------
(***************************************************************************)
(* The notifications of a host or service: the master notifications that   *)
(* consume_result, acknowledgements, downtimes and flapping create, the    *)
(* scattering of a master into one child per contact and command, and the  *)
(* children on their way to a reactionner.                                 *)
(*                                                                         *)
(* A turn of the main loop consumes a result, takes the new actions of the *)
(* item (get_new_actions) and scatters the masters that are due. Commands, *)
(* the reactionner's polls and its results come through HTTP threads,      *)
(* between any two of these steps. The item is one record, and what a      *)
(* handler does to it is an operator from item to item.                    *)
(***************************************************************************)
EXTENDS NotificationRules, SequencesExt

CONSTANTS
  Confs,          \* the items looked at: [type, interval, delay, options, period,
                  \* max, volatile, flap, depends, contacts, states,
                  \* commands: what else happens to it]
  Statuses,       \* the states results give
  CheckInterval,  \* seconds between two results
  MaxNumber,      \* bound: current_notification_number
  MaxCommands,    \* bound: commands and downtimes
  MaxOrphans,     \* bound: children that the reactionner loses
  MaxChildren,    \* bound: children in the scheduler when time passes
  MaxAge          \* bound: ages and delays, in seconds, are told apart up to it

ASSUME NotificationConstants ==
  /\ "OK" \in Statuses /\ Statuses \subseteq {"OK", "WARNING", "CRITICAL", "UNKNOWN"}
  /\ Confs \subseteq [type : {"host", "service"}, interval : Nat, delay : Nat,
                      options : SUBSET {"w", "c", "u", "r", "f", "s", "n"},
                      period : (SUBSET Phases) \ {{}}, max : Nat \ {0},
                      volatile : BOOLEAN, flap : BOOLEAN, depends : BOOLEAN,
                      contacts : SUBSET Contacts, states : SUBSET Statuses,
                      commands : SUBSET {"ack", "toggle", "downtime", "host", "contact"}]
  /\ {CheckInterval, MaxNumber, MaxCommands, MaxOrphans, MaxChildren, MaxAge}
       \subseteq Nat

VARIABLES
  conf,      \* the configuration of the item
  item,      \* its running properties
  children,  \* the child notifications of scheduler.actions, in their order
  pc,        \* the stage of the main loop
  phase,     \* the clock, modulo the cycle of the time periods
  checked,   \* the phase of last_chk
  rest,      \* seconds until the next result may come
  hostQuiet, \* the host of the service is in a downtime or not UP
  away,      \* the contacts in a downtime
  commands, orphans,
  silent,    \* history: results in a row that left an unblocked problem untold
  told,      \* history: contact -> what it was told last
  excused    \* history: the contacts that refused a RECOVERY, or that an
             \* orphaned child was handed out for again

envVars == <<phase, checked, rest, hostQuiet, away>>
vars == <<conf, item, children, pc, envVars, commands, orphans, silent, told, excused>>

Init ==
  /\ conf \in Confs
  /\ item = [state |-> "OK", last |-> "OK", kind |-> "HARD", lastKind |-> "HARD",
             attempt |-> 1, seen |-> [s \in Statuses |-> -1],
             inUnknown |-> FALSE, wasUnknown |-> FALSE, before |-> "OK",
             enabled |-> TRUE, ack |-> "none", depth |-> 0, ended |-> FALSE,
             flapping |-> FALSE, changes |-> <<>>,
             number |-> 0, notified |-> {}, masters |-> <<>>]
  /\ children = <<>> /\ pc = "consume"
  /\ phase = 0 /\ checked = 0 /\ rest = 0 /\ hostQuiet = FALSE /\ away = {}
  /\ commands = 0 /\ orphans = 0
  /\ silent = 0
  /\ told = [c \in Contacts |-> "nothing"] /\ excused = {}

-----------------------------------------------------------------------------
(* Master notifications *)

Blocks(i, type, t) ==
  IF conf.type = "host" THEN HostBlocks(i, conf, phase, type, t)
  ELSE ServiceBlocks(i, conf, hostQuiet, phase, type, t)

\* last_time_non_ok_or_up: the age of the oldest of the last times of the failing
\* states since the last OK, none if it is -1.
LastTimeNonOk(i) ==
  CHOOSE a \in -1..MaxAge : /\ \E s \in Statuses : i.seen[s] = a
                           /\ \A s \in Statuses : i.seen[s] <= a

\* The time wished: the first PROBLEM waits for first_notification_delay.
Wished(i, type) ==
  IF type = "PROBLEM" /\ i.number = 0
  THEN conf.delay + (IF LastTimeNonOk(i) >= 0 THEN 1 - LastTimeNonOk(i) ELSE 0)
  ELSE 0

\* A blocked notification is dropped only if it would not be repeated.
Dropped(i, type) ==
  Blocks(i, type, Wished(i, type)) /\ conf.delay = 0 /\ conf.interval = 0

Capped(n) == IF n > MaxNumber THEN MaxNumber ELSE n

\* Mutant: a RECOVERY does not reset the number.
CreateNotifications_Counts(i, type) ==
  IF Dropped(i, type) THEN i
  ELSE LET nb == IF type = "PROBLEM" THEN Capped(i.number + 1) ELSE i.number
           wait == GetNextValidTime(conf.period, phase, Wished(i, type))
       IN [i EXCEPT !.masters = Append(@, [type |-> type, nb |-> nb, wait |-> wait,
                                           age |-> 0, started |-> {}, at |-> "item"])]

\* create_notifications. The master waits in item.actions.
CreateNotifications(i, type) ==
  IF Dropped(i, type) THEN i
  ELSE LET number == IF type = "RECOVERY" THEN 0 ELSE i.number
           nb == IF type = "PROBLEM" THEN Capped(number + 1) ELSE number
           wait == GetNextValidTime(conf.period, phase, Wished(i, type))
       IN [i EXCEPT !.number = number,
                    !.masters = Append(@, [type |-> type, nb |-> nb, wait |-> wait,
                                           age |-> 0, started |-> {}, at |-> "item"])]

\* The masters of acknowledgements and downtimes, which stay.
Preserved(masters) ==
  LET kept[k \in 0..Len(masters)] ==
        IF k = 0 THEN <<>>
        ELSE IF masters[k].type \in Downtimes \cup {"ACKNOWLEDGEMENT"}
        THEN Append(kept[k - 1], masters[k]) ELSE kept[k - 1]
  IN kept[Len(masters)]

\* remove_in_progress_notifications(master=True).
RemoveInProgressNotifications(i) == [i EXCEPT !.masters = Preserved(@)]

\* Mutant: the new PROBLEM is added to the one that waits.
Renew_Adds(i, type, enable) == IF enable THEN CreateNotifications(i, type) ELSE i

\* The masters in progress are removed and, unless the dependencies explain the
\* state, a new one is created.
Renew(i, type, enable) ==
  LET j == RemoveInProgressNotifications(i)
  IN IF enable THEN CreateNotifications(j, type) ELSE j

-----------------------------------------------------------------------------
(* consume_result *)

\* unacknowledge_problem, unacknowledge_problem_if_not_sticky.
Unacknowledge(i) == [i EXCEPT !.ack = "none"]
UnacknowledgeIfNotSticky(i) == [i EXCEPT !.ack = IF @ = "sticky" THEN @ ELSE "none"]

\* The flapping part of set_state_from_exit_status.
Flapping(i) ==
  IF ~conf.flap THEN i
  ELSE LET changes == AddFlappingChange(i.changes, i.state # i.last)
           now == UpdateFlapping(i.flapping, changes)
           j == [i EXCEPT !.changes = changes, !.flapping = now]
       IN IF now = i.flapping THEN j
          ELSE Renew(j, IF now THEN "FLAPPINGSTART" ELSE "FLAPPINGSTOP", TRUE)

\* set_state_from_exit_status, then last_state_type.
SetState(i, s) ==
  LET seen == IF s = "OK" THEN [x \in Statuses |-> -1] ELSE [i.seen EXCEPT ![s] = 0]
      j == Flapping([i EXCEPT !.last = i.state, !.state = s, !.seen = seen])
  IN [j EXCEPT !.lastKind = j.kind]

\* update_hard_unknown_phase_state.
UpdateUnknownPhase(i) ==
  LET was == i.inUnknown
      still == was /\ i.kind = "HARD" /\ i.lastKind = "HARD"
      enters == ~still /\ i.state = "UNKNOWN" /\ i.last # "UNKNOWN"
      in == enters \/ (still /\ i.state = "UNKNOWN")
      same == ~in /\ was => i.state = i.before
  IN [i EXCEPT !.inUnknown = in,
               !.wasUnknown = IF enters THEN was ELSE was /\ same,
               !.before = IF enters THEN i.last ELSE @]

IsMax(i) == i.attempt >= conf.max
Hard(i) == [i EXCEPT !.kind = "HARD"]

\* To UP/OK: a HARD problem is followed by a RECOVERY.
ToOk(i, enable) ==
  LET j == Unacknowledge(i)
      k == IF i.kind = "HARD" THEN Renew(j, "RECOVERY", enable) ELSE j
  IN IF i.last = "OK"
     THEN IF i.kind = "SOFT" THEN [j EXCEPT !.kind = IF IsMax(j) THEN "HARD" ELSE "SOFT"]
          ELSE [j EXCEPT !.attempt = 1]
     ELSE [k EXCEPT !.kind = "HARD", !.attempt = 1]

\* Only a service is volatile: a result that fails is HARD at once, and notified each time.
Volatile == conf.type = "service" /\ conf.volatile
FailsVolatile(i, enable) == Renew(Hard([i EXCEPT !.attempt = 1]), "PROBLEM", enable)

\* From UP/OK to a failing state.
StartsFailing(i, enable) ==
  LET j == [i EXCEPT !.attempt = 1]
  IN IF IsMax(j) THEN Renew(Hard(j), "PROBLEM", enable)
     ELSE [j EXCEPT !.kind = "SOFT"]

\* From a failing state in a SOFT state type to a failing state.
SoftFailing(i, enable, dependent) ==
  LET j == [i EXCEPT !.attempt = IF dependent \/ IsMax(i) THEN @ ELSE @ + 1]
      k == IF i.state # i.last THEN UnacknowledgeIfNotSticky(j) ELSE j
  IN IF IsMax(k) THEN Renew(Hard(k), "PROBLEM", enable) ELSE k

\* A HARD problem changes: a new PROBLEM, unless it comes from or goes to an
\* UNKNOWN phase.
HardChanged(i, enable) ==
  LET j == UpdateUnknownPhase(i)
  IN IF j.inUnknown \/ j.wasUnknown THEN j
     ELSE Renew(UnacknowledgeIfNotSticky(j), "PROBLEM", enable)

\* Mutant: only the end of a downtime brings a first notification again.
FirstAgain_Never(i, enable) == i

\* No notification was sent yet: the PROBLEM is created again.
FirstAgain(i, enable) ==
  IF enable /\ i.enabled /\ i.number = 0 THEN Renew(i, "PROBLEM", TRUE) ELSE i

\* From a failing state in a HARD state type to a failing state.
HardFailing(i, enable) ==
  LET j == IF i.state # i.last THEN HardChanged(i, enable)
           ELSE IF i.ended THEN Renew(i, "PROBLEM", enable) ELSE i
  IN FirstAgain(j, enable)

ConsumeResult(i, s, enable, dependent) ==
  LET j == SetState(i, s)
      k == CASE s = "OK" -> ToOk(j, enable)
             [] s # "OK" /\ Volatile -> FailsVolatile(j, enable)
             [] s # "OK" /\ ~Volatile /\ j.last = "OK" -> StartsFailing(j, enable)
             [] s # "OK" /\ ~Volatile /\ j.last # "OK" /\ j.kind = "SOFT" ->
                  SoftFailing(j, enable, dependent)
             [] OTHER -> HardFailing(j, enable)
  IN [UpdateUnknownPhase(k) EXCEPT !.ended = FALSE]

\* The problem is HARD, nothing blocks its notification and no dependency may
\* explain it.
Failing(i) == i.kind = "HARD" /\ i.state # "OK"
Unblocked(i) == /\ Failing(i) /\ away = {} /\ ~conf.depends
                /\ \A t \in 0..Cycle - 1 : ~Blocks(i, "PROBLEM", t)

\* consume_results finds a result of the item; enable is what
\* is_enable_action_dependent says of the items it depends on.
Consume(s, enable, dependent) ==
  /\ pc = "consume" /\ rest = 0 /\ s \in conf.states
  /\ conf.depends \/ (enable /\ ~dependent)
  /\ item' = ConsumeResult(item, s, enable, dependent)
  /\ rest' = CheckInterval /\ checked' = phase
  /\ silent' = IF ~Unblocked(item') \/ item'.number > 0 THEN 0
               ELSE IF silent < 4 THEN silent + 1 ELSE silent
  /\ pc' = "get"
  /\ UNCHANGED <<conf, children, phase, hostQuiet, away, commands, orphans, told, excused>>

NoResult ==
  /\ pc = "consume" /\ pc' = "get"
  /\ UNCHANGED <<conf, item, children, envVars, commands, orphans, silent, told, excused>>

-----------------------------------------------------------------------------
(* The rest of the turn *)

Moved(i, from, to) ==
  [i EXCEPT !.masters = [k \in DOMAIN @ |->
     IF @[k].at = from THEN [@[k] EXCEPT !.at = to] ELSE @[k]]]

\* get_new_actions: the loop over item.actions.
GetNewActions ==
  /\ pc = "get" /\ pc' = "clear"
  /\ item' = Moved(item, "item", "scheduler")
  /\ UNCHANGED <<conf, children, envVars, commands, orphans, silent, told, excused>>

\* The list is emptied: what a command has added since the loop is lost.
ClearActions ==
  /\ pc = "clear" /\ pc' = "due"
  /\ item' = Moved(item, "item", "lost")
  /\ UNCHANGED <<conf, children, envVars, commands, orphans, silent, told, excused>>

\* scatter_master_notifications begins with the list of those that are due.
DueMasters ==
  /\ pc = "due" /\ pc' = "scatter"
  /\ item' = [item EXCEPT !.masters = [k \in DOMAIN @ |->
       IF @[k].at = "scheduler" /\ @[k].wait <= 0 THEN [@[k] EXCEPT !.at = "due"] ELSE @[k]]]
  /\ UNCHANGED <<conf, children, envVars, commands, orphans, silent, told, excused>>

\* The contacts of scatter_notification, for the master m.
Recipients(i, m) ==
  LET escalations == Eligible(i.state, m, phase)
      asked == IF m.type = "RECOVERY" THEN i.notified
               ELSE IF escalations = {} THEN conf.contacts
               ELSE UNION { e.contacts : e \in escalations }
      again == /\ m.type = "PROBLEM" /\ conf.interval = 0
               /\ i.kind = "HARD" /\ i.lastKind = i.kind /\ i.state = i.last
  IN { c \in asked : ~(again /\ c \in i.notified) }

\* scatter_notification: a child for each contact and command that it wants.
ChildrenOf(i, m) ==
  IF Blocks(i, m.type, 0) THEN {}
  ELSE { [type |-> m.type, contact |-> p[1], way |-> p[2], status |-> "scheduled"] :
           p \in { q \in Recipients(i, m) \X DOMAIN Ways :
                     ContactWants(q[1], q[2], away, i.state, m.type, checked) } }

\* Mutant: a RECOVERY that is blocked empties notified_contacts_ids as well.
Notified_Forgets(i, m, new) ==
  IF m.type = "RECOVERY" THEN {}
  ELSE IF m.type = "PROBLEM" THEN i.notified \cup { c.contact : c \in new }
  ELSE i.notified

\* notified_contacts_ids after the scattering.
Notified(i, m, new) ==
  IF m.type = "RECOVERY" THEN IF Blocks(i, m.type, 0) THEN i.notified ELSE {}
  ELSE IF m.type = "PROBLEM" THEN i.notified \cup { c.contact : c \in new }
  ELSE i.notified

\* The master after it was scattered, in the place it had: a PROBLEM waits for its
\* repetition, any other is wiped out.
Repeated(i, k, number) ==
  LET m == i.masters[k]
      tag == IF Blocks(i, m.type, 0) THEN {} ELSE Eligible(i.state, m, phase)
      n == [m EXCEPT !.started = @ \cup tag, !.at = "scheduler"]
  IN IF m.type = "PROBLEM" /\ conf.interval # 0
     THEN [i.masters EXCEPT ![k] =
             [n EXCEPT !.wait = GetNextNotificationTime(n, i.state, conf.interval, phase),
                       !.nb = Capped(number + 1)]]
     ELSE RemoveAt(i.masters, k)

\* The contact wants no RECOVERY now.
Refuses(c) ==
  \A w \in WaysOf[c] : ~ContactWants(c, w, away, item.state, "RECOVERY", checked)

\* One master of scatter_master_notifications; a dict gives them in any order.
ScatterMaster(k) ==
  /\ pc = "scatter" /\ item.masters[k].at = "due"
  /\ LET m == item.masters[k]
         new == ChildrenOf(item, m)
         number == IF m.type = "PROBLEM" /\ new # {} THEN m.nb ELSE item.number
     IN /\ item' = [item EXCEPT !.number = number,
                                !.notified = Notified(item, m, new),
                                !.masters = Repeated(item, k, number)]
        /\ children' = children \o SetToSeq(new)
        /\ excused' = IF m.type = "RECOVERY" /\ ~Blocks(item, m.type, 0)
                      THEN excused \cup { c \in item.notified : Refuses(c) } ELSE excused
  /\ UNCHANGED <<conf, pc, envVars, commands, orphans, silent, told>>

ScatterEnd ==
  /\ pc = "scatter" /\ pc' = "idle"
  /\ \A k \in DOMAIN item.masters : item.masters[k].at # "due"
  /\ UNCHANGED <<conf, item, children, envVars, commands, orphans, silent, told, excused>>

\* The master m, a second later.
Aged(m) == [m EXCEPT !.wait = IF @ + MaxAge > 0 THEN @ - 1 ELSE @,
                     !.age = IF @ < MaxAge THEN @ + 1 ELSE @]

\* One second passes, and the main loop begins a turn.
Tick ==
  /\ pc = "idle" /\ pc' = "consume"
  /\ Len(children) <= MaxChildren
  /\ phase' = (phase + 1) % Cycle
  /\ rest' = IF rest = 0 THEN 0 ELSE rest - 1
  /\ item' = [item EXCEPT
       !.masters = [k \in DOMAIN @ |-> Aged(@[k])],
       !.seen = [s \in Statuses |->
          IF @[s] \in 0..MaxAge - 1 THEN @[s] + 1 ELSE @[s]]]
  /\ UNCHANGED <<conf, children, checked, hostQuiet, away, commands, orphans, silent, told, excused>>

-----------------------------------------------------------------------------
(* Commands and downtimes *)

Command(kind) ==
  /\ kind \in conf.commands
  /\ commands < MaxCommands /\ commands' = commands + 1 /\ silent' = 0
  /\ UNCHANGED <<conf, children, pc, phase, checked, rest, orphans, told, excused>>

\* acknowledge_problem: an OK item is left alone. The flag is set after the
\* notification was created.
Acknowledged(i, sticky, notify) ==
  IF i.state = "OK" THEN i
  ELSE LET j == IF notify THEN CreateNotifications(i, "ACKNOWLEDGEMENT") ELSE i
       IN [j EXCEPT !.ack = IF sticky THEN "sticky" ELSE "normal"]

\* ACKNOWLEDGE_SVC_PROBLEM, of an item that is not OK.
AcknowledgeProblem(sticky, notify) ==
  /\ Command("ack") /\ item.state # "OK"
  /\ item' = Acknowledged(item, sticky, notify)
  /\ UNCHANGED <<hostQuiet, away>>

\* REMOVE_SVC_ACKNOWLEDGEMENT, or the end_time of the acknowledgement.
RemoveAcknowledgement ==
  /\ item.ack # "none"
  /\ item' = Unacknowledge(item) /\ silent' = 0
  /\ UNCHANGED <<conf, children, pc, envVars, commands, orphans, told, excused>>

\* ENABLE_ and DISABLE_SVC_NOTIFICATIONS.
ToggleNotifications ==
  /\ Command("toggle")
  /\ item' = [item EXCEPT !.enabled = ~@]
  /\ UNCHANGED <<hostQuiet, away>>

\* Downtime.enter and exit at the beginning of a turn (update_downtimes). The
\* downtime of a host acknowledges its problem as well, and nothing ends that
\* acknowledgement with the downtime.
EnterDowntime ==
  /\ Command("downtime") /\ pc = "consume" /\ item.depth < 2
  /\ LET i == [item EXCEPT !.depth = @ + 1]
         j == CreateNotifications(i, "DOWNTIMESTART")
     IN item' = CASE i.depth # 1 -> i
                  [] i.depth = 1 /\ conf.type = "host" -> Acknowledged(j, TRUE, TRUE)
                  [] OTHER -> j
  /\ UNCHANGED <<hostQuiet, away>>

ExitDowntime ==
  /\ pc = "consume" /\ item.depth > 0
  /\ LET i == [item EXCEPT !.depth = @ - 1]
         j == IF i.depth = 0 THEN CreateNotifications(i, "DOWNTIMEEND") ELSE i
     IN item' = [j EXCEPT !.ended = TRUE]
  /\ silent' = 0
  /\ UNCHANGED <<conf, children, pc, envVars, commands, orphans, told, excused>>

\* The host of a service goes DOWN or enters a downtime, or the contrary.
HostChanges ==
  /\ Command("host") /\ conf.type = "service"
  /\ hostQuiet' = ~hostQuiet
  /\ UNCHANGED <<item, away>>

\* A contact's downtime starts or ends. The loop of want_host_notification over
\* the contact's downtimes raises an exception for a host: services only.
ContactAway(c) ==
  /\ Command("contact") /\ conf.type = "service"
  /\ away' = IF c \in away THEN away \ {c} ELSE away \cup {c}
  /\ UNCHANGED <<item, hostQuiet>>

-----------------------------------------------------------------------------
(* The reactionner *)

Waiting(c) == { k \in DOMAIN children :
                  children[k].contact = c /\ children[k].status = "scheduled"
                  /\ children[k].type \in {"PROBLEM", "RECOVERY"} }

\* get_to_run_checks: every child that waits is handed out, in their order.
Poll ==
  /\ \E k \in DOMAIN children : children[k].status = "scheduled"
  /\ children' = [k \in DOMAIN children |-> [children[k] EXCEPT !.status = "polled"]]
  /\ told' = [c \in Contacts |->
                IF Waiting(c) = {} THEN told[c]
                ELSE children[CHOOSE k \in Waiting(c) : \A j \in Waiting(c) : j <= k].type]
  /\ UNCHANGED <<conf, item, pc, envVars, commands, orphans, silent, excused>>

\* manage_results of a child that comes back, or delete_zombie_actions.
Result(k) ==
  /\ children[k].status = "polled"
  /\ children' = RemoveAt(children, k)
  /\ UNCHANGED <<conf, item, pc, envVars, commands, orphans, silent, told, excused>>

\* check_orphaned: a child that never came back is to be polled again.
Orphaned(k) ==
  /\ pc = "idle" /\ children[k].status = "polled" /\ orphans < MaxOrphans
  /\ children' = [children EXCEPT ![k].status = "scheduled"]
  /\ orphans' = orphans + 1 /\ excused' = excused \cup {children[k].contact}
  /\ UNCHANGED <<conf, item, pc, envVars, commands, silent, told>>

-----------------------------------------------------------------------------
(* Specification *)

MainLoop ==
  \/ \E s \in Statuses, enable, dependent \in BOOLEAN : Consume(s, enable, dependent)
  \/ NoResult
  \/ GetNewActions
  \/ ClearActions
  \/ DueMasters
  \/ \E k \in DOMAIN item.masters : ScatterMaster(k)
  \/ ScatterEnd

Commands ==
  \/ \E sticky, notify \in BOOLEAN : AcknowledgeProblem(sticky, notify)
  \/ RemoveAcknowledgement
  \/ ToggleNotifications
  \/ EnterDowntime
  \/ HostChanges
  \/ \E c \in Contacts : ContactAway(c)

Reactionner ==
  \/ Poll
  \/ \E k \in DOMAIN children : Result(k) \/ Orphaned(k)

Next == MainLoop \/ Tick \/ Commands \/ ExitDowntime \/ Reactionner

Spec == Init /\ [][Next]_vars

-----------------------------------------------------------------------------
(* Properties *)

Masters == [type : Types, nb : 0..MaxNumber, wait : Int, age : 0..MaxAge,
            started : SUBSET Escalations, at : {"item", "scheduler", "due", "lost"}]

Items == [state : Statuses, last : Statuses, kind : {"SOFT", "HARD"}, lastKind : {"SOFT", "HARD"},
          attempt : Nat, seen : [Statuses -> -1..MaxAge],
          inUnknown : BOOLEAN, wasUnknown : BOOLEAN, before : Statuses,
          enabled : BOOLEAN, ack : {"none", "normal", "sticky"}, depth : 0..2, ended : BOOLEAN,
          flapping : BOOLEAN, changes : Seq(BOOLEAN),
          number : 0..MaxNumber, notified : SUBSET Contacts, masters : Seq(Masters)]

TypeOK ==
  /\ conf \in Confs /\ item \in Items /\ item.attempt \in 1..conf.max
  /\ children \in Seq([type : Types, contact : Contacts, way : DOMAIN Ways,
                       status : {"scheduled", "polled"}])
  /\ pc \in {"consume", "get", "clear", "due", "scatter", "idle"}
  /\ phase \in Phases /\ checked \in Phases /\ rest \in 0..CheckInterval
  /\ hostQuiet \in BOOLEAN /\ away \subseteq Contacts
  /\ commands \in 0..MaxCommands /\ orphans \in 0..MaxOrphans /\ silent \in 0..4
  /\ told \in [Contacts -> Types \cup {"nothing"}] /\ excused \subseteq Contacts

\* "Only send recover notifications to those contacts who also got problem
\* notifications", and to all of them: a contact that was last told of a problem
\* is in notified_contacts_ids until its RECOVERY is on its way, whatever was
\* acknowledged, blocked, escalated or created again in between.
NobodyForgotten ==
  \A c \in Contacts :
    told[c] = "PROBLEM" /\ c \notin excused => c \in item.notified \/ Waiting(c) # {}

ProblemMasters == { k \in DOMAIN item.masters : item.masters[k].type = "PROBLEM" }
\* "We must continue to send notifications": an item in a HARD failing state,
\* with a notification_interval, has exactly one PROBLEM master on its way to be
\* scattered, so it is neither silent nor repeated twice. For an item without
\* flap detection and without dependencies: both remove masters.
OneReminder ==
  /\ Cardinality(ProblemMasters) <= 1
  /\ Failing(item) /\ conf.interval # 0 /\ ~conf.flap /\ ~conf.depends =>
       \E k \in ProblemMasters : item.masters[k].at # "lost"

\* The escalations of a problem start from its first notification: when the item
\* is OK again the notifications are counted from zero, if the RECOVERY could
\* not be dropped.
CountRestarts ==
  item.state = "OK" /\ item.kind = "HARD" /\ ~conf.depends
    /\ (conf.interval # 0 \/ conf.delay # 0) => item.number = 0

\* Somebody wants each PROBLEM at any time: among the contacts of an item, and
\* among those of an escalation that may take its first notification over.
Heard(contacts, s) ==
  \A x \in Phases : \E c \in contacts : \E w \in WaysOf[c] : WayWants(w, s, "PROBLEM", x)

Attentive ==
  /\ MaxNumber # 0
  /\ \A s \in Statuses \ {"OK"} :
       /\ \A c \in Confs : Heard(c.contacts, s)
       /\ \A e \in Escalations : EscalationLetter(s) \in e.options => Heard(e.contacts, s)

\* A HARD problem that nothing blocks, and that no dependency explains, is
\* notified before its next result, if first_notification_delay is over by then:
\* the results that confirm the problem do not put its notification off.
NotifiedSoon == conf.delay + 1 < CheckInterval => silent <= 1
=============================================================================
